-------------------------- MODULE PhysManagerProofs --------------------------
(*****************************************************************************)
(* The physical memory manager is safe for every number of cores, every      *)
(* memory size, every MAX_ORDER and every sequence of calls: at most one     *)
(* core is inside, the free lists and the bitmap stay consistent, and no     *)
(* page has two owners.                                                      *)
(*                                                                           *)
(* list_push_front, list_remove and list_pop_front keep the links and the    *)
(* bitmap consistent.  A page is handed from one owner (a free block, a      *)
(* block in flight, a caller, the region being added, or a segment not       *)
(* reached yet) to exactly one other.  While new() runs, the segments not    *)
(* added yet, the region being added and the free blocks are disjoint.       *)
(*****************************************************************************)
EXTENDS PhysManager, BuddyProofs

USE ZenonT(60), SMTT(60)

-----------------------------------------------------------------------------
(* The lists.                                                              *)

ListTypes ==
  /\ free_lists \in [Order -> Ptr]
  /\ buddy_map \subseteq Page
  /\ entry_order \in [Page -> Order \cup {DIRTY}]
  /\ next \in [Page -> Ptr \cup {DIRTY}]
  /\ prev \in [Page -> Ptr \cup {DIRTY}]

(* Null and client bytes are not pages. *)
LEMMA Pointers == NULL \notin Page /\ DIRTY \notin Page /\ DIRTY \notin Order /\ NULL # DIRTY
BY SMTT(60), PointerAssumption, SizeAssumption, MaxOrderAssumption DEF Page, Order

(* Pushing a node that is not listed keeps the lists well formed. *)
LEMMA PushKeepsLinks ==
  ASSUME ListTypes, LinksOK,
         NEW e \in Page, e \notin buddy_map, NEW o \in Order,
         push_buddy_list_entry(e, o)
  PROVE  ListTypes' /\ LinksOK'
<1> USE Pointers
<1>1. ListTypes'
  BY DEF ListTypes, push_buddy_list_entry, Ptr
<1>2. ASSUME NEW q \in Order, free_lists'[q] # NULL
      PROVE  /\ free_lists'[q] \in buddy_map'
             /\ entry_order'[free_lists'[q]] = q
             /\ prev'[free_lists'[q]] = NULL
  BY SMTT(60), <1>2 DEF ListTypes, LinksOK, push_buddy_list_entry, Ptr
<1>3. ASSUME NEW p \in buddy_map'
      PROVE  entry_order'[p] \in Order
  BY SMTT(60) DEF ListTypes, LinksOK, push_buddy_list_entry
<1>4. ASSUME NEW p \in buddy_map'
      PROVE  IF prev'[p] = NULL
             THEN free_lists'[entry_order'[p]] = p
             ELSE /\ prev'[p] \in buddy_map'
                  /\ next'[prev'[p]] = p
                  /\ entry_order'[prev'[p]] = entry_order'[p]
  <2>1. CASE p = e
    BY <2>1 DEF ListTypes, LinksOK, push_buddy_list_entry, Ptr
  <2>2. CASE p # e /\ p = free_lists[o]
    BY <2>2 DEF ListTypes, LinksOK, push_buddy_list_entry, Ptr
  <2>3. CASE p # e /\ p # free_lists[o]
    BY SMTT(60), <2>3 DEF ListTypes, LinksOK, push_buddy_list_entry, Ptr
  <2> QED
    BY <2>1, <2>2, <2>3
<1>5. ASSUME NEW p \in buddy_map', next'[p] # NULL
      PROVE  /\ next'[p] \in buddy_map'
             /\ prev'[next'[p]] = p
             /\ entry_order'[next'[p]] = entry_order'[p]
  <2>1. CASE p = e
    BY <1>5, <2>1 DEF ListTypes, LinksOK, push_buddy_list_entry, Ptr
  <2>2. CASE p # e
    BY SMTT(60), <1>5, <2>2 DEF ListTypes, LinksOK, push_buddy_list_entry, Ptr
  <2> QED
    BY <2>1, <2>2
<1> QED
  BY <1>1, <1>2, <1>3, <1>4, <1>5 DEF LinksOK

(* Unlinking a node of the list of its order keeps the lists well formed. *)
LEMMA RemoveKeepsLinks ==
  ASSUME ListTypes, LinksOK,
         NEW e \in buddy_map, NEW o \in Order, entry_order[e] = o,
         remove_buddy_list_entry(e, o)
  PROVE  ListTypes' /\ LinksOK'
<1> USE Pointers
<1>1. ListTypes'
  BY DEF ListTypes, LinksOK, remove_buddy_list_entry, Ptr
<1>2. ASSUME NEW q \in Order, free_lists'[q] # NULL
      PROVE  /\ free_lists'[q] \in buddy_map'
             /\ entry_order'[free_lists'[q]] = q
             /\ prev'[free_lists'[q]] = NULL
  BY SMTT(60), <1>2 DEF ListTypes, LinksOK, remove_buddy_list_entry, Ptr
<1>3. ASSUME NEW p \in buddy_map'
      PROVE  entry_order'[p] \in Order
  BY DEF ListTypes, LinksOK, remove_buddy_list_entry
<1>4. ASSUME NEW p \in buddy_map'
      PROVE  IF prev'[p] = NULL
             THEN free_lists'[entry_order'[p]] = p
             ELSE /\ prev'[p] \in buddy_map'
                  /\ next'[prev'[p]] = p
                  /\ entry_order'[prev'[p]] = entry_order'[p]
  BY SMTT(60) DEF ListTypes, LinksOK, remove_buddy_list_entry, Ptr
<1>5. ASSUME NEW p \in buddy_map', next'[p] # NULL
      PROVE  /\ next'[p] \in buddy_map'
             /\ prev'[next'[p]] = p
             /\ entry_order'[next'[p]] = entry_order'[p]
  BY SMTT(60), <1>5 DEF ListTypes, LinksOK, remove_buddy_list_entry, Ptr
<1> QED
  BY <1>1, <1>2, <1>3, <1>4, <1>5 DEF LinksOK

(* So does popping the first node of a list. *)
LEMMA PopKeepsLinks ==
  ASSUME ListTypes, LinksOK,
         NEW o \in Order, free_lists[o] # NULL,
         pop_buddy_list_entry(o)
  PROVE  ListTypes' /\ LinksOK'
<1> DEFINE e == free_lists[o]
<1>1. e \in buddy_map /\ entry_order[e] = o /\ prev[e] = NULL
  BY DEF LinksOK
<1>2. e \in Page
  BY <1>1 DEF ListTypes
<1>3. next[e] # e /\ \A p \in Page : p # prev[e]
  BY <1>1, <1>2, Pointers DEF LinksOK
<1>4. next' = [p \in Page |-> IF p = prev[e] THEN next[e] ELSE next[p]]
  BY <1>3 DEF pop_buddy_list_entry, ListTypes
<1>5. remove_buddy_list_entry(e, o)
  BY <1>1, <1>4 DEF pop_buddy_list_entry, remove_buddy_list_entry
<1> QED
  BY <1>1, <1>5, RemoveKeepsLinks

-----------------------------------------------------------------------------
(***************************************************************************)
(* The inductive invariant.  Besides the properties to be shown it says    *)
(* where the lock is held, what the locals of a running call are, that     *)
(* only one core runs until the memory map has been added, and that the    *)
(* pages a core is about to give to the manager are still in use.          *)
(***************************************************************************)

Holds(c) == pc[c] \in InLock

(* At most one core has the lock, and the flag says whether one does. *)
LockOK ==
  /\ \A c, d \in Cores : Holds(c) /\ Holds(d) => c = d
  /\ lock <=> \E c \in Cores : Holds(c)

(* Which function a core is in, and the block it works on. *)
CallOK ==
  \A c \in Cores :
    /\ pc[c] \in {"idle", "new", "segments"} => op[c] = "none"
    /\ pc[c] = "free_block" => op[c] # "alloc"
    /\ pc[c] \in {"alloc_block", "split"} => op[c] = "alloc"
    /\ pc[c] \in {"alloc_block", "split"} => order[c] >= goal[c]
    /\ Working(c) => order[c] \in Order /\ Aligned(index[c], order[c])

(* The blocks that free calls still have to free are in use and disjoint. *)
TodoOK ==
  /\ \A c \in Cores : \A b \in todo[c] :
       Aligned(b[1], b[2]) /\ Block(b[1], b[2]) \subseteq used
  /\ \A c, d \in Cores : \A a \in todo[c], b \in todo[d] :
       c # d \/ a # b => Block(a[1], a[2]) \cap Block(b[1], b[2]) = {}

(* What is left of the region that add_region works on. *)
RegionPages == region.index .. (region.index + region.page_count - 1)

(* The segments are disjoint and end inside memory. *)
MapOK ==
  /\ \A i \in DOMAIN memory_map : End(memory_map[i]) <= PAGE_LIMIT
  /\ \A i, j \in DOMAIN memory_map :
       i # j => Pages(memory_map[i]) \cap Pages(memory_map[j]) = {}

(* The pages that new() still has to add to the manager are in use. *)
AddOK ==
  /\ RegionPages \subseteq used
  /\ \A i \in DOMAIN memory_map : i >= seg /\ IsFree(memory_map[i]) =>
       /\ Pages(memory_map[i]) \subseteq used
       /\ Pages(memory_map[i]) \cap RegionPages = {}

(* Before INSTANCE is written only the boot core runs, and in new() only.  *)
BootOK ==
  IF instance
  THEN \A c \in Cores : pc[c] \notin {"new", "segments", "expect"} /\ op[c] # "add_region"
  ELSE /\ \A c, d \in Cores : c # d => pc[c] = "idle" \/ pc[d] = "idle"
       /\ \A c \in Cores : op[c] \in {"none", "add_region"} /\ todo[c] = {}
       /\ \A c \in Cores : pc[c] = "new" =>
            buddy_map = {} /\ region.page_count = 0 /\ seg = 1
       /\ AddOK \/ \E c \in Cores : pc[c] \in {"new", "expect"}

(* The inductive invariant. *)
IInv ==
  /\ TypeOK /\ LockOK /\ CallOK /\ LinksOK /\ OneOwner
  /\ TodoOK /\ MapOK /\ BootOK

-----------------------------------------------------------------------------
(* The lock.                                                               *)

(* Only try_lock and unlock change which cores are inside. *)
LEMMA LockFrame ==
  ASSUME TypeOK, NEW c \in Cores, Step(c) \/ Call(c), ~ try_lock(c), ~ unlock(c)
  PROVE  /\ lock' = lock
         /\ \A d \in Cores : Holds(d)' <=> Holds(d)
<1> USE DEF TypeOK, Holds, InLock, Panics, Goto
<1>1. CASE New(c) \/ NewPanics(c) \/ NextSegment(c) \/ PanicLoop(c)
  BY <1>1 DEF New, NewPanics, NextSegment, PanicLoop, vars
<1>2. CASE free_block(c)
  BY <1>2 DEF free_block, FreeBlockPanics, FreeBlockMerges, FreeBlockInserts, Return
<1>3. CASE alloc_block(c)
  BY <1>3 DEF alloc_block, AllocBlockClimbs, AllocBlockPanics, AllocBlockPops,
              AllocBlockSplits, AllocBlockReturns, Return
<1>4. CASE add_region(c) \/ FreeNext(c) \/ AllocNext(c)
  BY <1>4 DEF add_region, FreeNext, AllocNext
<1>5. CASE Call(c)
  BY <1>5 DEF Call, free_page, free_linear_pages, free_pages, CallFree,
              alloc_page, alloc_linear_pages, alloc_pages, CallAlloc
<1> QED
  BY <1>1, <1>2, <1>3, <1>4, <1>5 DEF Step

(* Every step keeps LockOK. *)
LEMMA LockStep ==
  ASSUME TypeOK, LockOK, NEW c \in Cores, Step(c) \/ Call(c)
  PROVE  LockOK'
<1>1. CASE try_lock(c)
  <2>1. CASE lock
    BY <1>1, <2>1 DEF try_lock, LockOK, Holds
  <2>2. CASE ~ lock
    <3>1. lock' = TRUE /\ \A d \in Cores : Holds(d)' <=> d = c
      BY <1>1, <2>2 DEF try_lock, LockOK, Holds, Goto, InLock, TypeOK
    <3> QED
      BY <3>1 DEF LockOK
  <2> QED
    BY <2>1, <2>2
<1>2. CASE unlock(c)
  <2>1. lock' = FALSE /\ \A d \in Cores : ~ Holds(d)'
    BY <1>2 DEF unlock, LockOK, Holds, Goto, InLock, TypeOK
  <2> QED
    BY <2>1 DEF LockOK
<1>3. CASE ~ try_lock(c) /\ ~ unlock(c)
  BY <1>3, LockFrame DEF LockOK
<1> QED
  BY <1>1, <1>2, <1>3

-----------------------------------------------------------------------------
(* The steps that change the lists.                                        *)

LEMMA OrderNat == Order \subseteq Nat /\ MAX_ORDER \in Order /\ MAX_ORDER \in Nat
BY SMTT(60), MaxOrderAssumption DEF Order

(* Page indexes are naturals. *)
LEMMA PageNat == Page \subseteq Nat
BY SMTT(60), SizeAssumption DEF Page

(* A block contains its first page. *)
LEMMA BlockStarts ==
  ASSUME NEW i \in Nat, NEW o \in Nat
  PROVE  i \in Block(i, o)
<1>1. 2^o \in Nat /\ 2^o >= 1
  BY Pow2Pos
<1> QED
  BY SMTT(60), <1>1 DEF Block

(* All other steps leave the lists alone. *)
LEMMA ListFrame ==
  ASSUME NEW c \in Cores, Step(c) \/ Call(c),
         ~ FreeBlockMerges(c), ~ FreeBlockInserts(c),
         ~ AllocBlockPops(c), ~ AllocBlockSplits(c), ~ AllocBlockReturns(c)
  PROVE  UNCHANGED lists
<1>1. CASE Step(c)
  BY <1>1 DEF Step, New, NewPanics, NextSegment, try_lock, unlock, PanicLoop, free_block,
              FreeBlockPanics, alloc_block, AllocBlockClimbs, AllocBlockPanics,
              add_region, FreeNext, AllocNext, vars
<1>2. CASE Call(c)
  BY <1>2 DEF Call, free_page, free_linear_pages, free_pages, CallFree,
              alloc_page, alloc_linear_pages, alloc_pages, CallAlloc
<1> QED
  BY <1>1, <1>2

(* What the invariant says of the block a core works on. *)
LEMMA WorkingBlock ==
  ASSUME IInv, NEW c \in Cores, Working(c)
  PROVE  /\ index[c] \in Page /\ index[c] \in Nat
         /\ order[c] \in Order /\ order[c] \in Nat
         /\ Aligned(index[c], order[c])
         /\ InFlight(c) = Block(index[c], order[c])
         /\ Block(index[c], order[c]) \subseteq Page \ used
         /\ \A p \in buddy_map : Block(index[c], order[c]) \cap FreeBlock(p) = {}
         /\ \A p \in buddy_map : p \notin Block(index[c], order[c])
<1>1. index[c] \in Page /\ order[c] \in Order /\ Aligned(index[c], order[c])
  BY DEF IInv, TypeOK, CallOK
<1>2. index[c] \in Nat /\ order[c] \in Nat
  BY <1>1, OrderNat, PageNat
<1>3. InFlight(c) = Block(index[c], order[c])
  BY DEF InFlight
<1>4. /\ Block(index[c], order[c]) \subseteq Page \ used
      /\ \A p \in buddy_map : Block(index[c], order[c]) \cap FreeBlock(p) = {}
  BY <1>3 DEF IInv, OneOwner
<1>5. ASSUME NEW p \in buddy_map PROVE p \in FreeBlock(p)
  <2>1. p \in Nat /\ entry_order[p] \in Nat
    BY OrderNat, PageNat DEF IInv, TypeOK, LinksOK
  <2> QED
    BY <2>1, BlockStarts DEF FreeBlock
<1> QED
  BY <1>1, <1>2, <1>3, <1>4, <1>5

(* The upper half that a split puts into a list. *)
LEMMA SplitBlock ==
  ASSUME IInv, NEW c \in Cores, AllocBlockSplits(c)
  PROVE  LET o == order[c] - 1
             b == get_buddy_index(index[c], o)
         IN  /\ o \in Order /\ o \in Nat /\ o + 1 = order[c]
             /\ b \in Page /\ b \in Nat /\ b \notin buddy_map
             /\ Aligned(index[c], o) /\ Aligned(b, o)
             /\ Block(index[c], o) \cap Block(b, o) = {}
             /\ Block(index[c], order[c]) = Block(index[c], o) \cup Block(b, o)
<1> DEFINE o == order[c] - 1
           b == get_buddy_index(index[c], o)
<1>1. Working(c)
  BY DEF AllocBlockSplits, Working
<1>2. goal[c] \in Nat
  BY SMTT(60), MaxOrderAssumption DEF IInv, TypeOK, NoOrder
<1>3. o \in Order /\ o \in Nat /\ o + 1 = order[c]
  <2>1. order[c] \in Order /\ order[c] > goal[c]
    BY <1>1, WorkingBlock DEF AllocBlockSplits
  <2> QED
    BY SMTT(60), <1>2, <2>1, MaxOrderAssumption DEF Order
<1>4. /\ b = index[c] + 2^o
      /\ Aligned(index[c], o) /\ Aligned(b, o)
      /\ Block(index[c], o) \cap Block(b, o) = {}
      /\ Block(index[c], o + 1) = Block(index[c], o) \cup Block(b, o)
  BY SMTT(60), <1>1, <1>3, WorkingBlock, SplitIsExact
<1>5. b \in Nat
  BY SMTT(60), <1>1, <1>3, <1>4, WorkingBlock, Pow2Nat
<1>6. b \in Block(index[c], order[c])
  BY <1>3, <1>4, <1>5, BlockStarts
<1>7. b \in Page /\ b \notin buddy_map
  BY <1>1, <1>6, WorkingBlock
<1> QED
  BY <1>3, <1>4, <1>5, <1>7

(* Every step keeps the lists consistent. *)
LEMMA ListStep ==
  ASSUME IInv, NEW c \in Cores, Step(c) \/ Call(c)
  PROVE  ListTypes' /\ LinksOK'
<1>1. ListTypes /\ LinksOK
  BY DEF IInv, TypeOK, ListTypes
<1>2. CASE FreeBlockMerges(c)
  <2>1. BuddyOf(c) \in buddy_map /\ entry_order[BuddyOf(c)] = order[c]
    BY <1>2 DEF FreeBlockMerges, CanMerge
  <2>2. order[c] \in Order
    BY <1>2, WorkingBlock DEF FreeBlockMerges, Working
  <2> QED
    BY <1>1, <1>2, <2>1, <2>2, RemoveKeepsLinks DEF FreeBlockMerges
<1>3. CASE FreeBlockInserts(c)
  <2>1. Working(c)
    BY <1>3 DEF FreeBlockInserts, Working
  <2>2. index[c] \in Page /\ order[c] \in Order /\ index[c] \notin buddy_map
    BY <2>1, WorkingBlock, BlockStarts
  <2> QED
    BY <1>1, <1>3, <2>2, PushKeepsLinks DEF FreeBlockInserts
<1>4. CASE AllocBlockPops(c)
  BY <1>1, <1>4, PopKeepsLinks DEF AllocBlockPops
<1>5. CASE AllocBlockSplits(c)
  BY <1>1, <1>5, SplitBlock, PushKeepsLinks DEF AllocBlockSplits
<1>6. CASE AllocBlockReturns(c)
  <2>1. Working(c) /\ order[c] = goal[c]
    BY <1>6 DEF AllocBlockReturns, Working
  <2>2. \A p \in buddy_map : p \notin Block(index[c], goal[c])
    BY <2>1, WorkingBlock
  <2>3. /\ UNCHANGED <<free_lists, buddy_map>>
        /\ \A p \in buddy_map : /\ entry_order'[p] = entry_order[p]
                                /\ next'[p] = next[p]
                                /\ prev'[p] = prev[p]
    BY <1>1, <1>6, <2>2 DEF AllocBlockReturns, ListTypes
  <2>4. ListTypes'
    BY <1>1, <1>6 DEF AllocBlockReturns, ListTypes
  <2>5. LinksOK'
    BY SMTT(60), <1>1, <2>3, Pointers DEF LinksOK, ListTypes, Ptr
  <2> QED
    BY <2>4, <2>5
<1>7. CASE UNCHANGED lists
  BY <1>1, <1>7 DEF lists, ListTypes, LinksOK
<1> QED
  BY <1>2, <1>3, <1>4, <1>5, <1>6, <1>7, ListFrame

-----------------------------------------------------------------------------
(* The owners of the pages.                                                *)

(* The steps that neither change the lists nor the pages in use nor the    *)
(* block that is worked on.                                                *)
LEMMA OwnerFrame ==
  ASSUME TypeOK, CallOK, NEW c \in Cores, Step(c) \/ Call(c),
         ~ FreeBlockMerges(c), ~ FreeBlockInserts(c),
         ~ AllocBlockPops(c), ~ AllocBlockSplits(c), ~ AllocBlockReturns(c),
         ~ New(c), ~ add_region(c), ~ FreeNext(c)
  PROVE  /\ UNCHANGED <<lists, used>>
         /\ \A d \in Cores : Working(d)' <=> Working(d)
         /\ \A d \in Cores : Working(d) => UNCHANGED <<index[d], order[d]>>
<1> USE DEF TypeOK, Working, Goto, call
<1>1. CASE NewPanics(c) \/ NextSegment(c) \/ PanicLoop(c)
  BY <1>1 DEF NewPanics, NextSegment, PanicLoop, vars
<1>2. CASE try_lock(c) \/ unlock(c)
  BY <1>2 DEF try_lock, unlock
<1>3. CASE FreeBlockPanics(c)
  BY <1>3 DEF FreeBlockPanics, CallOK
<1>4. CASE AllocBlockClimbs(c) \/ AllocBlockPanics(c)
  BY <1>4 DEF AllocBlockClimbs, AllocBlockPanics, CallOK
<1>5. CASE AllocNext(c)
  BY <1>5 DEF AllocNext
<1>6. CASE Call(c)
  BY <1>6 DEF Call, free_page, free_linear_pages, free_pages, CallFree,
              alloc_page, alloc_linear_pages, alloc_pages, CallAlloc
<1> QED
  BY <1>1, <1>2, <1>3, <1>4, <1>5, <1>6 DEF Step, free_block, alloc_block

(* Nobody else works on a block while a core is inside the manager. *)
LEMMA OnlyWorker ==
  ASSUME IInv, NEW c \in Cores, Holds(c), NEW d \in Cores, d # c
  PROVE  ~ Working(d)
BY DEF IInv, LockOK, Holds, Working, InLock

(* What OneOwner says of a free block, without its definitions. *)
LEMMA FreeBlockFacts ==
  ASSUME IInv, NEW p \in buddy_map
  PROVE  /\ p \in Page /\ p \in Nat
         /\ entry_order[p] \in Order /\ entry_order[p] \in Nat
         /\ Aligned(p, entry_order[p])
         /\ p \in FreeBlock(p)
         /\ FreeBlock(p) \subseteq Page \ used
<1>1. p \in Page /\ entry_order[p] \in Order
  BY DEF IInv, TypeOK, LinksOK
<1>2. p \in Nat /\ entry_order[p] \in Nat
  BY <1>1, OrderNat, PageNat
<1>3. p \in FreeBlock(p)
  BY <1>2, BlockStarts DEF FreeBlock
<1> QED
  BY <1>1, <1>2, <1>3 DEF IInv, OneOwner

(* It is enough to look at the block of the core that takes the step. *)
LEMMA OwnerFromStep ==
  ASSUME NEW c \in Cores,
         \A d \in Cores : d # c => ~ Working(d)',
         \A p \in buddy_map' :
           /\ Aligned(p, entry_order'[p])
           /\ Block(p, entry_order'[p]) \subseteq Page \ used'
           /\ \A q \in buddy_map' :
                p # q => Block(p, entry_order'[p]) \cap Block(q, entry_order'[q]) = {},
         Working(c)' =>
           /\ Block(index'[c], order'[c]) \subseteq Page \ used'
           /\ \A p \in buddy_map' :
                Block(index'[c], order'[c]) \cap Block(p, entry_order'[p]) = {}
  PROVE  OneOwner'
<1>1. \A p \in buddy_map' : FreeBlock(p)' = Block(p, entry_order'[p])
  BY DEF FreeBlock
<1>2. \A d \in Cores : InFlight(d)' = IF Working(d)' THEN Block(index'[d], order'[d]) ELSE {}
  BY DEF InFlight
<1>3. ASSUME NEW d \in Cores
      PROVE  /\ InFlight(d)' \subseteq Page \ used'
             /\ \A p \in buddy_map' : InFlight(d)' \cap FreeBlock(p)' = {}
  BY <1>1, <1>2
<1> QED
  BY <1>1, <1>3 DEF OneOwner

(* free_block takes the buddy from its list into the block it works on. *)
LEMMA OwnerMerges ==
  ASSUME IInv, NEW c \in Cores, FreeBlockMerges(c)
  PROVE  OneOwner' /\ CallOK'
<1> DEFINE i == index[c]
           o == order[c]
           b == BuddyOf(c)
           j == get_combined_index(i, o)
<1>1. Working(c) /\ Holds(c) /\ pc[c] = "free_block"
  BY DEF FreeBlockMerges, Working, Holds, InLock
<1>2. /\ b \in buddy_map /\ entry_order[b] = o /\ o < MAX_ORDER
      /\ buddy_map' = buddy_map \ {b} /\ UNCHANGED <<entry_order, used, pc, op, goal>>
      /\ index' = [index EXCEPT ![c] = j]
      /\ order' = [order EXCEPT ![c] = o + 1]
  BY DEF FreeBlockMerges, CanMerge, remove_buddy_list_entry, call
<1>3. index'[c] = j /\ order'[c] = o + 1
      /\ \A d \in Cores : d # c => index'[d] = index[d] /\ order'[d] = order[d]
  BY <1>2 DEF IInv, TypeOK
<1>4. \A d \in Cores : Working(d)' <=> Working(d)
  BY <1>2 DEF Working
<1>5. /\ Aligned(j, o + 1)
      /\ Block(j, o + 1) = Block(i, o) \cup Block(b, o)
  BY <1>1, WorkingBlock, MergeIsExact DEF BuddyOf
<1>6. FreeBlock(b) = Block(b, o)
  BY <1>2 DEF FreeBlock
<1>7. o + 1 \in Order
  BY SMTT(60), <1>1, <1>2, WorkingBlock, MaxOrderAssumption DEF Order
<1>8. \A p \in buddy_map' : FreeBlock(p) = Block(p, entry_order'[p])
  BY <1>2 DEF FreeBlock
<1>9. OneOwner'
  <2>1. \A d \in Cores : d # c => ~ Working(d)'
    BY <1>1, <1>4, OnlyWorker
  <2>2. ASSUME NEW p \in buddy_map'
        PROVE  /\ Aligned(p, entry_order'[p])
               /\ Block(p, entry_order'[p]) \subseteq Page \ used'
               /\ \A q \in buddy_map' :
                    p # q => Block(p, entry_order'[p]) \cap Block(q, entry_order'[q]) = {}
    BY <1>2, <1>8 DEF IInv, OneOwner
  <2>3. Block(j, o + 1) \subseteq Page \ used
    BY <1>1, <1>2, <1>5, <1>6, WorkingBlock DEF IInv, OneOwner
  <2>4. \A p \in buddy_map' : Block(j, o + 1) \cap Block(p, entry_order'[p]) = {}
    BY SMTT(60), <1>1, <1>2, <1>5, <1>6, <1>8, WorkingBlock DEF IInv, OneOwner
  <2> HIDE DEF i, o, b, j
  <2> QED
    BY SMTT(60), <1>2, <1>3, <2>1, <2>2, <2>3, <2>4, OwnerFromStep
<1>10. CallOK'
  BY <1>1, <1>2, <1>3, <1>4, <1>5, <1>7 DEF IInv, CallOK
<1> QED
  BY <1>9, <1>10

(* free_block hands the block to its list. *)
LEMMA OwnerInserts ==
  ASSUME IInv, NEW c \in Cores, FreeBlockInserts(c)
  PROVE  OneOwner' /\ CallOK'
<1> DEFINE i == index[c]
           o == order[c]
<1>1. Working(c) /\ Holds(c)
  BY DEF FreeBlockInserts, Working, Holds, InLock
<1>2. /\ buddy_map' = buddy_map \cup {i}
      /\ entry_order' = [entry_order EXCEPT ![i] = o]
      /\ pc' = [pc EXCEPT ![c] = "loop"]
      /\ index' = [index EXCEPT ![c] = 0]
      /\ order' = [order EXCEPT ![c] = 0]
      /\ UNCHANGED <<used, op, goal>>
  BY DEF FreeBlockInserts, push_buddy_list_entry, Return, Goto, call
<1>3. i \in Page /\ i \notin buddy_map
  BY <1>1, WorkingBlock, BlockStarts
<1>4. entry_order'[i] = o /\ \A p \in buddy_map : entry_order'[p] = entry_order[p]
  BY <1>2, <1>3 DEF IInv, TypeOK
<1>5. /\ ~ Working(c)'
      /\ \A d \in Cores : d # c => /\ Working(d)' <=> Working(d)
                                   /\ UNCHANGED <<pc[d], index[d], order[d]>>
  BY <1>2 DEF IInv, TypeOK, Working
<1>6. \A d \in Cores : ~ Working(d)'
  BY <1>1, <1>5, OnlyWorker
<1>7. \A p \in buddy_map : FreeBlock(p) = Block(p, entry_order'[p])
  BY <1>4 DEF FreeBlock
<1>8. ASSUME NEW p \in buddy_map'
      PROVE  /\ Aligned(p, entry_order'[p])
             /\ Block(p, entry_order'[p]) \subseteq Page \ used'
             /\ \A q \in buddy_map' :
                  p # q => Block(p, entry_order'[p]) \cap Block(q, entry_order'[q]) = {}
  <2>1. CASE p = i
    BY <1>1, <1>2, <1>4, <1>7, <2>1, WorkingBlock
  <2>2. CASE p \in buddy_map
    <3>1. /\ Aligned(p, entry_order'[p])
          /\ Block(p, entry_order'[p]) \subseteq Page \ used'
          /\ \A q \in buddy_map :
               p # q => Block(p, entry_order'[p]) \cap Block(q, entry_order'[q]) = {}
      BY <1>2, <1>4, <1>7, <2>2 DEF IInv, OneOwner
    <3>2. Block(p, entry_order'[p]) \cap Block(i, entry_order'[i]) = {}
      BY SMTT(60), <1>1, <1>4, <1>7, <2>2, WorkingBlock
    <3> QED
      BY <1>2, <3>1, <3>2
  <2> QED
    BY <1>2, <2>1, <2>2
<1>9. OneOwner'
  BY <1>6, <1>8, OwnerFromStep
<1>10. CallOK'
  BY <1>2, <1>5, <1>6 DEF IInv, TypeOK, CallOK
<1> QED
  BY <1>9, <1>10

(* alloc_block takes a block from a list. *)
LEMMA OwnerPops ==
  ASSUME IInv, NEW c \in Cores, AllocBlockPops(c)
  PROVE  OneOwner' /\ CallOK'
<1> DEFINE h == free_lists[order[c]]
<1>1. Holds(c) /\ pc[c] = "alloc_block" /\ order[c] \in Order
  BY DEF AllocBlockPops, Holds, InLock
<1>2. /\ buddy_map' = buddy_map \ {h}
      /\ pc' = [pc EXCEPT ![c] = "split"]
      /\ index' = [index EXCEPT ![c] = h]
      /\ UNCHANGED <<entry_order, used, op, goal, order>>
  BY DEF AllocBlockPops, pop_buddy_list_entry, Goto, call
<1>3. h \in buddy_map /\ entry_order[h] = order[c]
  BY <1>1 DEF AllocBlockPops, IInv, LinksOK
<1>4. /\ pc'[c] = "split" /\ index'[c] = h /\ order'[c] = order[c]
      /\ \A d \in Cores : d # c => /\ Working(d)' <=> Working(d)
                                   /\ UNCHANGED <<pc[d], index[d], order[d]>>
  BY <1>2 DEF IInv, TypeOK, Working
<1>5. \A d \in Cores : d # c => ~ Working(d)'
  BY <1>1, <1>4, OnlyWorker
<1>6. /\ \A p \in buddy_map : FreeBlock(p) = Block(p, entry_order'[p])
      /\ FreeBlock(h) = Block(index'[c], order'[c])
  BY <1>2, <1>3, <1>4 DEF FreeBlock
<1>7. ASSUME NEW p \in buddy_map'
      PROVE  /\ Aligned(p, entry_order'[p])
             /\ Block(p, entry_order'[p]) \subseteq Page \ used'
             /\ \A q \in buddy_map' :
                  p # q => Block(p, entry_order'[p]) \cap Block(q, entry_order'[q]) = {}
  BY <1>2, <1>6 DEF IInv, OneOwner
<1>8. /\ Block(index'[c], order'[c]) \subseteq Page \ used'
      /\ \A p \in buddy_map' : Block(index'[c], order'[c]) \cap Block(p, entry_order'[p]) = {}
  BY <1>2, <1>3, <1>6 DEF IInv, OneOwner
<1>9. OneOwner'
  BY <1>5, <1>7, <1>8, OwnerFromStep
<1>10. Aligned(h, order[c])
  BY <1>3 DEF IInv, OneOwner
<1>11. CallOK'
  BY <1>1, <1>2, <1>4, <1>5, <1>10 DEF IInv, CallOK
<1> QED
  BY <1>9, <1>11

(* alloc_block lists the upper half of its block. *)
LEMMA OwnerSplits ==
  ASSUME IInv, NEW c \in Cores, AllocBlockSplits(c)
  PROVE  OneOwner' /\ CallOK'
<1> DEFINE i == index[c]
           o == order[c] - 1
           b == get_buddy_index(i, o)
<1>1. Working(c) /\ Holds(c) /\ pc[c] = "split" /\ order[c] > goal[c]
  BY DEF AllocBlockSplits, Working, Holds, InLock
<1>2. /\ buddy_map' = buddy_map \cup {b}
      /\ entry_order' = [entry_order EXCEPT ![b] = o]
      /\ order' = [order EXCEPT ![c] = o]
      /\ UNCHANGED <<used, pc, op, goal, index>>
  BY DEF AllocBlockSplits, push_buddy_list_entry, call
<1>3. /\ o \in Order /\ o \in Nat /\ o + 1 = order[c]
      /\ b \in Page /\ b \notin buddy_map
      /\ Aligned(i, o) /\ Aligned(b, o)
      /\ Block(i, o) \cap Block(b, o) = {}
      /\ Block(i, order[c]) = Block(i, o) \cup Block(b, o)
  BY SplitBlock
<1>4. entry_order'[b] = o /\ \A p \in buddy_map : entry_order'[p] = entry_order[p]
  BY <1>2, <1>3 DEF IInv, TypeOK
<1>5. /\ order'[c] = o /\ index'[c] = i
      /\ \A d \in Cores : Working(d)' <=> Working(d)
      /\ \A d \in Cores : d # c => order'[d] = order[d]
  BY <1>2 DEF IInv, TypeOK, Working
<1>6. \A d \in Cores : d # c => ~ Working(d)'
  BY <1>1, <1>5, OnlyWorker
<1>7. \A p \in buddy_map : FreeBlock(p) = Block(p, entry_order'[p])
  BY <1>4 DEF FreeBlock
<1>8. ASSUME NEW p \in buddy_map
      PROVE  /\ Aligned(p, entry_order'[p])
             /\ Block(p, entry_order'[p]) \subseteq Page \ used'
             /\ Block(i, o) \cap Block(p, entry_order'[p]) = {}
             /\ Block(b, o) \cap Block(p, entry_order'[p]) = {}
             /\ \A q \in buddy_map :
                  p # q => Block(p, entry_order'[p]) \cap Block(q, entry_order'[q]) = {}
  <2>1. Block(i, order[c]) \cap Block(p, entry_order'[p]) = {}
    BY <1>1, <1>7, WorkingBlock
  <2>2. /\ Aligned(p, entry_order'[p])
        /\ Block(p, entry_order'[p]) \subseteq Page \ used'
        /\ \A q \in buddy_map :
             p # q => Block(p, entry_order'[p]) \cap Block(q, entry_order'[q]) = {}
    BY <1>2, <1>4, <1>7 DEF IInv, OneOwner
  <2> QED
    BY <1>3, <2>1, <2>2
<1>9. Block(i, o) \subseteq Page \ used' /\ Block(b, o) \subseteq Page \ used'
  BY <1>1, <1>2, <1>3, WorkingBlock
<1>10. OneOwner'
  <2> HIDE DEF i, o, b
  <2>1. ASSUME NEW p \in buddy_map'
        PROVE  /\ Aligned(p, entry_order'[p])
               /\ Block(p, entry_order'[p]) \subseteq Page \ used'
               /\ \A q \in buddy_map' :
                    p # q => Block(p, entry_order'[p]) \cap Block(q, entry_order'[q]) = {}
    BY <1>2, <1>3, <1>4, <1>8, <1>9
  <2>2. /\ Block(index'[c], order'[c]) \subseteq Page \ used'
        /\ \A p \in buddy_map' :
             Block(index'[c], order'[c]) \cap Block(p, entry_order'[p]) = {}
    BY <1>2, <1>3, <1>4, <1>5, <1>8, <1>9
  <2> QED
    BY <1>6, <2>1, <2>2, OwnerFromStep
<1>11. o >= goal[c]
  BY SMTT(60), <1>1, <1>3, MaxOrderAssumption DEF IInv, TypeOK, NoOrder
<1>12. CallOK'
  BY <1>1, <1>2, <1>3, <1>5, <1>6, <1>11 DEF IInv, CallOK
<1> QED
  BY <1>10, <1>12

(* alloc_block hands its block to the caller. *)
LEMMA OwnerReturns ==
  ASSUME IInv, NEW c \in Cores, AllocBlockReturns(c)
  PROVE  OneOwner' /\ CallOK'
<1> DEFINE block == Block(index[c], order[c])
<1>1. Working(c) /\ Holds(c)
  BY DEF AllocBlockReturns, Working, Holds, InLock
<1>2. /\ used' = used \cup block
      /\ entry_order' = [p \in Page |-> IF p \in block THEN DIRTY ELSE entry_order[p]]
      /\ pc' = [pc EXCEPT ![c] = "loop"]
      /\ index' = [index EXCEPT ![c] = 0]
      /\ order' = [order EXCEPT ![c] = 0]
      /\ UNCHANGED <<buddy_map, op, goal>>
  BY DEF AllocBlockReturns, Return, Goto, call
<1>3. \A p \in buddy_map : entry_order'[p] = entry_order[p]
  BY <1>1, <1>2, WorkingBlock DEF IInv, TypeOK
<1>4. /\ ~ Working(c)'
      /\ \A d \in Cores : d # c => /\ Working(d)' <=> Working(d)
                                   /\ UNCHANGED <<pc[d], index[d], order[d]>>
  BY <1>2 DEF IInv, TypeOK, Working
<1>5. \A d \in Cores : ~ Working(d)'
  BY <1>1, <1>4, OnlyWorker
<1>6. \A p \in buddy_map : FreeBlock(p) = Block(p, entry_order'[p])
  BY <1>3 DEF FreeBlock
<1>7. \A p \in buddy_map : block \cap FreeBlock(p) = {}
  BY <1>1, WorkingBlock
<1>8. ASSUME NEW p \in buddy_map'
      PROVE  /\ Aligned(p, entry_order'[p])
             /\ Block(p, entry_order'[p]) \subseteq Page \ used'
             /\ \A q \in buddy_map' :
                  p # q => Block(p, entry_order'[p]) \cap Block(q, entry_order'[q]) = {}
  <2> HIDE DEF block
  <2> QED
    BY SMTT(60), <1>2, <1>3, <1>6, <1>7 DEF IInv, OneOwner
<1>9. OneOwner'
  BY <1>5, <1>8, OwnerFromStep
<1>10. CallOK'
  BY <1>2, <1>4, <1>5 DEF IInv, TypeOK, CallOK
<1> QED
  BY <1>9, <1>10

(* A core that starts to free a block nobody else claims. *)
LEMMA OwnerStartsFree ==
  ASSUME IInv, NEW c \in Cores, NEW i \in Nat, NEW o \in Order,
         pc[c] = "loop", op[c] # "alloc",
         Aligned(i, o), Block(i, o) \subseteq used,
         used' = used \ Block(i, o),
         pc' = [pc EXCEPT ![c] = "free_block"],
         index' = [index EXCEPT ![c] = i],
         order' = [order EXCEPT ![c] = o],
         UNCHANGED <<buddy_map, entry_order, op, goal>>
  PROVE  OneOwner' /\ CallOK'
<1>1. Holds(c)
  BY DEF Holds, InLock
<1>2. /\ pc'[c] = "free_block" /\ index'[c] = i /\ order'[c] = o
      /\ \A d \in Cores : d # c => /\ Working(d)' <=> Working(d)
                                   /\ UNCHANGED <<pc[d], index[d], order[d]>>
  BY DEF IInv, TypeOK, Working
<1>3. \A d \in Cores : d # c => ~ Working(d)'
  BY <1>1, <1>2, OnlyWorker
<1>4. \A p \in buddy_map : FreeBlock(p) = Block(p, entry_order'[p])
  BY DEF FreeBlock
<1>5. ASSUME NEW p \in buddy_map'
      PROVE  /\ Aligned(p, entry_order'[p])
             /\ Block(p, entry_order'[p]) \subseteq Page \ used'
             /\ \A q \in buddy_map' :
                  p # q => Block(p, entry_order'[p]) \cap Block(q, entry_order'[q]) = {}
  BY <1>4 DEF IInv, OneOwner
<1>6. Block(i, o) \subseteq Page \ used'
  BY DEF IInv, TypeOK
<1>7. \A p \in buddy_map' : Block(i, o) \cap Block(p, entry_order'[p]) = {}
  BY <1>4 DEF IInv, OneOwner
<1>8. OneOwner'
  BY SMTT(60), <1>2, <1>3, <1>5, <1>6, <1>7, OwnerFromStep
<1>9. CallOK'
  BY SMTT(60), <1>2, <1>3 DEF IInv, CallOK
<1> QED
  BY <1>8, <1>9

(* add_region takes its blocks from the front of the region. *)
LEMMA RegionBlock ==
  ASSUME IInv, NEW c \in Cores, add_region(c), region.page_count > 0
  PROVE  LET i == region.index
             o == region_order(i, region.page_count)
         IN  /\ i \in Nat /\ o \in Order /\ o \in Nat /\ Aligned(i, o)
             /\ 2^o \in Nat /\ 2^o >= 1 /\ 2^o <= region.page_count
             /\ Block(i, o) \subseteq RegionPages
             /\ RegionPages \subseteq used
<1> DEFINE i == region.index
           n == region.page_count
           o == region_order(i, n)
<1>1. i \in Nat /\ n \in Nat /\ n >= 1
  BY SMTT(60), SizeAssumption DEF IInv, TypeOK
<1>2. o \in Order /\ Aligned(i, o) /\ 2^o <= n
  BY <1>1, RegionOrderFits
<1>3. o \in Nat /\ 2^o \in Nat /\ 2^o >= 1
  BY <1>2, OrderNat, Pow2Pos
<1>4. Block(i, o) \subseteq RegionPages
  <2> HIDE DEF o
  <2> QED
    BY SMTT(60), <1>1, <1>2, <1>3 DEF Block, RegionPages
<1>5. pc[c] = "loop" /\ op[c] = "add_region"
  BY DEF add_region
<1>6. RegionPages \subseteq used
  BY <1>5 DEF IInv, BootOK, AddOK
<1> QED
  BY <1>1, <1>2, <1>3, <1>4, <1>6

(* The steps that keep the owners as they are. *)
LEMMA OwnerKept ==
  ASSUME IInv, UNCHANGED <<buddy_map, entry_order, used>>,
         \A d \in Cores : Working(d)' => Working(d) /\ UNCHANGED <<index[d], order[d]>>
  PROVE  OneOwner'
<1>1. \A p \in buddy_map : FreeBlock(p)' = FreeBlock(p)
  BY DEF FreeBlock
<1>2. \A d \in Cores : InFlight(d)' = InFlight(d) \/ InFlight(d)' = {}
  BY DEF InFlight
<1> QED
  BY <1>1, <1>2 DEF IInv, OneOwner

(* new() finds an empty manager and nobody else running. *)
LEMMA NewAlone ==
  ASSUME IInv, NEW c \in Cores, pc[c] = "new"
  PROVE  /\ ~ instance /\ buddy_map = {} /\ region.page_count = 0 /\ seg = 1
         /\ \A d \in Cores : ~ Working(d)
         /\ \A d \in Cores : d # c => pc[d] = "idle"
         /\ \A d \in Cores : todo[d] = {}
BY DEF IInv, BootOK, Working

(* The other steps inside a call keep its block. *)
LEMMA CallKept ==
  ASSUME IInv, NEW c \in Cores, Step(c) \/ Call(c),
         ~ FreeBlockMerges(c), ~ FreeBlockInserts(c),
         ~ AllocBlockPops(c), ~ AllocBlockSplits(c), ~ AllocBlockReturns(c),
         ~ (add_region(c) /\ region.page_count > 0),
         ~ (FreeNext(c) /\ todo[c] # {})
  PROVE  CallOK'
<1> USE DEF IInv, TypeOK, Working, Goto, call, CallOK
<1>1. CASE New(c) \/ NewPanics(c) \/ NextSegment(c)
  BY <1>1 DEF New, NewPanics, NextSegment
<1>2. CASE PanicLoop(c)
  BY <1>2 DEF PanicLoop, vars
<1>3. CASE try_lock(c) \/ unlock(c)
  BY <1>3 DEF try_lock, unlock
<1>4. CASE FreeBlockPanics(c)
  BY <1>4 DEF FreeBlockPanics
<1>5. CASE AllocBlockClimbs(c)
  <2>1. order[c] \in Nat /\ goal[c] \in Nat /\ order[c] >= goal[c]
    BY SMTT(60), <1>5, MaxOrderAssumption DEF AllocBlockClimbs, NoOrder
  <2>2. order'[c] = order[c] \/ order'[c] = order[c] + 1
    BY <1>5 DEF AllocBlockClimbs
  <2>3. order'[c] >= goal[c]
    BY SMTT(60), <2>1, <2>2
  <2> QED
    BY <1>5, <2>3 DEF AllocBlockClimbs
<1>6. CASE AllocBlockPanics(c)
  BY <1>6 DEF AllocBlockPanics
<1>7. CASE add_region(c)
  BY <1>7 DEF add_region
<1>8. CASE FreeNext(c)
  BY <1>8 DEF FreeNext
<1>9. CASE AllocNext(c)
  <2>1. goal[c] >= goal[c]
    BY SMTT(60), MaxOrderAssumption DEF NoOrder
  <2> QED
    BY <1>9, <2>1 DEF AllocNext
<1>10. CASE Call(c)
  BY <1>10 DEF Call, free_page, free_linear_pages, free_pages, CallFree,
              alloc_page, alloc_linear_pages, alloc_pages, CallAlloc
<1> QED
  BY <1>1, <1>2, <1>3, <1>4, <1>5, <1>6, <1>7, <1>8, <1>9, <1>10
     DEF Step, free_block, alloc_block

(* Every step keeps one owner for each page. *)
LEMMA OwnerStep ==
  ASSUME IInv, NEW c \in Cores, Step(c) \/ Call(c)
  PROVE  OneOwner' /\ CallOK'
<1>1. CASE \/ FreeBlockMerges(c) \/ FreeBlockInserts(c) \/ AllocBlockPops(c)
           \/ AllocBlockSplits(c) \/ AllocBlockReturns(c)
  BY <1>1, OwnerMerges, OwnerInserts, OwnerPops, OwnerSplits, OwnerReturns
<1>2. CASE add_region(c) /\ region.page_count > 0
  <2> DEFINE i == region.index
             o == region_order(i, region.page_count)
  <2>1. i \in Nat /\ o \in Order /\ Aligned(i, o) /\ Block(i, o) \subseteq used
    BY <1>2, RegionBlock
  <2>2. /\ pc[c] = "loop" /\ op[c] = "add_region"
        /\ used' = used \ Block(i, o)
        /\ pc' = [pc EXCEPT ![c] = "free_block"]
        /\ index' = [index EXCEPT ![c] = i]
        /\ order' = [order EXCEPT ![c] = o]
        /\ UNCHANGED <<buddy_map, entry_order, op, goal>>
    BY <1>2 DEF add_region, Goto, call, lists
  <2> HIDE DEF i, o
  <2> QED
    BY <2>1, <2>2, OwnerStartsFree
<1>3. CASE FreeNext(c) /\ todo[c] # {}
  <2>1. PICK b \in todo[c] :
          /\ used' = used \ Block(b[1], b[2])
          /\ pc' = [pc EXCEPT ![c] = "free_block"]
          /\ index' = [index EXCEPT ![c] = b[1]]
          /\ order' = [order EXCEPT ![c] = b[2]]
    BY <1>3 DEF FreeNext, Goto
  <2>2. /\ pc[c] = "loop" /\ op[c] = "free"
        /\ UNCHANGED <<buddy_map, entry_order, op, goal>>
    BY <1>3 DEF FreeNext, lists
  <2>3. b[1] \in Page /\ b[2] \in Order
    BY SMTT(60) DEF IInv, TypeOK
  <2>4. Aligned(b[1], b[2]) /\ Block(b[1], b[2]) \subseteq used
    BY DEF IInv, TodoOK
  <2>5. b[1] \in Nat
    BY <2>3, PageNat
  <2> QED
    BY <2>1, <2>2, <2>3, <2>4, <2>5, OwnerStartsFree
<1>4. CASE New(c)
  <2>1. buddy_map = {} /\ (\A d \in Cores : ~ Working(d))
    BY <1>4, NewAlone DEF New
  <2>2. buddy_map' = {} /\ (\A d \in Cores : ~ Working(d)')
    BY <1>4, <2>1 DEF New, Working, Goto, IInv, TypeOK, lists, call
  <2>3. OneOwner'
    BY <2>2 DEF OneOwner, InFlight
  <2> QED
    BY <1>4, <2>3, CallKept
       DEF New, FreeBlockMerges, FreeBlockInserts, AllocBlockPops, AllocBlockSplits,
           AllocBlockReturns, add_region, FreeNext
<1>5. CASE add_region(c) /\ ~ region.page_count > 0
  <2>1. OneOwner'
    BY <1>5, OwnerKept DEF add_region, Goto, Working, lists, call, IInv, TypeOK
  <2> QED
    BY <1>5, <2>1, CallKept
       DEF FreeBlockMerges, FreeBlockInserts, AllocBlockPops, AllocBlockSplits,
           AllocBlockReturns, add_region, FreeNext
<1>6. CASE FreeNext(c) /\ todo[c] = {}
  <2>1. OneOwner'
    BY <1>6, OwnerKept DEF FreeNext, Goto, Working, lists, call, IInv, TypeOK
  <2> QED
    BY <1>6, <2>1, CallKept
       DEF FreeBlockMerges, FreeBlockInserts, AllocBlockPops, AllocBlockSplits,
           AllocBlockReturns, add_region, FreeNext
<1>7. CASE /\ ~ FreeBlockMerges(c) /\ ~ FreeBlockInserts(c) /\ ~ AllocBlockPops(c)
           /\ ~ AllocBlockSplits(c) /\ ~ AllocBlockReturns(c)
           /\ ~ New(c) /\ ~ add_region(c) /\ ~ FreeNext(c)
  <2>1. /\ UNCHANGED <<lists, used>>
        /\ \A d \in Cores : Working(d)' <=> Working(d)
        /\ \A d \in Cores : Working(d) => UNCHANGED <<index[d], order[d]>>
    BY <1>7, OwnerFrame DEF IInv
  <2>2. OneOwner'
    BY <2>1, OwnerKept DEF lists
  <2> QED
    BY <1>7, <2>2, CallKept
<1> QED
  BY <1>1, <1>2, <1>3, <1>4, <1>5, <1>6, <1>7

-----------------------------------------------------------------------------
(* The blocks that running calls still have to free.                       *)

LEMMA CallFreeClaims ==
  ASSUME IInv, NEW c \in Cores, NEW blocks, CallFree(c, blocks),
         \A a, b \in blocks : a # b => Block(a[1], a[2]) \cap Block(b[1], b[2]) = {}
  PROVE  TodoOK'
<1>1. /\ todo'[c] = blocks
      /\ \A d \in Cores : d # c => todo'[d] = todo[d]
      /\ used' = used
  BY DEF CallFree, IInv, TypeOK
<1>2. \A b \in blocks : /\ Aligned(b[1], b[2])
                        /\ Block(b[1], b[2]) \subseteq used
                        /\ Block(b[1], b[2]) \cap Claimed = {}
  BY DEF CallFree, MayFree
<1>3. \A d \in Cores : \A a \in todo[d] : Block(a[1], a[2]) \subseteq Claimed
  BY SMTT(60) DEF Claimed
<1>4. ASSUME NEW d \in Cores, NEW b \in todo'[d]
      PROVE  Aligned(b[1], b[2]) /\ Block(b[1], b[2]) \subseteq used'
  BY <1>1, <1>2 DEF IInv, TodoOK
<1>5. ASSUME NEW d \in Cores, NEW e \in Cores, NEW a \in todo'[d], NEW b \in todo'[e],
             d # e \/ a # b
      PROVE  Block(a[1], a[2]) \cap Block(b[1], b[2]) = {}
  <2>1. CASE d = c /\ e = c
    BY <1>1, <1>5, <2>1
  <2>2. CASE d = c /\ e # c
    BY <1>1, <1>2, <1>3, <2>2
  <2>3. CASE d # c /\ e = c
    BY <1>1, <1>2, <1>3, <2>3
  <2>4. CASE d # c /\ e # c
    BY <1>1, <1>5, <2>4 DEF IInv, TodoOK
  <2> QED
    BY <2>1, <2>2, <2>3, <2>4
<1> QED
  BY <1>4, <1>5 DEF TodoOK

(* A block of order 0 is a page. *)
LEMMA OnePageBlock == \A p \in Nat : Block(p, 0) = {p}
<1>1. 2^0 = 1
  BY SMTT(60)
<1> QED
  BY SMTT(60), <1>1 DEF Block

(* Every step keeps TodoOK. *)
LEMMA TodoStep ==
  ASSUME IInv, NEW c \in Cores, Step(c) \/ Call(c)
  PROVE  TodoOK'
<1>1. CASE FreeNext(c) /\ todo[c] # {}
  <2>1. PICK b \in todo[c] :
          /\ used' = used \ Block(b[1], b[2])
          /\ todo' = [todo EXCEPT ![c] = todo[c] \ {b}]
    BY <1>1 DEF FreeNext
  <2>2. /\ todo'[c] = todo[c] \ {b}
        /\ \A d \in Cores : d # c => todo'[d] = todo[d]
    BY <2>1 DEF IInv, TypeOK
  <2>3. ASSUME NEW d \in Cores, NEW a \in todo'[d]
        PROVE  a \in todo[d] /\ Block(a[1], a[2]) \cap Block(b[1], b[2]) = {}
    BY <2>2 DEF IInv, TodoOK
  <2>4. ASSUME NEW d \in Cores, NEW a \in todo'[d]
        PROVE  Aligned(a[1], a[2]) /\ Block(a[1], a[2]) \subseteq used'
    BY <2>1, <2>3 DEF IInv, TodoOK
  <2> QED
    BY <2>3, <2>4 DEF IInv, TodoOK
<1>2. CASE free_page(c)
  <2>1. PICK p \in Page : CallFree(c, {<<p, 0>>})
    BY <1>2 DEF free_page
  <2>2. \A a, b \in {<<p, 0>>} : a # b => Block(a[1], a[2]) \cap Block(b[1], b[2]) = {}
    OBVIOUS
  <2> QED
    BY SMTT(60), <2>1, <2>2, CallFreeClaims
<1>3. CASE free_linear_pages(c)
  <2>1. PICK p \in Page, count \in 1 .. MAX_COUNT : CallFree(c, {<<p, get_size_order(count)>>})
    BY <1>3 DEF free_linear_pages
  <2> DEFINE bs == {<<p, get_size_order(count)>>}
  <2>2. \A a, b \in bs : a # b => Block(a[1], a[2]) \cap Block(b[1], b[2]) = {}
    OBVIOUS
  <2> QED
    BY SMTT(60), <2>1, <2>2, CallFreeClaims
<1>4. CASE free_pages(c)
  <2>1. PICK ps \in SUBSET Page : CallFree(c, {<<p, 0>> : p \in ps})
    BY <1>4 DEF free_pages
  <2> DEFINE bs == {<<p, 0>> : p \in ps}
  <2>2. ASSUME NEW a \in bs, NEW b \in bs, a # b
        PROVE  Block(a[1], a[2]) \cap Block(b[1], b[2]) = {}
    <3>1. PICK p \in ps, q \in ps : a = <<p, 0>> /\ b = <<q, 0>>
      OBVIOUS
    <3>2. p # q /\ Block(a[1], a[2]) = {p} /\ Block(b[1], b[2]) = {q}
      BY <2>2, <3>1, OnePageBlock, PageNat
    <3> QED
      BY <3>2
  <2> QED
    BY <2>1, <2>2, CallFreeClaims
<1>5. CASE add_region(c) \/ New(c)
  <2>1. \A d \in Cores : todo[d] = {}
    BY <1>5, NewAlone DEF New, add_region, IInv, BootOK
  <2>2. todo' = todo
    BY <1>5 DEF New, add_region, call
  <2> QED
    BY <2>1, <2>2 DEF TodoOK
<1>6. CASE /\ ~ (FreeNext(c) /\ todo[c] # {}) /\ ~ free_page(c) /\ ~ free_linear_pages(c)
           /\ ~ free_pages(c) /\ ~ add_region(c) /\ ~ New(c)
  <2>1. todo' = todo /\ used \subseteq used'
    <3>1. CASE Step(c)
      BY <1>6, <3>1 DEF Step, NewPanics, NextSegment, try_lock, unlock, PanicLoop, vars,
           free_block, FreeBlockPanics, FreeBlockMerges, FreeBlockInserts,
           alloc_block, AllocBlockClimbs, AllocBlockPanics, AllocBlockPops,
           AllocBlockSplits, AllocBlockReturns, FreeNext, AllocNext, call
    <3>2. CASE Call(c)
      BY <1>6, <3>2 DEF Call, alloc_page, alloc_linear_pages, alloc_pages, CallAlloc
    <3> QED
      BY <3>1, <3>2
  <2> QED
    BY SMTT(60), <2>1 DEF IInv, TodoOK
<1> QED
  BY <1>1, <1>2, <1>3, <1>4, <1>5, <1>6

-----------------------------------------------------------------------------
(* The memory map and the construction of the manager.                     *)

LEMMA CeilDivNat ==
  ASSUME NEW a \in Nat, NEW b \in Nat \ {0}
  PROVE  CeilDiv(a, b) \in Nat
<1> DEFINE x == a + b - 1
<1>1. x \in Nat
  BY SMTT(60)
<1>2. x \div b \in Nat
  <2> HIDE DEF x
  <2> QED
    BY SMTT(60), <1>1
<1> QED
  BY <1>2 DEF CeilDiv

(* What is known of a segment of the map. *)
LEMMA SegmentFacts ==
  ASSUME IInv, NEW i \in DOMAIN memory_map
  PROVE  /\ memory_map[i] \in Segment
         /\ memory_map[i].start \in Nat /\ memory_map[i].page_count \in Nat
         /\ End(memory_map[i]) \in Nat /\ End(memory_map[i]) <= PAGE_LIMIT
         /\ Pages(memory_map[i]) \subseteq Page
<1>1. memory_map[i] \in Segment
  BY SMTT(60) DEF IInv, TypeOK
<1>2. memory_map[i].start \in Nat /\ memory_map[i].page_count \in Nat
  BY SMTT(60), <1>1, SizeAssumption DEF Segment
<1>3. End(memory_map[i]) \in Nat /\ End(memory_map[i]) <= PAGE_LIMIT
  BY SMTT(60), <1>2 DEF IInv, MapOK, End
<1>4. Pages(memory_map[i]) \subseteq Page
  BY SMTT(60), <1>2, <1>3, SizeAssumption DEF Pages, Page
<1> QED
  BY <1>1, <1>2, <1>3, <1>4

(* InlineStorage::new takes the bitmap from the start of a free segment. *)
LEMMA NewCarves ==
  ASSUME IInv, NEW c \in Cores, New(c)
  PROVE  /\ memory_map' \in Seq(Segment)
         /\ DOMAIN memory_map' = DOMAIN memory_map
         /\ \A i \in DOMAIN memory_map :
              /\ memory_map'[i] \in Segment
              /\ memory_map'[i].state = memory_map[i].state
              /\ End(memory_map'[i]) = End(memory_map[i])
              /\ Pages(memory_map'[i]) \subseteq Pages(memory_map[i])
         /\ map_bits' \in Nat
<1>1. PICK last \in DOMAIN memory_map :
        LET num_pages == End(memory_map[last])
            num_entries == CeilDiv(num_pages, WORD_BITS)
            num_storage_pages == CeilDiv(num_entries, WORDS_PER_PAGE)
        IN  /\ \E e \in DOMAIN memory_map :
                 /\ Fits(e, num_storage_pages)
                 /\ memory_map' = [memory_map EXCEPT
                                     ![e].start = @ + num_storage_pages,
                                     ![e].page_count = @ - num_storage_pages]
            /\ map_bits' = num_entries * WORD_BITS
  BY DEF New
<1> DEFINE w == CeilDiv(End(memory_map[last]), WORD_BITS)
           n == CeilDiv(w, WORDS_PER_PAGE)
<1>2. w \in Nat /\ n \in Nat
  BY SegmentFacts, CeilDivNat, SizeAssumption
<1>3. map_bits' \in Nat
  <2>1. map_bits' = w * WORD_BITS
    BY <1>1
  <2> HIDE DEF w
  <2> QED
    BY SMTT(60), <1>2, <2>1, SizeAssumption
<1>4. PICK e \in DOMAIN memory_map :
        /\ memory_map[e].page_count >= n
        /\ memory_map' = [memory_map EXCEPT ![e].start = @ + n, ![e].page_count = @ - n]
  BY <1>1 DEF Fits
<1> HIDE DEF w, n
<1>5. memory_map \in [DOMAIN memory_map -> Segment] /\ DOMAIN memory_map = 1 .. Len(memory_map)
  BY SMTT(60) DEF IInv, TypeOK
<1>6. DOMAIN memory_map' = DOMAIN memory_map
  BY <1>4, <1>5
<1>7. ASSUME NEW i \in DOMAIN memory_map
      PROVE  /\ memory_map'[i] \in Segment
             /\ memory_map'[i].state = memory_map[i].state
             /\ End(memory_map'[i]) = End(memory_map[i])
             /\ Pages(memory_map'[i]) \subseteq Pages(memory_map[i])
  <2>1. CASE i # e
    BY <1>4, <1>5, <2>1
  <2>2. CASE i = e
    <3>1. memory_map'[e] = [memory_map[e] EXCEPT !.start = @ + n, !.page_count = @ - n]
      BY <1>4, <1>5
    <3>2. /\ memory_map'[e].start = memory_map[e].start + n
          /\ memory_map'[e].page_count = memory_map[e].page_count - n
          /\ memory_map'[e].state = memory_map[e].state
      BY <3>1, SegmentFacts DEF Segment
    <3>3. memory_map'[e] \in Segment
      <4>1. /\ memory_map[e].start + n \in 0 .. PAGE_LIMIT
            /\ memory_map[e].page_count - n \in 0 .. PAGE_LIMIT
        BY SMTT(60), <1>2, <1>4, SegmentFacts, SizeAssumption DEF End
      <4> QED
        BY <3>1, <4>1, SegmentFacts DEF Segment
    <3>4. End(memory_map'[e]) = End(memory_map[e])
      BY SMTT(60), <1>2, <3>2, SegmentFacts DEF End
    <3>5. Pages(memory_map'[e]) \subseteq Pages(memory_map[e])
      BY SMTT(60), <1>2, <3>2, <3>4, SegmentFacts DEF Pages
    <3> QED
      BY <2>2, <3>2, <3>3, <3>4, <3>5
  <2> QED
    BY <2>1, <2>2
<1>8. memory_map' \in Seq(Segment)
  <2>1. memory_map' \in [1 .. Len(memory_map) -> Segment]
    BY <1>4, <1>5, <1>6, <1>7
  <2>2. Len(memory_map) \in Nat
    BY SMTT(60) DEF IInv, TypeOK
  <2> QED
    BY SMTT(60), <2>1, <2>2
<1> QED
  BY <1>3, <1>6, <1>7, <1>8

(* Every step keeps the map. *)
LEMMA MapStep ==
  ASSUME IInv, NEW c \in Cores, Step(c) \/ Call(c)
  PROVE  MapOK' /\ memory_map' \in Seq(Segment) /\ map_bits' \in Nat
<1>1. CASE New(c)
  <2>1. /\ memory_map' \in Seq(Segment)
        /\ DOMAIN memory_map' = DOMAIN memory_map
        /\ \A i \in DOMAIN memory_map :
             /\ End(memory_map'[i]) = End(memory_map[i])
             /\ Pages(memory_map'[i]) \subseteq Pages(memory_map[i])
        /\ map_bits' \in Nat
    BY <1>1, NewCarves
  <2> QED
    BY <2>1 DEF IInv, MapOK
<1>2. CASE ~ New(c)
  <2>1. UNCHANGED <<memory_map, map_bits>>
    <3>1. CASE Step(c)
      BY <1>2, <3>1 DEF Step, NewPanics, NextSegment, try_lock, unlock, PanicLoop, vars,
           free_block, FreeBlockPanics, FreeBlockMerges, FreeBlockInserts,
           alloc_block, AllocBlockClimbs, AllocBlockPanics, AllocBlockPops,
           AllocBlockSplits, AllocBlockReturns, add_region, FreeNext, AllocNext, boot
    <3>2. CASE Call(c)
      BY <3>2 DEF Call, free_page, free_linear_pages, free_pages, CallFree,
           alloc_page, alloc_linear_pages, alloc_pages, CallAlloc, boot
    <3> QED
      BY <3>1, <3>2
  <2> QED
    BY <2>1 DEF IInv, MapOK, TypeOK
<1> QED
  BY <1>1, <1>2

(* Once INSTANCE is written, nobody goes back to new(). *)
LEMMA BootDone ==
  ASSUME IInv, instance, NEW c \in Cores, Step(c) \/ Call(c)
  PROVE  BootOK'
<1> USE DEF IInv, TypeOK, BootOK, Goto, call, boot
<1>1. CASE Call(c)
  BY <1>1 DEF Call, free_page, free_linear_pages, free_pages, CallFree,
              alloc_page, alloc_linear_pages, alloc_pages, CallAlloc
<1>2. CASE New(c) \/ NewPanics(c) \/ NextSegment(c) \/ add_region(c)
  BY <1>2 DEF New, NewPanics, NextSegment, add_region
<1>3. CASE try_lock(c) \/ unlock(c) \/ PanicLoop(c)
  BY <1>3 DEF try_lock, unlock, PanicLoop, vars
<1>4. CASE free_block(c)
  BY <1>4 DEF free_block, FreeBlockPanics, FreeBlockMerges, FreeBlockInserts, Return
<1>5. CASE alloc_block(c)
  BY <1>5 DEF alloc_block, AllocBlockClimbs, AllocBlockPanics, AllocBlockPops,
              AllocBlockSplits, AllocBlockReturns, Return
<1>6. CASE FreeNext(c) \/ AllocNext(c)
  BY <1>6 DEF FreeNext, AllocNext
<1> QED
  BY <1>1, <1>2, <1>3, <1>4, <1>5, <1>6 DEF Step

(* Before that only new() and the add_region() it calls run. *)
LEMMA BootSteps ==
  ASSUME IInv, ~ instance, NEW c \in Cores, Step(c) \/ Call(c)
  PROVE  \/ New(c) \/ NewPanics(c) \/ NextSegment(c) \/ add_region(c)
         \/ try_lock(c) \/ unlock(c) \/ PanicLoop(c) \/ free_block(c)
<1>1. ~ Call(c)
  BY DEF Call, free_page, free_linear_pages, free_pages, CallFree,
         alloc_page, alloc_linear_pages, alloc_pages, CallAlloc
<1>2. op[c] # "alloc" /\ op[c] # "free"
  BY DEF IInv, BootOK
<1>3. ~ FreeNext(c) /\ ~ AllocNext(c)
  BY <1>2 DEF FreeNext, AllocNext
<1>4. ~ alloc_block(c)
  BY <1>2 DEF alloc_block, AllocBlockClimbs, AllocBlockPanics, AllocBlockPops,
              AllocBlockSplits, AllocBlockReturns, IInv, CallOK
<1> QED
  BY <1>1, <1>3, <1>4 DEF Step

(* The steps that do not build the manager. *)
LEMMA BootFrame ==
  ASSUME NEW c \in Cores, try_lock(c) \/ unlock(c) \/ PanicLoop(c) \/ free_block(c)
  PROVE  UNCHANGED <<map_bits, memory_map, seg, instance, region, used>>
BY DEF try_lock, unlock, PanicLoop, free_block, FreeBlockPanics, FreeBlockMerges,
       FreeBlockInserts, boot, vars

(* While it is built, its core is the only one that runs. *)
LEMMA BootAlone ==
  ASSUME IInv, ~ instance, NEW c \in Cores, Step(c) \/ Call(c)
  PROVE  /\ pc[c] # "idle"
         /\ \A d \in Cores : d # c => pc[d] = "idle" /\ pc'[d] = "idle"
         /\ pc'[c] # "new"
         /\ \A d \in Cores : op'[d] \in {"none", "add_region"} /\ todo'[d] = {}
         /\ pc[c] \notin {"new", "expect"} => AddOK
<1>1. /\ pc[c] # "idle" /\ pc'[c] # "new"
      /\ \A d \in Cores : d # c => pc'[d] = pc[d]
      /\ \A d \in Cores : op'[d] = op[d] \/ op'[d] \in {"none", "add_region"}
      /\ todo' = todo
  <2> USE DEF IInv, TypeOK, Goto, call
  <2>1. CASE New(c) \/ NewPanics(c)
    BY <2>1 DEF New, NewPanics
  <2>2. CASE NextSegment(c)
    BY <2>2 DEF NextSegment
  <2>3. CASE add_region(c)
    BY <2>3 DEF add_region
  <2>4. CASE try_lock(c) \/ unlock(c)
    BY <2>4 DEF try_lock, unlock
  <2>5. CASE PanicLoop(c)
    BY <2>5 DEF PanicLoop, vars, Panics
  <2>6. CASE free_block(c)
    BY <2>6 DEF free_block, FreeBlockPanics, FreeBlockMerges, FreeBlockInserts, Return
  <2> QED
    BY <2>1, <2>2, <2>3, <2>4, <2>5, <2>6, BootSteps
<1>2. /\ \A d \in Cores : d # c => pc[d] = "idle"
      /\ \A d \in Cores : op[d] \in {"none", "add_region"} /\ todo[d] = {}
      /\ AddOK \/ \E d \in Cores : pc[d] \in {"new", "expect"}
  BY <1>1 DEF IInv, BootOK
<1>3. pc[c] \notin {"new", "expect"} => AddOK
  BY <1>2
<1> QED
  BY <1>1, <1>2, <1>3

(* add_region keeps the pages still to be added in use. *)
LEMMA AddStep ==
  ASSUME IInv, ~ instance, NEW c \in Cores, Step(c) \/ Call(c),
         ~ instance', pc'[c] # "expect"
  PROVE  AddOK'
<1>1. CASE New(c)
  <2>1. region.page_count = 0 /\ region' = region /\ region.index \in Nat
    <3>1. pc[c] = "new" /\ region' = region
      BY <1>1 DEF New
    <3>2. region.index \in Nat
      BY SMTT(60), SizeAssumption DEF IInv, TypeOK
    <3> QED
      BY <3>1, <3>2, NewAlone
  <2>2. RegionPages' = {}
    BY SMTT(60), <2>1 DEF RegionPages
  <2>3. \A i \in DOMAIN memory_map' :
          i \in DOMAIN memory_map /\ IsFree(memory_map'[i]) = IsFree(memory_map[i])
    BY <1>1, NewCarves DEF IsFree
  <2>4. ASSUME NEW i \in DOMAIN memory_map', IsFree(memory_map'[i])
        PROVE  Pages(memory_map'[i]) \subseteq used'
    BY <1>1, <2>3, <2>4 DEF New
  <2> QED
    BY <2>2, <2>4 DEF AddOK, IsFree
<1>2. CASE NextSegment(c)
  <2>1. AddOK /\ UNCHANGED <<used, memory_map>> /\ seg \in Nat
    BY <1>2, BootAlone DEF NextSegment, IInv, TypeOK
  <2>2. seg <= Len(memory_map) /\ seg' = seg + 1
    BY SMTT(60), <1>2 DEF NextSegment, IInv, TypeOK
  <2>3. CASE IsFree(memory_map[seg]) /\ seg \in DOMAIN memory_map
    <3>1. region' = [index |-> memory_map[seg].start, page_count |-> memory_map[seg].page_count]
      BY <1>2, <2>2, <2>3 DEF NextSegment, IInv, TypeOK
    <3>2. RegionPages' = Pages(memory_map[seg])
      <4>1. /\ region'.index = memory_map[seg].start
            /\ region'.page_count = memory_map[seg].page_count
        BY <3>1
      <4>2. RegionPages' = region'.index .. (region'.index + region'.page_count - 1)
        BY DEF RegionPages
      <4> QED
        BY SMTT(60), <2>3, <4>1, <4>2, SegmentFacts DEF Pages, End
    <3>3. RegionPages' \subseteq used'
      BY SMTT(60), <2>1, <2>3, <3>2 DEF AddOK
    <3>4. ASSUME NEW i \in DOMAIN memory_map, i >= seg + 1, IsFree(memory_map[i])
          PROVE  /\ Pages(memory_map[i]) \subseteq used
                 /\ Pages(memory_map[i]) \cap RegionPages' = {}
      <4>1. i >= seg /\ i # seg
        BY SMTT(60), <2>1, <3>4 DEF IInv, TypeOK
      <4> QED
        BY <2>1, <2>3, <3>2, <3>4, <4>1 DEF AddOK, IInv, MapOK
    <3> QED
      BY <2>1, <2>2, <3>3, <3>4 DEF AddOK, IsFree, Pages, End
  <2>4. CASE ~ IsFree(memory_map[seg])
    <3>1. region' = region
      BY <1>2, <2>2, <2>4 DEF NextSegment
    <3>2. \A i \in DOMAIN memory_map : i >= seg + 1 => i >= seg
      BY SMTT(60), <2>1 DEF IInv, TypeOK
    <3> QED
      BY <2>1, <2>2, <3>1, <3>2 DEF AddOK, RegionPages
  <2>5. seg \in DOMAIN memory_map
    <3>1. seg >= 1
      BY SMTT(60) DEF IInv, TypeOK
    <3> QED
      BY SMTT(60), <2>1, <2>2, <3>1 DEF IInv, TypeOK
  <2> QED
    BY <2>3, <2>4, <2>5
<1>3. CASE add_region(c) /\ region.page_count > 0
  <2> DEFINE i == region.index
             n == region.page_count
             o == region_order(i, n)
  <2>1. /\ i \in Nat /\ n \in Nat /\ 2^o \in Nat /\ 2^o >= 1 /\ 2^o <= n
        /\ Block(i, o) \subseteq RegionPages
    BY SMTT(60), <1>3, RegionBlock, SizeAssumption DEF IInv, TypeOK
  <2>2. /\ region'.index = i + 2^o /\ region'.page_count = n - 2^o
        /\ used' = used \ Block(i, o)
        /\ UNCHANGED <<memory_map, seg>>
    BY SMTT(60), <1>3 DEF add_region, boot
  <2>3. RegionPages' \subseteq RegionPages /\ RegionPages' \cap Block(i, o) = {}
    <3> HIDE DEF o
    <3> QED
      BY SMTT(60), <2>1, <2>2 DEF RegionPages, Block
  <2>4. AddOK
    BY <1>3, BootAlone DEF add_region
  <2> HIDE DEF i, n, o
  <2>5. RegionPages' \subseteq used'
    BY <2>2, <2>3, <2>4 DEF AddOK
  <2>6. ASSUME NEW j \in DOMAIN memory_map, j >= seg, IsFree(memory_map[j])
        PROVE  /\ Pages(memory_map[j]) \subseteq used'
               /\ Pages(memory_map[j]) \cap RegionPages' = {}
    BY <2>1, <2>2, <2>3, <2>4, <2>6 DEF AddOK
  <2> QED
    BY <2>2, <2>5, <2>6 DEF AddOK
<1>4. CASE UNCHANGED <<boot, region, used>> /\ pc[c] \notin {"new", "expect"}
  BY <1>4, BootAlone DEF AddOK, boot, RegionPages, IsFree, Pages, End
<1>5. CASE add_region(c) /\ ~ region.page_count > 0
  <2>1. UNCHANGED <<boot, region, used>> /\ pc[c] = "loop"
    BY <1>5 DEF add_region
  <2> QED
    BY <1>4, <2>1
<1>6. CASE NewPanics(c)
  BY <1>6 DEF NewPanics, Goto, IInv, TypeOK
<1>7. CASE PanicLoop(c) /\ pc[c] \in {"new", "expect"}
  BY <1>7 DEF PanicLoop, Panics, vars
<1>8. CASE try_lock(c) \/ unlock(c) \/ PanicLoop(c) \/ free_block(c)
  <2>1. UNCHANGED <<boot, region, used>>
    BY <1>8, BootFrame DEF boot
  <2>2. pc[c] \notin {"new", "expect"} \/ PanicLoop(c)
    BY <1>8 DEF try_lock, unlock, free_block, FreeBlockPanics, FreeBlockMerges, FreeBlockInserts
  <2> QED
    BY <1>4, <1>7, <2>1, <2>2
<1> QED
  BY <1>1, <1>2, <1>3, <1>5, <1>6, <1>8, BootSteps

(* Every step keeps what is known of the construction. *)
LEMMA BootStep ==
  ASSUME IInv, NEW c \in Cores, Step(c) \/ Call(c)
  PROVE  BootOK'
<1>1. CASE instance
  BY <1>1, BootDone
<1>2. CASE ~ instance /\ instance'
  <2>1. NextSegment(c)
    BY <1>2, BootSteps, BootFrame DEF New, NewPanics, add_region, boot
  <2>2. pc'[c] = "idle" /\ op' = op /\ op[c] = "none"
    BY <1>2, <2>1 DEF NextSegment, Goto, IInv, TypeOK, CallOK
  <2>3. \A d \in Cores : d # c => pc'[d] = "idle" /\ op[d] = "none"
    BY <1>2, BootAlone DEF IInv, CallOK
  <2> QED
    BY <1>2, <2>2, <2>3 DEF BootOK
<1>3. CASE ~ instance /\ ~ instance'
  <2>1. AddOK' \/ pc'[c] = "expect"
    BY <1>3, AddStep
  <2>2. /\ \A d \in Cores : d # c => pc'[d] = "idle"
        /\ pc'[c] # "new"
        /\ \A d \in Cores : op'[d] \in {"none", "add_region"} /\ todo'[d] = {}
    BY <1>3, BootAlone
  <2> QED
    BY <1>3, <2>1, <2>2 DEF BootOK
<1> QED
  BY <1>1, <1>2, <1>3

-----------------------------------------------------------------------------
(* The types.                                                              *)

LEMMA SizeOrderType == \A count \in Nat : get_size_order(count) \in 0 .. NoOrder
<1>1. NoOrder \in 0 .. NoOrder /\ Order \subseteq 0 .. NoOrder
  BY SMTT(60), MaxOrderAssumption DEF NoOrder, Order
<1>2. ASSUME NEW count \in Nat
      PROVE  get_size_order(count) \in 0 .. NoOrder
  <2>1. CASE count = 0
    BY <1>1, <2>1 DEF get_size_order
  <2>2. CASE count >= 1
    BY <1>1, <2>2, SizeOrderIsTight
  <2> QED
    BY SMTT(60), <2>1, <2>2
<1> QED
  BY <1>2

(* The lock, the static pointer and where each core is. *)
LEMMA ControlTypes ==
  ASSUME IInv, NEW c \in Cores, Step(c) \/ Call(c)
  PROVE  /\ lock' \in BOOLEAN /\ instance' \in BOOLEAN /\ seg' \in Nat \ {0}
         /\ pc' \in [Cores -> Labels]
         /\ op' \in [Cores -> {"none", "add_region", "free", "alloc"}]
<1> USE DEF IInv, TypeOK, Goto, call, boot, Labels, InLock, Panics
<1>1. CASE New(c) \/ NewPanics(c)
  BY <1>1 DEF New, NewPanics
<1>2. CASE NextSegment(c)
  <2>1. CASE seg > Len(memory_map)
    BY <1>2, <2>1 DEF NextSegment
  <2>2. CASE ~ seg > Len(memory_map)
    <3>1. seg' \in Nat \ {0} /\ instance' = instance /\ lock' = lock
      BY SMTT(60), <1>2, <2>2 DEF NextSegment
    <3>2. CASE IsFree(memory_map[seg])
      BY <1>2, <2>2, <3>1, <3>2 DEF NextSegment
    <3>3. CASE ~ IsFree(memory_map[seg])
      BY <1>2, <2>2, <3>1, <3>3 DEF NextSegment
    <3> QED
      BY <3>2, <3>3
  <2> QED
    BY <2>1, <2>2
<1>3. CASE try_lock(c)
  BY <1>3 DEF try_lock
<1>4. CASE unlock(c)
  BY <1>4 DEF unlock
<1>5. CASE PanicLoop(c)
  BY <1>5 DEF PanicLoop, vars
<1>6. CASE free_block(c)
  BY <1>6 DEF free_block, FreeBlockPanics, FreeBlockMerges, FreeBlockInserts, Return
<1>7. CASE alloc_block(c)
  BY <1>7 DEF alloc_block, AllocBlockClimbs, AllocBlockPanics, AllocBlockPops,
              AllocBlockSplits, AllocBlockReturns, Return
<1>8. CASE add_region(c) \/ FreeNext(c) \/ AllocNext(c)
  BY <1>8 DEF add_region, FreeNext, AllocNext
<1>9. CASE Call(c)
  BY <1>9 DEF Call, free_page, free_linear_pages, free_pages, CallFree,
              alloc_page, alloc_linear_pages, alloc_pages, CallAlloc
<1> QED
  BY <1>1, <1>2, <1>3, <1>4, <1>5, <1>6, <1>7, <1>8, <1>9 DEF Step

(* The arguments of the calls. *)
LEMMA CallTypes ==
  ASSUME IInv, NEW c \in Cores, Step(c) \/ Call(c)
  PROVE  /\ goal' \in [Cores -> 0 .. NoOrder]
         /\ left' \in [Cores -> Nat]
         /\ todo' \in [Cores -> SUBSET (Page \X Order)]
<1>1. 0 \in 0 .. NoOrder /\ 0 \in Nat /\ 1 \in Nat /\ MAX_BATCH \in Nat /\ MAX_COUNT \in Nat
  BY SMTT(60), MaxOrderAssumption, SizeAssumption DEF NoOrder
<1> USE DEF IInv, TypeOK
<1>2. CASE alloc_page(c)
  BY <1>1, <1>2 DEF alloc_page, CallAlloc
<1>3. CASE alloc_linear_pages(c)
  <2>1. PICK count \in 0 .. MAX_COUNT : CallAlloc(c, get_size_order(count), 1)
    BY <1>3 DEF alloc_linear_pages
  <2>2. get_size_order(count) \in 0 .. NoOrder
    <3>1. count \in Nat
      BY SMTT(60), <1>1
    <3> QED
      BY <3>1, SizeOrderType
  <2> QED
    BY <1>1, <2>1, <2>2 DEF CallAlloc
<1>4. CASE alloc_pages(c)
  <2>1. PICK n \in 0 .. MAX_BATCH : CallAlloc(c, 0, n)
    BY <1>4 DEF alloc_pages
  <2>2. n \in Nat
    BY SMTT(60), <1>1
  <2> QED
    BY <1>1, <2>1, <2>2 DEF CallAlloc
<1>5. CASE free_page(c) \/ free_linear_pages(c) \/ free_pages(c)
  <2>1. ASSUME NEW blocks, CallFree(c, blocks),
               \A b \in blocks : \E p \in Page : \E o : b = <<p, o>>
        PROVE  /\ UNCHANGED <<goal, left>>
               /\ todo' \in [Cores -> SUBSET (Page \X Order)]
    <3>1. blocks \subseteq Page \X Order
      BY SMTT(60), <2>1 DEF CallFree, MayFree
    <3> QED
      BY <2>1, <3>1 DEF CallFree
  <2>2. CASE free_page(c)
    <3>1. PICK p \in Page : CallFree(c, {<<p, 0>>})
      BY <2>2 DEF free_page
    <3> QED
      BY SMTT(60), <2>1, <3>1
  <2>3. CASE free_linear_pages(c)
    <3>1. PICK p \in Page, count \in 1 .. MAX_COUNT : CallFree(c, {<<p, get_size_order(count)>>})
      BY <2>3 DEF free_linear_pages
    <3> QED
      BY SMTT(60), <2>1, <3>1
  <2>4. CASE free_pages(c)
    <3>1. PICK ps \in SUBSET Page : CallFree(c, {<<p, 0>> : p \in ps})
      BY <2>4 DEF free_pages
    <3> QED
      BY SMTT(60), <2>1, <3>1
  <2> QED
    BY <1>5, <2>2, <2>3, <2>4
<1>6. CASE unlock(c)
  BY <1>1, <1>6 DEF unlock
<1>7. CASE FreeNext(c)
  <2>1. todo' = todo \/ \E b : todo' = [todo EXCEPT ![c] = todo[c] \ {b}]
    BY <1>7 DEF FreeNext
  <2>2. UNCHANGED <<goal, left>>
    BY <1>7 DEF FreeNext
  <2>3. \A b : todo[c] \ {b} \in SUBSET (Page \X Order)
    OBVIOUS
  <2> QED
    BY SMTT(60), ZenonT(60), <2>1, <2>2, <2>3
<1>8. CASE AllocNext(c)
  <2>1. left[c] > 0 => left[c] - 1 \in Nat
    BY SMTT(60)
  <2> QED
    BY <1>8, <2>1 DEF AllocNext
<1>9. CASE UNCHANGED <<goal, left, todo>>
  BY <1>9
<1>10. CASE Step(c) /\ ~ unlock(c) /\ ~ FreeNext(c) /\ ~ AllocNext(c)
  <2>1. UNCHANGED <<goal, left, todo>>
    BY <1>10 DEF Step, New, NewPanics, NextSegment, try_lock, PanicLoop, vars,
         free_block, FreeBlockPanics, FreeBlockMerges, FreeBlockInserts,
         alloc_block, AllocBlockClimbs, AllocBlockPanics, AllocBlockPops,
         AllocBlockSplits, AllocBlockReturns, add_region, call
  <2> QED
    BY <1>9, <2>1
<1> QED
  BY <1>2, <1>3, <1>4, <1>5, <1>6, <1>7, <1>8, <1>10 DEF Call

(* The region that is added, and the pages in use. *)
LEMMA RegionTypes ==
  ASSUME IInv, NEW c \in Cores, Step(c) \/ Call(c)
  PROVE  /\ region' \in [index : 0 .. PAGE_LIMIT, page_count : 0 .. PAGE_LIMIT]
         /\ used' \subseteq Page
<1>1. CASE NextSegment(c)
  <2>1. used' = used
    BY <1>1 DEF NextSegment
  <2>2. seg <= Len(memory_map) => memory_map[seg] \in Segment
    BY SMTT(60) DEF IInv, TypeOK
  <2>3. seg <= Len(memory_map) \/ region' = region
    <3>1. seg > Len(memory_map) => region' = region
      BY <1>1 DEF NextSegment
    <3>2. seg \in Nat /\ Len(memory_map) \in Nat
      BY SMTT(60) DEF IInv, TypeOK
    <3> QED
      BY SMTT(60), <3>1, <3>2
  <2>4. \/ region' = region
        \/ region' = [index |-> memory_map[seg].start, page_count |-> memory_map[seg].page_count]
    BY <1>1 DEF NextSegment
  <2> QED
    BY SMTT(60), <2>1, <2>2, <2>3, <2>4 DEF IInv, TypeOK, Segment
<1>2. CASE add_region(c) /\ region.page_count > 0
  <2> DEFINE i == region.index
             n == region.page_count
             o == region_order(i, n)
  <2>1. /\ i \in Nat /\ n \in Nat /\ n <= PAGE_LIMIT /\ 2^o \in Nat /\ 2^o >= 1 /\ 2^o <= n
        /\ RegionPages \subseteq used
    BY SMTT(60), <1>2, RegionBlock, SizeAssumption DEF IInv, TypeOK
  <2>2. /\ region' = [index |-> i + 2^o, page_count |-> n - 2^o]
        /\ used' = used \ Block(i, o)
    BY <1>2 DEF add_region
  <2>3. i + n - 1 \in Page
    <3>1. i + n - 1 \in RegionPages
      BY SMTT(60), <1>2, <2>1 DEF RegionPages
    <3> QED
      BY <2>1, <3>1 DEF IInv, TypeOK
  <2> HIDE DEF i, n, o
  <2>4. i + 2^o \in 0 .. PAGE_LIMIT /\ n - 2^o \in 0 .. PAGE_LIMIT
    BY SMTT(60), <2>1, <2>3, SizeAssumption DEF Page
  <2> QED
    BY <2>2, <2>4 DEF IInv, TypeOK
<1>3. CASE New(c)
  <2>1. region' = region
    BY <1>3 DEF New
  <2>2. \A i \in DOMAIN memory_map : Pages(memory_map'[i]) \subseteq Page
    BY <1>3, NewCarves, SegmentFacts
  <2>3. used' \subseteq Page
    BY <1>3, <2>2 DEF New
  <2> QED
    BY <2>1, <2>3 DEF IInv, TypeOK
<1>4. CASE AllocBlockReturns(c)
  <2>1. Working(c) /\ order[c] = goal[c] /\ region' = region
        /\ used' = used \cup Block(index[c], goal[c])
    BY <1>4 DEF AllocBlockReturns, Working
  <2> QED
    BY <2>1, WorkingBlock DEF IInv, TypeOK
<1>5. CASE FreeNext(c)
  BY <1>5 DEF FreeNext, IInv, TypeOK
<1>6. CASE ~ NextSegment(c) /\ ~ (add_region(c) /\ region.page_count > 0) /\ ~ New(c)
           /\ ~ AllocBlockReturns(c) /\ ~ FreeNext(c)
  <2>1. UNCHANGED <<region, used>>
    <3>1. CASE Step(c)
      BY <1>6, <3>1 DEF Step, NewPanics, try_lock, unlock, PanicLoop, vars,
         free_block, FreeBlockPanics, FreeBlockMerges, FreeBlockInserts,
         alloc_block, AllocBlockClimbs, AllocBlockPanics, AllocBlockPops,
         AllocBlockSplits, add_region, AllocNext
    <3>2. CASE Call(c)
      BY <3>2 DEF Call, free_page, free_linear_pages, free_pages, CallFree,
              alloc_page, alloc_linear_pages, alloc_pages, CallAlloc
    <3> QED
      BY <3>1, <3>2
  <2> QED
    BY <2>1 DEF IInv, TypeOK
<1> QED
  BY <1>1, <1>2, <1>3, <1>4, <1>5, <1>6

(* The block that each core works on. *)
LEMMA BlockTypes ==
  ASSUME IInv, NEW c \in Cores, Step(c) \/ Call(c)
  PROVE  /\ index' \in [Cores -> Page]
         /\ order' \in [Cores -> 0 .. NoOrder]
<1>1. 0 \in Page /\ 0 \in 0 .. NoOrder /\ Order \subseteq 0 .. NoOrder
  BY SMTT(60), SizeAssumption, MaxOrderAssumption DEF Page, Order, NoOrder
<1>2. ASSUME NEW i \in Page, index' = [index EXCEPT ![c] = i]
      PROVE  index' \in [Cores -> Page]
  BY <1>2 DEF IInv, TypeOK
<1>3. ASSUME NEW o \in 0 .. NoOrder, order' = [order EXCEPT ![c] = o]
      PROVE  order' \in [Cores -> 0 .. NoOrder]
  BY <1>3 DEF IInv, TypeOK
<1>4. CASE FreeBlockMerges(c)
  <2> DEFINE i == index[c]
             o == order[c]
             b == BuddyOf(c)
             j == get_combined_index(i, o)
  <2>1. Working(c) /\ b \in buddy_map /\ entry_order[b] = o /\ o < MAX_ORDER
    BY <1>4 DEF FreeBlockMerges, Working, CanMerge
  <2>2. j \in Nat /\ o \in Nat /\ Block(j, o + 1) = Block(i, o) \cup Block(b, o)
    BY <2>1, WorkingBlock, MergeIsExact DEF BuddyOf
  <2>3. Block(b, o) \subseteq Page /\ Block(i, o) \subseteq Page
    BY <2>1, WorkingBlock, FreeBlockFacts DEF FreeBlock
  <2>4. j \in Page
    BY SMTT(60), <2>2, <2>3, BlockStarts
  <2>5. o + 1 \in 0 .. NoOrder
    BY SMTT(60), <2>1, <2>2, MaxOrderAssumption DEF NoOrder
  <2>6. index' = [index EXCEPT ![c] = j] /\ order' = [order EXCEPT ![c] = o + 1]
    BY <1>4 DEF FreeBlockMerges
  <2> HIDE DEF i, o, j
  <2> QED
    BY <1>2, <1>3, <2>4, <2>5, <2>6
<1>5. CASE FreeBlockInserts(c)
  BY <1>1, <1>2, <1>3, <1>5 DEF FreeBlockInserts, Return
<1>6. CASE AllocBlockClimbs(c)
  <2>1. index' = index
    BY <1>6 DEF AllocBlockClimbs
  <2>2. order' = order \/ (order[c] # MAX_ORDER /\ order' = [order EXCEPT ![c] = order[c] + 1])
    BY <1>6 DEF AllocBlockClimbs
  <2>3. order[c] # MAX_ORDER => order[c] + 1 \in 0 .. NoOrder
    BY SMTT(60), <1>6, MaxOrderAssumption DEF AllocBlockClimbs, Order, NoOrder
  <2> QED
    BY <1>3, <2>1, <2>2, <2>3 DEF IInv, TypeOK
<1>7. CASE AllocBlockPops(c)
  <2>1. index' = [index EXCEPT ![c] = free_lists[order[c]]] /\ order' = order
    BY <1>7 DEF AllocBlockPops
  <2>2. free_lists[order[c]] \in Page
    BY <1>7 DEF AllocBlockPops, IInv, LinksOK, TypeOK
  <2> QED
    BY <1>2, <2>1, <2>2 DEF IInv, TypeOK
<1>8. CASE AllocBlockSplits(c)
  <2>1. index' = index /\ order' = [order EXCEPT ![c] = order[c] - 1]
    BY <1>8 DEF AllocBlockSplits
  <2>2. order[c] - 1 \in 0 .. NoOrder
    BY <1>1, <1>8, SplitBlock
  <2> QED
    BY <1>3, <2>1, <2>2 DEF IInv, TypeOK
<1>9. CASE AllocBlockReturns(c)
  BY <1>1, <1>2, <1>3, <1>9 DEF AllocBlockReturns, Return
<1>10. CASE add_region(c) /\ region.page_count > 0
  <2> DEFINE i == region.index
             o == region_order(i, region.page_count)
  <2>1. i \in Nat /\ o \in Nat /\ o \in Order /\ Block(i, o) \subseteq used
    BY <1>10, RegionBlock
  <2>2. i \in Page /\ o \in 0 .. NoOrder
    BY <1>1, <2>1, BlockStarts DEF IInv, TypeOK
  <2>3. index' = [index EXCEPT ![c] = i] /\ order' = [order EXCEPT ![c] = o]
    BY <1>10 DEF add_region
  <2> HIDE DEF i, o
  <2> QED
    BY <1>2, <1>3, <2>2, <2>3
<1>11. CASE FreeNext(c) /\ todo[c] # {}
  <2>1. PICK b \in todo[c] : index' = [index EXCEPT ![c] = b[1]]
                             /\ order' = [order EXCEPT ![c] = b[2]]
    BY <1>11 DEF FreeNext
  <2>2. b[1] \in Page /\ b[2] \in Order
    BY SMTT(60) DEF IInv, TypeOK
  <2>3. b[2] \in 0 .. NoOrder
    BY <1>1, <2>2
  <2> QED
    BY <1>2, <1>3, <2>1, <2>2, <2>3
<1>12. CASE AllocNext(c)
  <2>1. index' = index /\ (order' = order \/ order' = [order EXCEPT ![c] = goal[c]])
    BY <1>12 DEF AllocNext
  <2>2. goal[c] \in 0 .. NoOrder
    BY DEF IInv, TypeOK
  <2> QED
    BY <1>3, <2>1, <2>2 DEF IInv, TypeOK
<1>13. CASE UNCHANGED <<index, order>>
  BY <1>13 DEF IInv, TypeOK
<1>14. CASE /\ ~ FreeBlockMerges(c) /\ ~ FreeBlockInserts(c) /\ ~ AllocBlockClimbs(c)
            /\ ~ AllocBlockPops(c) /\ ~ AllocBlockSplits(c) /\ ~ AllocBlockReturns(c)
            /\ ~ (add_region(c) /\ region.page_count > 0)
            /\ ~ (FreeNext(c) /\ todo[c] # {}) /\ ~ AllocNext(c)
  <2>1. CASE Step(c)
    BY <1>13, <1>14, <2>1 DEF Step, New, NewPanics, NextSegment, try_lock, unlock, PanicLoop,
       vars, free_block, FreeBlockPanics, alloc_block, AllocBlockPanics, add_region, FreeNext
  <2>2. CASE Call(c)
    BY <1>13, <2>2 DEF Call, free_page, free_linear_pages, free_pages, CallFree,
              alloc_page, alloc_linear_pages, alloc_pages, CallAlloc
  <2> QED
    BY <2>1, <2>2
<1> QED
  BY <1>4, <1>5, <1>6, <1>7, <1>8, <1>9, <1>10, <1>11, <1>12, <1>14

(* All of the types. *)
LEMMA TypeStep ==
  ASSUME IInv, NEW c \in Cores, Step(c) \/ Call(c)
  PROVE  TypeOK'
<1>1. ListTypes'
  BY ListStep
<1> QED
  BY <1>1, MapStep, ControlTypes, CallTypes, RegionTypes, BlockTypes DEF TypeOK, ListTypes

-----------------------------------------------------------------------------
(* The inductive invariant.                                                *)

LEMMA Initial == Init => IInv
<1> SUFFICES ASSUME Init PROVE IInv
  OBVIOUS
<1>1. 0 \in Page /\ 0 \in 0 .. NoOrder /\ 0 \in 0 .. PAGE_LIMIT
  BY SMTT(60), SizeAssumption, MaxOrderAssumption DEF Page, NoOrder
<1>2. PICK b \in Cores : pc = [c \in Cores |-> IF c = b THEN "new" ELSE "idle"]
  BY DEF Init
<1>3. TypeOK
  <2>1. memory_map \in Seq(Segment)
    BY MapAssumption DEF Init
  <2>2. region \in [index : 0 .. PAGE_LIMIT, page_count : 0 .. PAGE_LIMIT]
    BY <1>1 DEF Init
  <2>3. pc \in [Cores -> Labels]
    BY <1>2 DEF Labels
  <2>4. /\ free_lists \in [Order -> Ptr]
        /\ entry_order \in [Page -> Order \cup {DIRTY}]
        /\ next \in [Page -> Ptr \cup {DIRTY}]
        /\ prev \in [Page -> Ptr \cup {DIRTY}]
    BY DEF Init, Ptr
  <2>5. lock \in BOOLEAN /\ instance \in BOOLEAN
    BY DEF Init
  <2>6. /\ op \in [Cores -> {"none", "add_region", "free", "alloc"}]
        /\ index \in [Cores -> Page]
        /\ order \in [Cores -> 0 .. NoOrder]
        /\ goal \in [Cores -> 0 .. NoOrder]
        /\ left \in [Cores -> Nat]
        /\ todo \in [Cores -> SUBSET (Page \X Order)]
    BY <1>1 DEF Init
  <2>7. buddy_map \subseteq Page /\ map_bits \in Nat /\ seg \in Nat \ {0} /\ used \subseteq Page
    BY SMTT(60) DEF Init
  <2> QED
    BY <2>1, <2>2, <2>3, <2>4, <2>5, <2>6, <2>7 DEF TypeOK
<1>4. LockOK
  BY <1>2 DEF Init, LockOK, Holds, InLock
<1>5. \A c \in Cores : ~ Working(c)
  BY <1>2 DEF Working
<1>6. CallOK
  BY <1>2, <1>5 DEF Init, CallOK
<1>7. LinksOK
  BY DEF Init, LinksOK
<1>8. OneOwner
  BY <1>5 DEF Init, OneOwner, InFlight
<1>9. TodoOK
  BY DEF Init, TodoOK
<1>10. MapOK
  BY MapAssumption DEF Init, MapOK
<1>11. BootOK
  BY <1>2 DEF Init, BootOK
<1> QED
  BY <1>3, <1>4, <1>6, <1>7, <1>8, <1>9, <1>10, <1>11 DEF IInv

(* A step that changes nothing. *)
LEMMA Stutter == IInv /\ UNCHANGED vars => IInv'
<1> SUFFICES ASSUME IInv, UNCHANGED vars PROVE IInv'
  OBVIOUS
<1> USE DEF vars, lists, boot, call
<1>1. TypeOK'
  BY DEF IInv, TypeOK
<1>2. LockOK' /\ CallOK'
  BY DEF IInv, LockOK, Holds, CallOK, Working
<1>3. LinksOK'
  BY DEF IInv, LinksOK
<1>4. OneOwner'
  BY OwnerKept DEF Working
<1>5. TodoOK' /\ MapOK'
  BY DEF IInv, TodoOK, MapOK
<1>6. AddOK' <=> AddOK
  BY DEF AddOK, RegionPages
<1>7. BootOK'
  BY <1>6 DEF IInv, BootOK
<1> QED
  BY <1>1, <1>2, <1>3, <1>4, <1>5, <1>7 DEF IInv

(* One step of any core keeps the invariant. *)
LEMMA Inductive == IInv /\ [Next]_vars => IInv'
<1>1. ASSUME IInv, NEW c \in Cores, Step(c) \/ Call(c)
      PROVE  IInv'
  <2>1. TypeOK /\ LockOK
    BY <1>1 DEF IInv
  <2>2. TypeOK' /\ LockOK'
    BY <1>1, <2>1, TypeStep, LockStep
  <2>3. LinksOK' /\ OneOwner' /\ CallOK'
    BY <1>1, ListStep, OwnerStep
  <2>4. TodoOK' /\ MapOK' /\ BootOK'
    BY <1>1, TodoStep, MapStep, BootStep
  <2> QED
    BY <2>2, <2>3, <2>4 DEF IInv
<1> QED
  BY <1>1, Stutter DEF Next

(* So it holds in every state that is reached. *)
LEMMA Invariance == Spec => []IInv
BY Initial, Inductive, PTL DEF Spec

-----------------------------------------------------------------------------
(* What the clients of the manager rely on.                                *)

(* Every variable keeps its type: indexes stay inside the memory, orders   *)
(* inside free_lists, nodes hold pages or null.                            *)
THEOREM TypeCorrect == Spec => []TypeOK
<1>1. IInv => TypeOK
  BY DEF IInv
<1> QED
  BY <1>1, Invariance, PTL

(* The bitmap, the nodes and the heads agree: no core ever follows a list  *)
(* pointer into memory that somebody else may write.                       *)
THEOREM ListsAreConsistent == Spec => []LinksOK
<1>1. IInv => LinksOK
  BY DEF IInv
<1> QED
  BY <1>1, Invariance, PTL

(* No page is ever handed out twice, for every number of cores, every      *)
(* memory map and every sequence of allocations and frees.                 *)
THEOREM NoPageHasTwoOwners == Spec => []OneOwner
<1>1. IInv => OneOwner
  BY DEF IInv
<1> QED
  BY <1>1, Invariance, PTL

(* A core is inside the spin lock exactly while it runs code that needs it.*)
LEMMA InsideIsHolds ==
  ASSUME NEW c \in Cores
  PROVE  At(c) \in {"holding", "dead"} <=> Holds(c)
BY DEF At, Holds, InLock, Panics

(* At most one core is between lock() and the drop of the guard, in every  *)
(* public function of the manager, a panic included.                       *)
THEOREM ManagerIsExclusive == Spec => []MutualExclusion
<1>1. ASSUME IInv PROVE MutualExclusion
  <2>1. \A c \in Cores : Mutex!Inside(c) <=> Holds(c)
    BY InsideIsHolds DEF Mutex!Inside
  <2> QED
    BY <1>1, <2>1 DEF IInv, LockOK, MutualExclusion, Mutex!MutualExclusion
<1> QED
  BY <1>1, Invariance, PTL

(* The step of the lock that a step of the manager is. *)
LEMMA AtMoves ==
  ASSUME TypeOK, NEW c \in Cores, NEW l \in Labels, pc' = [pc EXCEPT ![c] = l]
  PROVE  /\ \A d \in Cores : d # c => At(d)' = At(d)
         /\ l = "lock" => At(c)' = "spinning"
         /\ l \in InLock \ Panics => At(c)' = "holding"
         /\ l \in InLock \cap Panics => At(c)' = "dead"
         /\ l \notin InLock \cup {"lock"} => At(c)' = "outside"
BY DEF TypeOK, At, InLock, Panics

(* While a core c is stuck in a panic with the guard alive, the other cores *)
(* get as far as lock().                                                   *)
LEMMA DeadKeeps ==
  ASSUME IInv, NEW c \in Cores, pc[c] \in {"oom", "oob"},
         NEW d \in Cores, Step(d) \/ Call(d)
  PROVE  /\ UNCHANGED <<lock, lists, map_bits, used, region, instance>>
         /\ d = c => UNCHANGED vars
         /\ ~ New(d)
<1>1. Holds(c) /\ lock
  BY DEF IInv, LockOK, Holds, InLock
<1>2. pc[d] \in {"oom", "oob"} \/ pc[d] \notin InLock
  BY <1>1 DEF IInv, LockOK, Holds
<1>3. pc[d] \notin {"new", "segments"}
  BY DEF IInv, BootOK
<1>4. ~ New(d)
  BY <1>3 DEF New
<1>5. CASE Step(d)
  <2>1. try_lock(d) \/ PanicLoop(d)
    BY <1>2, <1>3, <1>5 DEF Step, InLock, New, NewPanics, NextSegment, unlock,
       free_block, FreeBlockPanics, FreeBlockMerges, FreeBlockInserts,
       alloc_block, AllocBlockClimbs, AllocBlockPanics, AllocBlockPops,
       AllocBlockSplits, AllocBlockReturns, add_region, FreeNext, AllocNext
  <2>2. CASE try_lock(d)
    BY <1>1, <1>4, <2>2 DEF try_lock, boot, IInv, TypeOK
  <2>3. CASE PanicLoop(d)
    BY <1>4, <2>3 DEF PanicLoop, vars, boot
  <2> QED
    BY <2>1, <2>2, <2>3
<1>6. CASE Call(d)
  <2>1. /\ pc[d] = "idle"
        /\ UNCHANGED <<lock, lists, map_bits, used, region, instance>>
    BY <1>6 DEF Call, free_page, free_linear_pages, free_pages, CallFree,
       alloc_page, alloc_linear_pages, alloc_pages, CallAlloc, boot
  <2>2. d # c
    BY <2>1
  <2> QED
    BY <1>4, <2>1, <2>2
<1> QED
  BY <1>5, <1>6

(* After a panic with the guard alive nothing the guard protects changes:  *)
(* whatever the panic interrupted is never used again, by any core.        *)
THEOREM PanicFreezes == Spec => FrozenAfterPanic
<1> DEFINE Dead == \E c \in Cores : pc[c] \in {"oom", "oob"}
           Kept == UNCHANGED <<lock, lists, map_bits, used, region, instance>>
<1>1. ASSUME IInv, Dead, NEW d \in Cores, Step(d) \/ Call(d)
      PROVE  Kept
  BY <1>1, DeadKeeps
<1>2. IInv /\ [Next]_vars => [Dead => Kept]_vars
  BY <1>1 DEF Next
<1> QED
  BY <1>2, Invariance, PTL DEF Spec, FrozenAfterPanic

-----------------------------------------------------------------------------
(* The manager uses the lock as mutex.rs means it to be used.              *)

LEMMA LockMoves ==
  ASSUME IInv, NEW c \in Cores, Step(c) \/ Call(c)
  PROVE  \/ Mutex!Lock(c) \/ Mutex!try_lock(c) \/ Mutex!unlock(c) \/ Mutex!Panic(c)
         \/ UNCHANGED Mutex!vars
<1> DEFINE at == [d \in Cores |-> At(d)]
<1>1. ASSUME NEW l \in Labels, pc' = [pc EXCEPT ![c] = l]
      PROVE  at' = [at EXCEPT ![c] = At(c)']
  BY <1>1, AtMoves DEF IInv
<1>2. at[c] = At(c)
  OBVIOUS
<1>3. ASSUME lock' = lock, pc' = pc
      PROVE  UNCHANGED Mutex!vars
  BY SMTT(60), <1>3 DEF Mutex!vars, At
<1>4. ASSUME lock' = lock, NEW l \in Labels, pc' = [pc EXCEPT ![c] = l],
             \/ pc[c] \in InLock \ Panics /\ l \in InLock \ Panics
             \/ pc[c] \notin InLock \cup {"lock"} /\ l \notin InLock \cup {"lock"}
      PROVE  UNCHANGED Mutex!vars
  <2>1. At(c)' = At(c)
    BY <1>4, AtMoves DEF IInv, At, InLock, Panics
  <2>2. at' = at
    BY <1>1, <1>4, <2>1
  <2> QED
    BY <1>4, <2>2 DEF Mutex!vars
<1>5. ASSUME lock' = lock, pc[c] \notin InLock \cup {"lock"}, pc' = [pc EXCEPT ![c] = "lock"]
      PROVE  Mutex!Lock(c)
  <2>1. "lock" \in Labels /\ At(c) = "outside"
    BY <1>5 DEF Labels, At
  <2>2. At(c)' = "spinning" /\ at' = [at EXCEPT ![c] = At(c)']
    BY <1>1, <1>5, <2>1, AtMoves DEF IInv
  <2> QED
    BY <1>2, <1>5, <2>1, <2>2 DEF Mutex!Lock
<1>6. ASSUME lock' = lock, pc[c] \in InLock \ Panics,
             NEW l \in {"oom", "oob"}, pc' = [pc EXCEPT ![c] = l]
      PROVE  Mutex!Panic(c)
  <2>1. l \in Labels /\ l \in InLock \cap Panics /\ At(c) = "holding"
    BY <1>6 DEF Labels, At, InLock, Panics
  <2>2. At(c)' = "dead" /\ at' = [at EXCEPT ![c] = At(c)']
    BY <1>1, <1>6, <2>1, AtMoves DEF IInv
  <2> QED
    BY <1>2, <1>6, <2>1, <2>2 DEF Mutex!Panic
<1>7. CASE try_lock(c)
  <2>1. At(c) = "spinning" /\ lock' = TRUE
    BY <1>7 DEF try_lock, At, InLock, Panics
  <2>2. CASE lock
    <3>1. at' = at
      BY SMTT(60), <1>7, <2>2 DEF try_lock, At
    <3> QED
      BY <1>2, <2>1, <2>2, <3>1 DEF Mutex!try_lock
  <2>3. CASE ~ lock
    <3>1. "loop" \in Labels /\ "loop" \in InLock \ Panics /\ pc' = [pc EXCEPT ![c] = "loop"]
      BY <1>7, <2>3 DEF try_lock, Goto, Labels, InLock, Panics
    <3>2. At(c)' = "holding" /\ at' = [at EXCEPT ![c] = At(c)']
      BY <1>1, <3>1, AtMoves DEF IInv
    <3> QED
      BY <1>2, <2>1, <2>3, <3>2 DEF Mutex!try_lock
  <2> QED
    BY <2>2, <2>3
<1>8. CASE unlock(c)
  <2>1. PICK l \in {"segments", "idle"} : pc' = [pc EXCEPT ![c] = l]
    BY <1>8 DEF unlock, Goto
  <2>2. l \in Labels /\ l \notin InLock \cup {"lock"}
    BY DEF Labels, InLock
  <2>3. At(c)' = "outside" /\ at' = [at EXCEPT ![c] = At(c)']
    BY <1>1, <2>1, <2>2, AtMoves DEF IInv
  <2>4. At(c) = "holding" /\ lock' = FALSE
    BY <1>8 DEF unlock, At, InLock, Panics
  <2> QED
    BY <1>2, <2>3, <2>4 DEF Mutex!unlock
<1>9. CASE Call(c)
  BY <1>5, <1>9 DEF Call, free_page, free_linear_pages, free_pages, CallFree,
       alloc_page, alloc_linear_pages, alloc_pages, CallAlloc, Goto, InLock
<1>10. CASE New(c) \/ NewPanics(c)
  BY <1>4, <1>10 DEF New, NewPanics, Goto, Labels, InLock, Panics
<1>11. CASE NextSegment(c)
  BY <1>3, <1>4, <1>5, <1>11 DEF NextSegment, Goto, Labels, InLock
<1>12. CASE PanicLoop(c)
  BY <1>3, <1>12 DEF PanicLoop, vars
<1>13. CASE free_block(c)
  BY <1>3, <1>4, <1>6, <1>13 DEF free_block, FreeBlockPanics, FreeBlockMerges,
       FreeBlockInserts, Return, Goto, Labels, InLock, Panics
<1>14. CASE alloc_block(c)
  BY <1>3, <1>4, <1>6, <1>14 DEF alloc_block, AllocBlockClimbs, AllocBlockPanics,
       AllocBlockPops, AllocBlockSplits, AllocBlockReturns, Return, Goto, Labels, InLock, Panics
<1>15. CASE add_region(c) \/ FreeNext(c) \/ AllocNext(c)
  BY <1>4, <1>15 DEF add_region, FreeNext, AllocNext, Goto, Labels, InLock, Panics
<1> QED
  BY <1>7, <1>8, <1>9, <1>10, <1>11, <1>12, <1>13, <1>14, <1>15 DEF Step

(* The manager is a client of SpinLock that keeps to its protocol: every   *)
(* step of a core is a step of the lock, or does not concern it.           *)
THEOREM UsesSpinLock == Spec => ImplementsSpinLock
<1>1. Init => Mutex!Init
  BY DEF Init, Mutex!Init, At, InLock, Panics
<1>2. IInv /\ [Next]_vars => [Mutex!Next]_(Mutex!vars)
  <2>1. ASSUME IInv, UNCHANGED vars PROVE UNCHANGED Mutex!vars
    BY SMTT(60), <2>1 DEF vars, Mutex!vars, At
  <2> QED
    BY <2>1, LockMoves DEF Next, Mutex!Next
<1> QED
  BY <1>1, <1>2, Invariance, PTL DEF Spec, ImplementsSpinLock, Mutex!Spec

=============================================================================
