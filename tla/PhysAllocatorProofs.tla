------------------------ MODULE PhysAllocatorProofs -------------------------
(*****************************************************************************)
(* The physical memory manager implements PageAllocator, for every number of *)
(* cores, every memory map, every MAX_ORDER and every sequence of calls.  It *)
(* loses no page, every free block can be reached from its list head, and no *)
(* two buddies stay free side by side; so it gives up only if no block of    *)
(* the order is free.  free_block reads past the bitmap at most while the    *)
(* memory map is added.                                                      *)
(*****************************************************************************)
EXTENDS PhysManagerProofs

USE ZenonT(60), SMTT(60)

-----------------------------------------------------------------------------
(* No page is lost.                                                        *)

(* NothingLost, page by page. *)
Accounted ==
  \A x : x \in Memory <=>
    \/ x \in used
    \/ \E p \in buddy_map : x \in Block(p, entry_order[p])
    \/ \E c \in Cores : Working(c) /\ x \in Block(index[c], order[c])

(* NothingLost, page by page, *)
LEMMA LostPages == NothingLost <=> Accounted
<1> DEFINE Free == UNION {FreeBlock(p) : p \in buddy_map}
           Flight == UNION {InFlight(c) : c \in Cores}
<1>1. \A x : x \in Free <=> \E p \in buddy_map : x \in Block(p, entry_order[p])
  BY DEF FreeBlock
<1>2. \A x : x \in Flight <=> \E c \in Cores : Working(c) /\ x \in Block(index[c], order[c])
  BY DEF InFlight
<1>3. NothingLost <=> \A x : x \in Memory <=> x \in used \/ x \in Free \/ x \in Flight
  BY DEF NothingLost
<1> HIDE DEF Free, Flight
<1> QED
  BY <1>1, <1>2, <1>3 DEF Accounted

(* and in the next state. *)
LEMMA LostPagesNext == NothingLost' <=> Accounted'
BY LostPages, PTL

(* The same in the next state, for a step of core c inside the manager. *)
LEMMA LostStep ==
  ASSUME IInv, NEW c \in Cores, Holds(c), NothingLost,
         Memory' = Memory,
         \A d \in Cores : d # c => ~ Working(d)',
         \A x : \/ x \in used
                \/ \E p \in buddy_map : x \in Block(p, entry_order[p])
                \/ Working(c) /\ x \in Block(index[c], order[c])
                <=>
                \/ x \in used'
                \/ \E p \in buddy_map' : x \in Block(p, entry_order'[p])
                \/ Working(c)' /\ x \in Block(index'[c], order'[c])
  PROVE  NothingLost'
<1>1. \A d \in Cores : Working(d) => d = c
  BY OnlyWorker
<1>2. \A d \in Cores : Working(d)' => d = c
  OBVIOUS
<1>3. \A x : (\E d \in Cores : Working(d) /\ x \in Block(index[d], order[d]))
               <=> Working(c) /\ x \in Block(index[c], order[c])
  BY <1>1
<1>4. \A x : (\E d \in Cores : Working(d)' /\ x \in Block(index'[d], order'[d]))
               <=> Working(c)' /\ x \in Block(index'[c], order'[c])
  BY <1>2
<1>5. \A x : x \in Memory' <=>
        \/ x \in used'
        \/ \E p \in buddy_map' : x \in Block(p, entry_order'[p])
        \/ \E d \in Cores : Working(d)' /\ x \in Block(index'[d], order'[d])
  BY <1>3, <1>4, LostPages DEF Accounted
<1> QED
  BY <1>5, LostPagesNext DEF Accounted

(* A step of one core leaves the others where they are. *)
LEMMA OthersStay ==
  ASSUME IInv, NEW c \in Cores, Step(c) \/ Call(c), NEW d \in Cores, d # c
  PROVE  /\ pc'[d] = pc[d] /\ op'[d] = op[d] /\ goal'[d] = goal[d]
         /\ index'[d] = index[d] /\ order'[d] = order[d]
<1> USE DEF IInv, TypeOK, Goto, call
<1>1. CASE New(c) \/ NewPanics(c) \/ NextSegment(c)
  BY <1>1 DEF New, NewPanics, NextSegment
<1>2. CASE try_lock(c) \/ unlock(c) \/ PanicLoop(c)
  BY <1>2 DEF try_lock, unlock, PanicLoop, vars
<1>3. CASE free_block(c)
  BY <1>3 DEF free_block, FreeBlockPanics, FreeBlockMerges, FreeBlockInserts, Return
<1>4. CASE AllocBlockClimbs(c) \/ AllocBlockPanics(c) \/ AllocBlockPops(c)
  BY <1>4 DEF AllocBlockClimbs, AllocBlockPanics, AllocBlockPops
<1>5. CASE AllocBlockSplits(c) \/ AllocBlockReturns(c)
  BY <1>5 DEF AllocBlockSplits, AllocBlockReturns, Return
<1>6. CASE add_region(c)
  BY <1>6 DEF add_region
<1>7. CASE FreeNext(c) \/ AllocNext(c)
  BY <1>7 DEF FreeNext, AllocNext
<1>8. CASE Call(c)
  BY <1>8 DEF Call, free_page, free_linear_pages, free_pages, CallFree,
              alloc_page, alloc_linear_pages, alloc_pages, CallAlloc
<1> QED
  BY <1>1, <1>2, <1>3, <1>4, <1>5, <1>6, <1>7, <1>8 DEF Step, alloc_block

(* Only New makes the memory; nothing returns to the state before it. *)
LEMMA MemoryFrame ==
  ASSUME IInv, NEW c \in Cores, Step(c) \/ Call(c), ~ New(c)
  PROVE  Memory' = Memory /\ memory_map' = memory_map /\ map_bits' = map_bits
<1>1. UNCHANGED <<memory_map, map_bits>>
  <2>1. CASE Step(c)
    BY <2>1 DEF Step, NewPanics, NextSegment, try_lock, unlock, PanicLoop, vars,
         free_block, FreeBlockPanics, FreeBlockMerges, FreeBlockInserts,
         alloc_block, AllocBlockClimbs, AllocBlockPanics, AllocBlockPops,
         AllocBlockSplits, AllocBlockReturns, add_region, FreeNext, AllocNext, boot
  <2>2. CASE Call(c)
    BY <2>2 DEF Call, free_page, free_linear_pages, free_pages, CallFree,
         alloc_page, alloc_linear_pages, alloc_pages, CallAlloc, boot
  <2> QED
    BY <2>1, <2>2
<1> DEFINE Early(l) == l \in {"new", "expect"}
<1>2. \A d \in Cores : d # c => pc'[d] = pc[d]
  BY OthersStay
<1>3. Early(pc'[c]) <=> Early(pc[c])
  <2> USE DEF IInv, TypeOK, Goto
  <2>1. CASE NewPanics(c) \/ NextSegment(c) \/ PanicLoop(c)
    BY <2>1 DEF NewPanics, NextSegment, PanicLoop, vars
  <2>2. CASE try_lock(c) \/ unlock(c)
    BY <2>2 DEF try_lock, unlock
  <2>3. CASE free_block(c)
    BY <2>3 DEF free_block, FreeBlockPanics, FreeBlockMerges, FreeBlockInserts, Return
  <2>4. CASE alloc_block(c)
    BY <2>4 DEF alloc_block, AllocBlockClimbs, AllocBlockPanics, AllocBlockPops,
                AllocBlockSplits, AllocBlockReturns, Return
  <2>5. CASE add_region(c) \/ FreeNext(c) \/ AllocNext(c)
    BY <2>5 DEF add_region, FreeNext, AllocNext
  <2>6. CASE Call(c)
    BY <2>6 DEF Call, free_page, free_linear_pages, free_pages, CallFree,
                alloc_page, alloc_linear_pages, alloc_pages, CallAlloc
  <2> QED
    BY <2>1, <2>2, <2>3, <2>4, <2>5, <2>6 DEF Step
<1>4. (\E d \in Cores : Early(pc'[d])) <=> (\E d \in Cores : Early(pc[d]))
  <2> HIDE DEF Early
  <2> QED
    BY <1>2, <1>3
<1> QED
  BY <1>1, <1>4 DEF Memory

(* The first state has no memory to lose. *)
LEMMA LostInit == Init => NothingLost
<1> SUFFICES ASSUME Init PROVE NothingLost
  OBVIOUS
<1>1. PICK b \in Cores : pc = [c \in Cores |-> IF c = b THEN "new" ELSE "idle"]
  BY DEF Init
<1>2. \A c \in Cores : ~ Working(c)
  BY <1>1 DEF Working
<1>3. Memory = {} /\ used = {} /\ buddy_map = {}
  BY <1>1 DEF Init, Memory
<1> QED
  BY <1>2, <1>3, LostPages DEF Accounted

(* Each step moves pages between the owners and loses none. *)
LEMMA LostInductive ==
  ASSUME IInv, NothingLost, NEW c \in Cores, Step(c) \/ Call(c)
  PROVE  NothingLost'
<1>1. CASE FreeBlockMerges(c)
  <2> DEFINE i == index[c]
             o == order[c]
             b == BuddyOf(c)
             j == get_combined_index(i, o)
  <2>1. Working(c) /\ Holds(c) /\ ~ New(c) /\ pc' = pc /\ op' = op
    BY <1>1 DEF FreeBlockMerges, Working, Holds, InLock, New, call
  <2>2. /\ b \in buddy_map /\ entry_order[b] = o /\ buddy_map' = buddy_map \ {b}
        /\ UNCHANGED <<entry_order, used>>
        /\ index'[c] = j /\ order'[c] = o + 1
    BY <1>1 DEF FreeBlockMerges, CanMerge, remove_buddy_list_entry, IInv, TypeOK
  <2>3. Block(j, o + 1) = Block(i, o) \cup Block(b, o)
    BY <2>1, WorkingBlock, MergeIsExact DEF BuddyOf
  <2>4. \A d \in Cores : Working(d)' <=> Working(d)
    BY <2>1 DEF Working
  <2>5. \A d \in Cores : d # c => ~ Working(d)'
    BY <2>1, <2>4, OnlyWorker
  <2>6. Memory' = Memory
    BY <2>1, MemoryFrame
  <2> HIDE DEF i, o, b, j
  <2>7. \A x : (\E p \in buddy_map : x \in Block(p, entry_order[p])) <=>
               (\E p \in buddy_map' : x \in Block(p, entry_order'[p])) \/ x \in Block(b, o)
    BY <2>2
  <2>8. Working(c)'
    BY <2>1, <2>4
  <2>9. \A x : x \in Block(index'[c], order'[c]) <=> x \in Block(i, o) \/ x \in Block(b, o)
    BY <2>2, <2>3
  <2>10. used' = used /\ i = index[c] /\ o = order[c]
    BY <2>2 DEF i, o
  <2> QED
    BY <2>1, <2>5, <2>6, <2>7, <2>8, <2>9, <2>10, LostStep
<1>2. CASE FreeBlockInserts(c)
  <2> DEFINE i == index[c]
             o == order[c]
  <2>1. Working(c) /\ Holds(c) /\ ~ New(c)
    BY <1>2 DEF FreeBlockInserts, Working, Holds, InLock, New
  <2>2. i \in Page /\ i \notin buddy_map
    BY <2>1, WorkingBlock, BlockStarts
  <2>3. /\ buddy_map' = buddy_map \cup {i} /\ used' = used
        /\ entry_order'[i] = o /\ \A p \in buddy_map : entry_order'[p] = entry_order[p]
    BY <1>2, <2>2 DEF FreeBlockInserts, push_buddy_list_entry, IInv, TypeOK
  <2>4. \A d \in Cores : ~ Working(d)'
    <3>1. ~ Working(c)'
      BY <1>2 DEF FreeBlockInserts, Return, Goto, Working, IInv, TypeOK
    <3>2. \A d \in Cores : d # c => (Working(d)' <=> Working(d))
      BY OthersStay DEF Working
    <3> QED
      BY <2>1, <3>1, <3>2, OnlyWorker
  <2>5. Memory' = Memory
    BY <2>1, MemoryFrame
  <2>6. \A x : (\E p \in buddy_map' : x \in Block(p, entry_order'[p])) <=>
               (\E p \in buddy_map : x \in Block(p, entry_order[p])) \/ x \in Block(i, o)
    <3> HIDE DEF i, o
    <3> QED
      BY <2>3
  <2> QED
    BY <2>1, <2>3, <2>4, <2>5, <2>6, LostStep
<1>3. CASE AllocBlockPops(c)
  <2> DEFINE h == free_lists[order[c]]
  <2>1. Holds(c) /\ ~ Working(c) /\ ~ New(c) /\ order[c] \in Order
    BY <1>3 DEF AllocBlockPops, Working, Holds, InLock, New
  <2>2. /\ buddy_map' = buddy_map \ {h} /\ UNCHANGED <<entry_order, used>>
        /\ index'[c] = h /\ order'[c] = order[c] /\ Working(c)'
    BY <1>3 DEF AllocBlockPops, pop_buddy_list_entry, Goto, Working, IInv, TypeOK
  <2>3. h \in buddy_map /\ entry_order[h] = order[c]
    BY <1>3, <2>1 DEF AllocBlockPops, IInv, LinksOK
  <2>4. \A d \in Cores : d # c => ~ Working(d)'
    <3>1. \A d \in Cores : d # c => (Working(d)' <=> Working(d))
      BY OthersStay DEF Working
    <3> QED
      BY <2>1, <3>1, OnlyWorker
  <2>5. Memory' = Memory
    BY <2>1, MemoryFrame
  <2>6. \A x : (\E p \in buddy_map : x \in Block(p, entry_order[p])) <=>
               (\E p \in buddy_map' : x \in Block(p, entry_order'[p]))
                 \/ x \in Block(index'[c], order'[c])
    <3> HIDE DEF h
    <3> QED
      BY <2>2, <2>3
  <2> QED
    BY <2>1, <2>2, <2>4, <2>5, <2>6, LostStep
<1>4. CASE AllocBlockSplits(c)
  <2> DEFINE i == index[c]
             o == order[c] - 1
             b == get_buddy_index(i, o)
  <2>1. Working(c) /\ Holds(c) /\ ~ New(c) /\ pc' = pc /\ op' = op
    BY <1>4 DEF AllocBlockSplits, Working, Holds, InLock, New, call
  <2>2. /\ b \in Page /\ b \notin buddy_map
        /\ Block(i, order[c]) = Block(i, o) \cup Block(b, o)
    BY <1>4, SplitBlock
  <2>3. /\ buddy_map' = buddy_map \cup {b} /\ used' = used
        /\ entry_order'[b] = o /\ \A p \in buddy_map : entry_order'[p] = entry_order[p]
        /\ index'[c] = i /\ order'[c] = o
    BY <1>4, <2>2 DEF AllocBlockSplits, push_buddy_list_entry, IInv, TypeOK
  <2>4. \A d \in Cores : Working(d)' <=> Working(d)
    BY <2>1 DEF Working
  <2>5. \A d \in Cores : d # c => ~ Working(d)'
    BY <2>1, <2>4, OnlyWorker
  <2>6. Memory' = Memory
    BY <2>1, MemoryFrame
  <2>7. Working(c)'
    BY <2>1, <2>4
  <2>8. index[c] = i
    OBVIOUS
  <2> HIDE DEF i, o, b
  <2>9. \A x : (\E p \in buddy_map' : x \in Block(p, entry_order'[p])) <=>
               (\E p \in buddy_map : x \in Block(p, entry_order[p])) \/ x \in Block(b, o)
    BY <2>3
  <2>10. \A x : x \in Block(index[c], order[c]) <=>
                x \in Block(index'[c], order'[c]) \/ x \in Block(b, o)
    BY <2>2, <2>3, <2>8
  <2> QED
    BY <2>1, <2>3, <2>5, <2>6, <2>7, <2>9, <2>10, LostStep
<1>5. CASE AllocBlockReturns(c)
  <2>1. Working(c) /\ Holds(c) /\ ~ New(c) /\ order[c] = goal[c]
    BY <1>5 DEF AllocBlockReturns, Working, Holds, InLock, New
  <2>2. used' = used \cup Block(index[c], order[c]) /\ buddy_map' = buddy_map
    BY <1>5, <2>1 DEF AllocBlockReturns
  <2>3. \A p \in buddy_map : entry_order'[p] = entry_order[p]
    BY <1>5, <2>1, WorkingBlock DEF AllocBlockReturns, IInv, TypeOK
  <2>4. \A d \in Cores : ~ Working(d)'
    <3>1. ~ Working(c)'
      BY <1>5 DEF AllocBlockReturns, Return, Goto, Working, IInv, TypeOK
    <3>2. \A d \in Cores : d # c => (Working(d)' <=> Working(d))
      BY OthersStay DEF Working
    <3> QED
      BY <2>1, <3>1, <3>2, OnlyWorker
  <2>5. Memory' = Memory
    BY <2>1, MemoryFrame
  <2>6. \A x : (\E p \in buddy_map' : x \in Block(p, entry_order'[p])) <=>
               (\E p \in buddy_map : x \in Block(p, entry_order[p]))
    BY <2>2, <2>3
  <2> QED
    BY <2>1, <2>2, <2>4, <2>5, <2>6, LostStep
<1>6. ASSUME NEW i, NEW o, pc[c] = "loop", Block(i, o) \subseteq used,
             used' = used \ Block(i, o), UNCHANGED lists,
             pc' = [pc EXCEPT ![c] = "free_block"], index'[c] = i, order'[c] = o
      PROVE  NothingLost'
  <2>1. Holds(c) /\ ~ Working(c) /\ Working(c)' /\ ~ New(c)
    BY <1>6 DEF Holds, Working, InLock, New, IInv, TypeOK
  <2>2. \A d \in Cores : d # c => ~ Working(d)'
    <3>1. \A d \in Cores : d # c => (Working(d)' <=> Working(d))
      BY OthersStay DEF Working
    <3> QED
      BY <2>1, <3>1, OnlyWorker
  <2>3. Memory' = Memory
    BY <2>1, MemoryFrame
  <2>4. buddy_map' = buddy_map /\ entry_order' = entry_order
    BY <1>6 DEF lists
  <2>5. \A x : x \in used <=> x \in used' \/ x \in Block(index'[c], order'[c])
    BY <1>6
  <2> QED
    BY <2>1, <2>2, <2>3, <2>4, <2>5, LostStep
<1>7. CASE add_region(c) /\ region.page_count > 0
  <2> DEFINE i == region.index
             o == region_order(i, region.page_count)
  <2>1. Block(i, o) \subseteq used
    BY <1>7, RegionBlock
  <2>2. /\ pc[c] = "loop" /\ used' = used \ Block(i, o) /\ UNCHANGED lists
        /\ pc' = [pc EXCEPT ![c] = "free_block"]
        /\ index'[c] = i /\ order'[c] = o
    BY <1>7 DEF add_region, Goto, IInv, TypeOK
  <2> HIDE DEF i, o
  <2> QED
    BY <1>6, <2>1, <2>2
<1>8. CASE FreeNext(c) /\ todo[c] # {}
  <2>1. PICK b \in todo[c] :
          /\ used' = used \ Block(b[1], b[2])
          /\ pc' = [pc EXCEPT ![c] = "free_block"]
          /\ index'[c] = b[1] /\ order'[c] = b[2]
    BY <1>8 DEF FreeNext, Goto, IInv, TypeOK
  <2>2. pc[c] = "loop" /\ UNCHANGED lists
    BY <1>8 DEF FreeNext
  <2>3. Block(b[1], b[2]) \subseteq used
    BY DEF IInv, TodoOK
  <2> QED
    BY <1>6, <2>1, <2>2, <2>3
<1>9. CASE New(c)
  <2>1. buddy_map = {} /\ (\A d \in Cores : ~ Working(d))
        /\ (\A d \in Cores : d # c => pc[d] = "idle")
    BY <1>9, NewAlone DEF New
  <2>2. pc' = [pc EXCEPT ![c] = "segments"] /\ op' = op /\ buddy_map' = {}
    BY <1>9, <2>1 DEF New, Goto, lists, call
  <2>3. \A d \in Cores : ~ Working(d)' /\ pc'[d] \notin {"new", "expect"}
    BY <2>1, <2>2 DEF Working, IInv, TypeOK
  <2>4. {j \in DOMAIN memory_map' : IsFree(memory_map'[j])}
          = {j \in DOMAIN memory_map : IsFree(memory_map[j])}
    BY <1>9, NewCarves DEF IsFree
  <2>5. Memory' = UNION {Pages(memory_map'[i]) :
                           i \in {j \in DOMAIN memory_map' : IsFree(memory_map'[j])}}
    BY <2>3 DEF Memory
  <2>6. Memory' = used'
    BY <1>9, <2>4, <2>5 DEF New
  <2> QED
    BY <2>2, <2>3, <2>6, LostPagesNext DEF Accounted
<1>10. CASE /\ UNCHANGED <<buddy_map, entry_order, used>> /\ ~ New(c)
            /\ \A d \in Cores : Working(d)' <=> Working(d)
            /\ \A d \in Cores : Working(d) => UNCHANGED <<index[d], order[d]>>
  <2>1. Memory' = Memory
    BY <1>10, MemoryFrame
  <2>2. \A x : (\E d \in Cores : Working(d)' /\ x \in Block(index'[d], order'[d])) <=>
               (\E d \in Cores : Working(d) /\ x \in Block(index[d], order[d]))
    BY <1>10
  <2>3. \A x : (\E p \in buddy_map' : x \in Block(p, entry_order'[p])) <=>
               (\E p \in buddy_map : x \in Block(p, entry_order[p]))
    BY <1>10
  <2>4. \A x : x \in Memory' <=>
          \/ x \in used'
          \/ \E p \in buddy_map' : x \in Block(p, entry_order'[p])
          \/ \E d \in Cores : Working(d)' /\ x \in Block(index'[d], order'[d])
    BY <1>10, <2>1, <2>2, <2>3, LostPages DEF Accounted
  <2> QED
    BY <2>4, LostPagesNext DEF Accounted
<1>11. CASE (add_region(c) /\ ~ region.page_count > 0) \/ (FreeNext(c) /\ todo[c] = {})
  <2>1. /\ UNCHANGED <<lists, used, index, order, op>>
        /\ pc' = [pc EXCEPT ![c] = "unlock"] /\ pc[c] = "loop"
    BY <1>11 DEF add_region, FreeNext, Goto, call
  <2>2. \A d \in Cores : Working(d)' <=> Working(d)
    BY <2>1 DEF Working, IInv, TypeOK
  <2>3. ~ New(c) /\ UNCHANGED <<buddy_map, entry_order, used>>
    BY <2>1 DEF New, lists
  <2> QED
    BY <1>10, <2>1, <2>2, <2>3
<1>12. CASE /\ ~ FreeBlockMerges(c) /\ ~ FreeBlockInserts(c) /\ ~ AllocBlockPops(c)
            /\ ~ AllocBlockSplits(c) /\ ~ AllocBlockReturns(c)
            /\ ~ New(c) /\ ~ add_region(c) /\ ~ FreeNext(c)
  <2>1. /\ UNCHANGED <<lists, used>>
        /\ \A d \in Cores : Working(d)' <=> Working(d)
        /\ \A d \in Cores : Working(d) => UNCHANGED <<index[d], order[d]>>
    BY <1>12, OwnerFrame DEF IInv
  <2> QED
    BY <1>10, <1>12, <2>1 DEF lists
<1> QED
  BY <1>1, <1>2, <1>3, <1>4, <1>5, <1>7, <1>8, <1>9, <1>11, <1>12

-----------------------------------------------------------------------------
(* Free buddies are merged.                                                *)

(* The lists change only where free blocks are added or taken out; what is *)
(* kept of them keeps its order.                                           *)
LEMMA FreeBlocksMove ==
  ASSUME IInv, NEW c \in Cores, Step(c) \/ Call(c)
  PROVE  \/ /\ buddy_map' \subseteq buddy_map
            /\ \A p \in buddy_map : entry_order'[p] = entry_order[p]
         \/ FreeBlockInserts(c)
         \/ AllocBlockSplits(c)
<1>1. CASE FreeBlockMerges(c)
  BY <1>1 DEF FreeBlockMerges, remove_buddy_list_entry
<1>2. CASE AllocBlockPops(c)
  BY <1>2 DEF AllocBlockPops, pop_buddy_list_entry
<1>3. CASE AllocBlockReturns(c)
  <2>1. Working(c) /\ order[c] = goal[c] /\ buddy_map' = buddy_map
    BY <1>3 DEF AllocBlockReturns, Working
  <2>2. \A p \in buddy_map : entry_order'[p] = entry_order[p]
    BY <1>3, <2>1, WorkingBlock DEF AllocBlockReturns, IInv, TypeOK
  <2> QED
    BY <2>1, <2>2
<1>4. CASE UNCHANGED lists
  BY <1>4 DEF lists
<1> QED
  BY <1>1, <1>2, <1>3, <1>4, ListFrame

(* A free block that is added next to free blocks that cannot merge with it.*)
LEMMA MergedAfterPush ==
  ASSUME IInv, FullyMerged,
         NEW i \in Page, NEW o \in Order, i \notin buddy_map, Aligned(i, o),
         buddy_map' = buddy_map \cup {i},
         entry_order'[i] = o,
         \A p \in buddy_map : entry_order'[p] = entry_order[p],
         ~ (o < MAX_ORDER /\ get_buddy_index(i, o) \in buddy_map
              /\ entry_order[get_buddy_index(i, o)] = o)
  PROVE  FullyMerged'
<1>1. i \in Nat /\ o \in Nat
  BY OrderNat, PageNat
<1>2. get_buddy_index(i, o) # i
  BY <1>1, MergeIsExact
<1>3. ASSUME NEW p \in buddy_map', entry_order'[p] < MAX_ORDER,
             get_buddy_index(p, entry_order'[p]) \in buddy_map',
             entry_order'[get_buddy_index(p, entry_order'[p])] = entry_order'[p]
      PROVE  FALSE
  <2>1. CASE p = i
    BY <1>2, <1>3, <2>1
  <2>2. CASE p # i /\ get_buddy_index(p, entry_order'[p]) = i
    <3>1. /\ p \in buddy_map /\ entry_order[p] = o /\ o < MAX_ORDER
          /\ get_buddy_index(p, o) = i
      BY <1>3, <2>2
    <3>2. p \in Nat /\ Aligned(p, o)
      BY <3>1, FreeBlockFacts
    <3>3. get_buddy_index(i, o) = p
      BY <1>1, <3>1, <3>2, MergeIsExact
    <3> QED
      BY <3>1, <3>3
  <2>3. CASE p # i /\ get_buddy_index(p, entry_order'[p]) # i
    BY <1>3, <2>3 DEF FullyMerged
  <2> QED
    BY <2>1, <2>2, <2>3
<1> QED
  BY <1>3 DEF FullyMerged

(* Every step keeps it: an insert looks at the buddy first, and a split    *)
(* keeps one half.                                                         *)
LEMMA MergedInductive ==
  ASSUME IInv, FullyMerged, NEW c \in Cores, Step(c) \/ Call(c)
  PROVE  FullyMerged'
<1>1. CASE FreeBlockInserts(c)
  <2> DEFINE i == index[c]
             o == order[c]
  <2>1. Working(c)
    BY <1>1 DEF FreeBlockInserts, Working
  <2>2. i \in Page /\ o \in Order /\ Aligned(i, o) /\ i \notin buddy_map
    BY <2>1, WorkingBlock, BlockStarts
  <2>3. /\ buddy_map' = buddy_map \cup {i}
        /\ entry_order'[i] = o /\ \A p \in buddy_map : entry_order'[p] = entry_order[p]
    BY <1>1, <2>2 DEF FreeBlockInserts, push_buddy_list_entry, IInv, TypeOK
  <2>4. ~ (o < MAX_ORDER /\ get_buddy_index(i, o) \in buddy_map
             /\ entry_order[get_buddy_index(i, o)] = o)
    BY <1>1 DEF FreeBlockInserts, CanMerge, BuddyOf
  <2> HIDE DEF i, o
  <2> QED
    BY <2>2, <2>3, <2>4, MergedAfterPush
<1>2. CASE AllocBlockSplits(c)
  <2> DEFINE i == index[c]
             o == order[c] - 1
             b == get_buddy_index(i, o)
  <2>1. Working(c)
    BY <1>2 DEF AllocBlockSplits, Working
  <2>2. i \in Nat /\ i \notin buddy_map
    BY <2>1, WorkingBlock, BlockStarts
  <2>3. o \in Order /\ o \in Nat /\ b \in Page /\ b \notin buddy_map /\ Aligned(i, o) /\ Aligned(b, o)
    BY <1>2, SplitBlock
  <2>4. /\ buddy_map' = buddy_map \cup {b}
        /\ entry_order'[b] = o /\ \A p \in buddy_map : entry_order'[p] = entry_order[p]
    BY <1>2, <2>3 DEF AllocBlockSplits, push_buddy_list_entry, IInv, TypeOK
  <2>5. get_buddy_index(b, o) = i
    BY <2>2, <2>3, MergeIsExact
  <2> HIDE DEF i, o, b
  <2> QED
    BY <2>2, <2>3, <2>4, <2>5, MergedAfterPush
<1>3. CASE /\ buddy_map' \subseteq buddy_map
           /\ \A p \in buddy_map : entry_order'[p] = entry_order[p]
  <2>1. ASSUME NEW p \in buddy_map', entry_order'[p] < MAX_ORDER,
               get_buddy_index(p, entry_order'[p]) \in buddy_map'
        PROVE  entry_order'[get_buddy_index(p, entry_order'[p])] # entry_order'[p]
    BY <1>3, <2>1 DEF FullyMerged
  <2> QED
    BY <2>1 DEF FullyMerged
<1> QED
  BY <1>1, <1>2, <1>3, FreeBlocksMove

-----------------------------------------------------------------------------
(* Every free block is in its list.                                        *)

(* Going back along the links leads to the head: some number falls at every *)
(* step.  Of the nodes the walk from the head missed, one has the lowest.  *)
Ranked ==
  \E rank \in [Page -> Nat] :
    \A p \in buddy_map : prev[p] # NULL => rank[prev[p]] < rank[p]

(* A node that is pushed gets the lowest rank of all. *)
LEMMA PushKeepsRanks ==
  ASSUME ListTypes, LinksOK, Ranked,
         NEW e \in Page, e \notin buddy_map, NEW o \in Order,
         push_buddy_list_entry(e, o)
  PROVE  Ranked'
<1>1. PICK rank \in [Page -> Nat] :
        \A p \in buddy_map : prev[p] # NULL => rank[prev[p]] < rank[p]
  BY DEF Ranked
<1> DEFINE new == [p \in Page |-> IF p = e THEN 0 ELSE rank[p] + 1]
<1>2. new \in [Page -> Nat]
  BY SMTT(60)
<1>3. /\ buddy_map' = buddy_map \cup {e}
      /\ prev' = [p \in Page |-> IF p = free_lists[o] THEN e
                                 ELSE IF p = e THEN NULL ELSE prev[p]]
  BY DEF push_buddy_list_entry
<1>4. free_lists[o] # e
  BY SMTT(60), Pointers DEF LinksOK, ListTypes
<1>5. ASSUME NEW p \in buddy_map', prev'[p] # NULL
      PROVE  new[prev'[p]] < new[p]
  <2>1. p \in Page /\ p # e
    BY <1>3, <1>4, <1>5 DEF ListTypes
  <2>2. p \in buddy_map /\ rank[p] \in Nat /\ new[p] = rank[p] + 1
    BY <1>3, <2>1
  <2>3. CASE p = free_lists[o]
    <3>1. prev'[p] = e /\ new[e] = 0
      BY <1>3, <2>1, <2>3
    <3> QED
      BY SMTT(60), <2>2, <3>1
  <2>4. CASE p # free_lists[o]
    <3>1. prev'[p] = prev[p] /\ prev[p] # NULL
      BY <1>3, <1>5, <2>1, <2>4
    <3>2. prev[p] \in buddy_map
      BY <2>2, <3>1 DEF LinksOK
    <3>3. prev[p] \in Page /\ prev[p] # e
      BY <3>2 DEF ListTypes
    <3>4. rank[prev[p]] < rank[p] /\ rank[prev[p]] \in Nat /\ new[prev[p]] = rank[prev[p]] + 1
      BY <1>1, <2>2, <3>1, <3>3
    <3> HIDE DEF new
    <3>5. rank[prev[p]] + 1 < rank[p] + 1
      BY SMTT(60), <2>2, <3>4
    <3> QED
      BY <2>2, <3>1, <3>4, <3>5
  <2> QED
    BY <2>3, <2>4
<1> HIDE DEF new
<1> QED
  BY <1>2, <1>5 DEF Ranked

(* Taking a node out shortens a chain of links. *)
LEMMA RemoveKeepsRanks ==
  ASSUME ListTypes, LinksOK, Ranked, NEW e \in buddy_map,
         buddy_map' = buddy_map \ {e},
         prev' = [p \in Page |-> IF p = next[e] THEN prev[e] ELSE prev[p]]
  PROVE  Ranked'
<1>1. PICK rank \in [Page -> Nat] :
        \A p \in buddy_map : prev[p] # NULL => rank[prev[p]] < rank[p]
  BY DEF Ranked
<1>2. ASSUME NEW p \in buddy_map', prev'[p] # NULL
      PROVE  rank[prev'[p]] < rank[p]
  <2>1. p \in buddy_map /\ p \in Page
    BY DEF ListTypes
  <2>2. CASE p = next[e]
    <3>1. prev[p] = e /\ prev'[p] = prev[e] /\ e \in Page /\ p # NULL
      BY <2>1, <2>2, Pointers DEF LinksOK, ListTypes
    <3>2. prev[p] # NULL /\ prev[e] # NULL /\ prev[e] \in buddy_map
      BY <1>2, <3>1, Pointers DEF LinksOK
    <3>3. rank[e] < rank[p] /\ rank[prev[e]] < rank[e]
      BY <1>1, <2>1, <3>1, <3>2
    <3>4. rank[p] \in Nat /\ rank[e] \in Nat /\ rank[prev[e]] \in Nat
      BY <2>1, <3>1, <3>2 DEF ListTypes
    <3> QED
      BY SMTT(60), <3>1, <3>3, <3>4
  <2>3. CASE p # next[e]
    <3>1. prev'[p] = prev[p]
      BY <2>1, <2>3
    <3> QED
      BY <1>1, <1>2, <2>1, <3>1
  <2> QED
    BY <2>2, <2>3
<1> QED
  BY <1>2 DEF Ranked

(* A step that leaves the links alone. *)
LEMMA RanksKept ==
  ASSUME Ranked, buddy_map' = buddy_map, \A p \in buddy_map : prev'[p] = prev[p]
  PROVE  Ranked'
<1>1. PICK rank \in [Page -> Nat] :
        \A p \in buddy_map : prev[p] # NULL => rank[prev[p]] < rank[p]
  BY DEF Ranked
<1>2. \A p \in buddy_map' : prev'[p] # NULL => rank[prev'[p]] < rank[p]
  BY <1>1
<1> QED
  BY <1>2 DEF Ranked

(* Every step keeps the ranks. *)
LEMMA RanksInductive ==
  ASSUME IInv, Ranked, NEW c \in Cores, Step(c) \/ Call(c)
  PROVE  Ranked'
<1>1. ListTypes /\ LinksOK
  BY DEF IInv, TypeOK, ListTypes
<1>2. CASE FreeBlockMerges(c)
  <2>1. BuddyOf(c) \in buddy_map /\ remove_buddy_list_entry(BuddyOf(c), order[c])
    BY <1>2 DEF FreeBlockMerges, CanMerge
  <2> QED
    BY <1>1, <2>1, RemoveKeepsRanks DEF remove_buddy_list_entry
<1>3. CASE FreeBlockInserts(c)
  <2>1. Working(c)
    BY <1>3 DEF FreeBlockInserts, Working
  <2>2. index[c] \in Page /\ order[c] \in Order /\ index[c] \notin buddy_map
    BY <2>1, WorkingBlock, BlockStarts
  <2> QED
    BY <1>1, <1>3, <2>2, PushKeepsRanks DEF FreeBlockInserts
<1>4. CASE AllocBlockPops(c)
  <2> DEFINE e == free_lists[order[c]]
  <2>1. order[c] \in Order /\ e # NULL
    BY <1>4 DEF AllocBlockPops
  <2>2. e \in buddy_map /\ prev[e] = NULL
    BY <1>1, <2>1 DEF LinksOK
  <2>3. /\ buddy_map' = buddy_map \ {e}
        /\ prev' = [p \in Page |-> IF p = next[e] THEN prev[e] ELSE prev[p]]
    BY <1>4, <2>2 DEF AllocBlockPops, pop_buddy_list_entry
  <2> HIDE DEF e
  <2> QED
    BY <1>1, <2>2, <2>3, RemoveKeepsRanks
<1>5. CASE AllocBlockSplits(c)
  BY <1>1, <1>5, SplitBlock, PushKeepsRanks DEF AllocBlockSplits
<1>6. CASE AllocBlockReturns(c)
  <2>1. Working(c) /\ order[c] = goal[c] /\ buddy_map' = buddy_map
    BY <1>6 DEF AllocBlockReturns, Working
  <2>2. \A p \in buddy_map : prev'[p] = prev[p]
    BY <1>6, <2>1, WorkingBlock DEF AllocBlockReturns, IInv, TypeOK
  <2> QED
    BY <2>1, <2>2, RanksKept
<1>7. CASE UNCHANGED lists
  BY <1>7, RanksKept DEF lists
<1> QED
  BY <1>2, <1>3, <1>4, <1>5, <1>6, <1>7, ListFrame

(* A list that alloc_block finds empty belongs to an order without free    *)
(* blocks.                                                                 *)
LEMMA EmptyListIsEmpty ==
  ASSUME IInv, Ranked, NEW p \in buddy_map
  PROVE  free_lists[entry_order[p]] # NULL
<1>1. PICK rank \in [Page -> Nat] :
        \A q \in buddy_map : prev[q] # NULL => rank[prev[q]] < rank[q]
  BY DEF Ranked
<1> DEFINE S == {rank[q] : q \in {r \in buddy_map : entry_order[r] = entry_order[p]}}
<1>2. S \in SUBSET Nat /\ rank[p] \in S
  BY SMTT(60) DEF IInv, TypeOK
<1>3. PICK m \in S : \A k \in S : m <= k
  BY <1>2, MinNat
<1>4. PICK q \in buddy_map : entry_order[q] = entry_order[p] /\ m = rank[q]
  OBVIOUS
<1>5. CASE prev[q] = NULL
  BY SMTT(60), <1>4, <1>5, Pointers DEF IInv, LinksOK, TypeOK
<1>6. CASE prev[q] # NULL
  <2>1. prev[q] \in buddy_map /\ entry_order[prev[q]] = entry_order[p]
    BY <1>4, <1>6 DEF IInv, LinksOK
  <2>2. rank[prev[q]] \in S /\ rank[prev[q]] < rank[q]
    BY <1>1, <1>6, <2>1
  <2>3. rank[q] <= rank[prev[q]]
    BY <1>3, <1>4, <2>2
  <2>4. rank[q] \in Nat /\ rank[prev[q]] \in Nat
    BY <1>2, <1>4, <2>2
  <2> QED
    BY SMTT(60), <2>2, <2>3, <2>4
<1> QED
  BY <1>5, <1>6

(* A function on the naturals can be defined by its first value and the     *)
(* step from one value to the next.                                        *)
LEMMA Iteration ==
  ASSUME NEW S, NEW a \in S, NEW g \in [S -> S]
  PROVE  \E f \in [Nat -> S] : f[0] = a /\ \A n \in Nat : f[n + 1] = g[f[n]]
<1> DEFINE Approx(n) == {h \in [0 .. n -> S] : h[0] = a /\ \A k \in 0 .. (n - 1) : h[k + 1] = g[h[k]]}
<1>1. \A n \in Nat : Approx(n) # {}
  <2> SUFFICES ASSUME NEW n0 \in Nat, Approx(n0) = {}
               PROVE  FALSE
    OBVIOUS
  <2> DEFINE Bad == {n \in Nat : Approx(n) = {}}
  <2>1. PICK m \in Bad : \A k \in Bad : m <= k
    <3>1. Bad \in SUBSET Nat /\ Bad # {}
      OBVIOUS
    <3> HIDE DEF Bad
    <3> QED
      BY <3>1, MinNat
  <2>2. m \in Nat /\ Approx(m) = {}
    BY <2>1
  <2>3. CASE m = 0
    <3>1. [k \in 0 .. 0 |-> a] \in Approx(0)
      BY SMTT(60)
    <3> QED
      BY <2>2, <2>3, <3>1
  <2>4. CASE m # 0
    <3>1. m - 1 \in Nat /\ ~ (m <= m - 1)
      BY SMTT(60), <2>2, <2>4
    <3>2. Approx(m - 1) # {}
      BY <2>1, <3>1
    <3>3. PICK h \in [0 .. (m - 1) -> S] :
             h[0] = a /\ \A k \in 0 .. (m - 1 - 1) : h[k + 1] = g[h[k]]
      BY <3>2
    <3> DEFINE e == [k \in 0 .. m |-> IF k = m THEN g[h[m - 1]] ELSE h[k]]
    <3>4. e \in [0 .. m -> S]
      BY SMTT(60), <2>2, <2>4
    <3>5. e[0] = a
      BY SMTT(60), <2>2, <2>4, <3>3
    <3>6. ASSUME NEW k \in 0 .. (m - 1)
          PROVE  e[k + 1] = g[e[k]]
      <4>1. CASE k = m - 1
        BY SMTT(60), <2>2, <2>4, <4>1
      <4>2. CASE k # m - 1
        <5>1. k \in 0 .. (m - 1 - 1) /\ k + 1 \in 0 .. m /\ k \in 0 .. m /\ k # m /\ k + 1 # m
          BY SMTT(60), <2>2, <2>4, <4>2
        <5> QED
          BY <3>3, <5>1
      <4> QED
        BY <4>1, <4>2
    <3> HIDE DEF e
    <3>7. e \in Approx(m)
      BY <3>4, <3>5, <3>6
    <3> QED
      BY <2>2, <3>7
  <2> QED
    BY <2>3, <2>4
<1>2. ASSUME NEW m \in Nat, NEW n \in Nat, NEW h \in Approx(m), NEW j \in Approx(n),
             NEW i0 \in Nat, i0 <= m, i0 <= n
      PROVE  h[i0] = j[i0]
  <2> SUFFICES ASSUME h[i0] # j[i0]
               PROVE  FALSE
    OBVIOUS
  <2> DEFINE Bad == {i \in Nat : i <= m /\ i <= n /\ h[i] # j[i]}
  <2>1. PICK i \in Bad : \A k \in Bad : i <= k
    <3>1. Bad \in SUBSET Nat /\ Bad # {}
      BY <1>2
    <3> HIDE DEF Bad
    <3> QED
      BY <3>1, MinNat
  <2>2. i \in Nat /\ i <= m /\ i <= n /\ h[i] # j[i]
    BY <2>1
  <2>3. i # 0
    BY <2>2
  <2>4. /\ i - 1 \in Nat /\ i - 1 <= m /\ i - 1 <= n /\ ~ (i <= i - 1)
        /\ i - 1 \in 0 .. (m - 1) /\ i - 1 \in 0 .. (n - 1) /\ i - 1 + 1 = i
    BY SMTT(60), <2>2, <2>3
  <2>5. h[i - 1] = j[i - 1]
    BY <2>1, <2>4
  <2>6. h[i] = g[h[i - 1]] /\ j[i] = g[j[i - 1]]
    <3>1. \A k \in 0 .. (m - 1) : h[k + 1] = g[h[k]]
      OBVIOUS
    <3>2. \A k \in 0 .. (n - 1) : j[k + 1] = g[j[k]]
      OBVIOUS
    <3>3. h[i - 1 + 1] = g[h[i - 1]] /\ j[i - 1 + 1] = g[j[i - 1]]
      BY <2>4, <3>1, <3>2
    <3> QED
      BY <2>4, <3>3
  <2> QED
    BY <2>2, <2>5, <2>6
<1> DEFINE pick(n) == CHOOSE h \in Approx(n) : TRUE
           f == [n \in Nat |-> pick(n)[n]]
<1>3. \A n \in Nat : pick(n) \in Approx(n)
  <2> HIDE DEF Approx
  <2> QED
    BY <1>1
<1> HIDE DEF pick
<1>4. \A n \in Nat : f[n] \in S
  BY SMTT(60), <1>3
<1>5. f[0] = a
  BY <1>3
<1>6. ASSUME NEW n \in Nat
      PROVE  f[n + 1] = g[f[n]]
  <2>1. /\ n + 1 \in Nat /\ n \in 0 .. (n + 1 - 1) /\ n <= n /\ n <= n + 1
    BY SMTT(60)
  <2>2. pick(n + 1) \in Approx(n + 1) /\ pick(n) \in Approx(n)
    BY <1>3, <2>1
  <2>3. pick(n + 1)[n + 1] = g[pick(n + 1)[n]]
    BY SMTT(60), <2>1, <2>2
  <2>4. pick(n)[n] = pick(n + 1)[n]
    <3> HIDE DEF Approx
    <3> QED
      BY <1>2, <2>1, <2>2
  <2> QED
    BY <2>1, <2>3, <2>4
<1>7. f \in [Nat -> S]
  BY <1>4
<1> HIDE DEF f
<1> QED
  BY <1>5, <1>6, <1>7

(* The free blocks of an order. *)
Nodes(o) == {p \in buddy_map : entry_order[p] = o}

(* The recursive definition in Chain has a solution: the walk starts at the *)
(* head and adds the successors of the nodes it has got to.                *)
LEMMA WalkDef ==
  ASSUME ListTypes, LinksOK, NEW o \in Order
  PROVE  \E walk \in [Nat -> SUBSET Nodes(o)] :
           /\ Chain(o) = walk[Cardinality(buddy_map)]
           /\ walk[0] = {free_lists[o]} \ {NULL}
           /\ \A n \in Nat : walk[n + 1] = walk[n] \cup ({next[p] : p \in walk[n]} \ {NULL})
<1> DEFINE first == {free_lists[o]} \ {NULL}
           After(T) == T \cup ({next[p] : p \in T} \ {NULL})
           Eq(w) == w = [n \in Nat |-> IF n = 0 THEN first ELSE After(w[n - 1])]
<1>1. first \in SUBSET Nodes(o)
  BY DEF LinksOK, Nodes
<1>2. ASSUME NEW T \in SUBSET Nodes(o)
      PROVE  After(T) \in SUBSET Nodes(o)
  BY SMTT(60) DEF LinksOK, Nodes
<1> DEFINE g == [T \in SUBSET Nodes(o) |-> After(T)]
<1>3. g \in [SUBSET Nodes(o) -> SUBSET Nodes(o)]
  BY <1>2
<1>4. PICK f \in [Nat -> SUBSET Nodes(o)] : f[0] = first /\ \A n \in Nat : f[n + 1] = g[f[n]]
  <2> DEFINE D == SUBSET Nodes(o)
  <2>1. first \in D /\ g \in [D -> D]
    BY <1>1, <1>3
  <2> HIDE DEF g, first, D
  <2>2. \E f \in [Nat -> D] : f[0] = first /\ \A n \in Nat : f[n + 1] = g[f[n]]
    BY SMTT(60), ZenonT(60), <2>1, Iteration
  <2> QED
    BY <2>2 DEF D
<1>5. \A n \in Nat : f[n + 1] = After(f[n])
  BY <1>4
<1> HIDE DEF g, After, first
<1>6. Eq(f)
  <2>1. ASSUME NEW n \in Nat
        PROVE  f[n] = IF n = 0 THEN first ELSE After(f[n - 1])
    <3>1. CASE n = 0
      BY <1>4, <3>1
    <3>2. CASE n # 0
      <4>1. n - 1 \in Nat /\ n - 1 + 1 = n
        BY SMTT(60), <3>2
      <4>2. f[n - 1 + 1] = After(f[n - 1])
        BY <1>5, <4>1
      <4> QED
        BY <3>2, <4>1, <4>2
    <3> QED
      BY <3>1, <3>2
  <2> QED
    BY <2>1
<1> DEFINE w == CHOOSE walk : Eq(walk)
<1>7. Chain(o) = w[Cardinality(buddy_map)]
  BY DEF Chain, After, first
<1>8. Eq(w)
  <2> HIDE DEF Eq
  <2> QED
    BY <1>6
<1> HIDE DEF w
<1>9. w[0] = first
  BY <1>8
<1>10. ASSUME NEW n \in Nat
       PROVE  w[n + 1] = After(w[n])
  <2>1. n + 1 \in Nat /\ n + 1 # 0 /\ n + 1 - 1 = n
    BY SMTT(60)
  <2>2. w[n + 1] = After(w[n + 1 - 1])
    BY SMTT(60), <1>8, <2>1
  <2> QED
    BY <2>1, <2>2
<1>11. ASSUME NEW n0 \in Nat
       PROVE  w[n0] \in SUBSET Nodes(o)
  <2> SUFFICES ASSUME w[n0] \notin SUBSET Nodes(o)
               PROVE  FALSE
    OBVIOUS
  <2> DEFINE Bad == {n \in Nat : w[n] \notin SUBSET Nodes(o)}
  <2>1. PICK m \in Bad : \A k \in Bad : m <= k
    <3>1. Bad \in SUBSET Nat /\ Bad # {}
      OBVIOUS
    <3> HIDE DEF Bad
    <3> QED
      BY <3>1, MinNat
  <2>2. m \in Nat /\ w[m] \notin SUBSET Nodes(o)
    BY <2>1
  <2>3. m # 0
    BY <1>1, <1>9, <2>2
  <2>4. m - 1 \in Nat /\ m - 1 + 1 = m /\ ~ (m <= m - 1)
    BY SMTT(60), <2>2, <2>3
  <2>5. w[m - 1] \in SUBSET Nodes(o)
    BY <2>1, <2>4
  <2>6. w[m - 1 + 1] = After(w[m - 1])
    BY <1>10, <2>4
  <2> QED
    BY <1>2, <2>2, <2>4, <2>5, <2>6
<1>12. w \in [Nat -> SUBSET Nodes(o)]
  <2>1. w = [n \in Nat |-> IF n = 0 THEN first ELSE After(w[n - 1])]
    BY <1>8
  <2>2. w = [n \in Nat |-> w[n]]
    BY <2>1
  <2> QED
    BY <1>11, <2>2
<1> QED
  BY <1>7, <1>9, <1>10, <1>12 DEF first, After

(* A walk of n links that could still go on has seen more than n nodes. *)
LEMMA WalkGrows ==
  ASSUME NEW N, IsFiniteSet(N), NEW walk \in [Nat -> SUBSET N], NEW a,
         walk[0] = {a} \ {NULL},
         \A n \in Nat : walk[n + 1] = walk[n] \cup ({next[p] : p \in walk[n]} \ {NULL}),
         NEW n0 \in Nat, NEW p0 \in walk[n0], next[p0] # NULL, next[p0] \notin walk[n0]
  PROVE  Cardinality(walk[n0]) > n0
<1> DEFINE Open(n) == \E p \in walk[n] : next[p] # NULL /\ next[p] \notin walk[n]
           Bad == {n \in Nat : Open(n) /\ ~ (Cardinality(walk[n]) > n)}
<1> SUFFICES ASSUME ~ (Cardinality(walk[n0]) > n0)
             PROVE  FALSE
  OBVIOUS
<1>1. PICK m \in Bad : \A k \in Bad : m <= k
  <2>1. Bad \in SUBSET Nat /\ n0 \in Bad
    OBVIOUS
  <2> HIDE DEF Bad
  <2> QED
    BY <2>1, MinNat
<1>2. m \in Nat /\ Open(m) /\ ~ (Cardinality(walk[m]) > m)
  BY <1>1
<1>3. \A n \in Nat : IsFiniteSet(walk[n]) /\ Cardinality(walk[n]) \in Nat
  BY FS_Subset, FS_CardinalityType
<1>4. CASE m = 0
  <2>1. walk[0] = {a}
    BY <1>2, <1>4
  <2>2. Cardinality({a}) = 1
    BY FS_Singleton
  <2>3. Cardinality(walk[m]) = 1
    BY <1>4, <2>1, <2>2
  <2> HIDE DEF Bad, Open
  <2> QED
    BY SMTT(60), <1>2, <1>4, <2>3
<1>5. CASE m # 0
  <2>1. m - 1 \in Nat /\ m - 1 + 1 = m /\ ~ (m <= m - 1)
    BY SMTT(60), <1>2, <1>5
  <2>2. walk[m] = walk[m - 1] \cup ({next[p] : p \in walk[m - 1]} \ {NULL})
    <3>1. walk[m - 1 + 1] = walk[m - 1] \cup ({next[p] : p \in walk[m - 1]} \ {NULL})
      BY <2>1
    <3> QED
      BY <2>1, <3>1
  <2>3. Open(m - 1)
    <3> SUFFICES ASSUME ~ Open(m - 1)
                 PROVE  FALSE
      OBVIOUS
    <3>0. \A p \in walk[m - 1] : next[p] = NULL \/ next[p] \in walk[m - 1]
      OBVIOUS
    <3>1. walk[m] = walk[m - 1]
      <4> HIDE DEF Open
      <4> QED
        BY SMTT(60), <2>2, <3>0
    <3> QED
      BY <1>2, <3>0, <3>1
  <2>4. Cardinality(walk[m - 1]) > m - 1
    BY <1>1, <2>1, <2>3
  <2>5. PICK p \in walk[m - 1] : next[p] # NULL /\ next[p] \notin walk[m - 1]
    BY <2>3
  <2>6. walk[m - 1] \cup {next[p]} \subseteq walk[m]
    BY <2>2, <2>5
  <2>7. Cardinality(walk[m - 1] \cup {next[p]}) = Cardinality(walk[m - 1]) + 1
    <3>1. IsFiniteSet(walk[m - 1])
      BY <1>3, <2>1
    <3>2. \A T, x : IsFiniteSet(T) /\ x \notin T => Cardinality(T \cup {x}) = Cardinality(T) + 1
      BY FS_AddElement
    <3> QED
      BY <2>5, <3>1, <3>2
  <2>8. Cardinality(walk[m - 1] \cup {next[p]}) <= Cardinality(walk[m])
    BY <1>2, <1>3, <2>6, FS_Subset
  <2>9. Cardinality(walk[m - 1]) \in Nat /\ Cardinality(walk[m]) \in Nat
    BY <1>2, <1>3, <2>1
  <2> QED
    BY SMTT(60), <1>2, <2>4, <2>7, <2>8, <2>9
<1> QED
  BY <1>4, <1>5

(* So the walk has got to every node by the time Chain looks at it: the    *)
(* node of the lowest rank that it missed is the head or has a predecessor *)
(* that it did not miss.                                                   *)
LEMMA ListsAreWhole ==
  ASSUME IInv, Ranked
  PROVE  EveryBlockListed
<1>1. ListTypes /\ LinksOK
  BY DEF IInv, TypeOK, ListTypes
<1>2. SUFFICES ASSUME NEW o \in Order
               PROVE  Chain(o) = Nodes(o)
  BY DEF EveryBlockListed, Nodes
<1>3. PICK walk \in [Nat -> SUBSET Nodes(o)] :
           /\ Chain(o) = walk[Cardinality(buddy_map)]
           /\ walk[0] = {free_lists[o]} \ {NULL}
           /\ \A n \in Nat : walk[n + 1] = walk[n] \cup ({next[p] : p \in walk[n]} \ {NULL})
  BY <1>1, WalkDef
<1>4. IsFiniteSet(buddy_map) /\ Cardinality(buddy_map) \in Nat
  <2>1. IsFiniteSet(Page)
    BY SMTT(60), SizeAssumption, FS_Interval DEF Page
  <2> QED
    BY <1>1, <2>1, FS_Subset, FS_CardinalityType DEF ListTypes
<1>5. IsFiniteSet(Nodes(o)) /\ Cardinality(Nodes(o)) <= Cardinality(buddy_map)
  <2>1. Nodes(o) \subseteq buddy_map
    BY DEF Nodes
  <2> QED
    BY <1>4, <2>1, FS_Subset
<1> DEFINE C == Chain(o)
<1>6. C \subseteq Nodes(o)
  BY <1>3, <1>4
<1>7. ASSUME NEW p \in C, next[p] # NULL
      PROVE  next[p] \in C
  <2> SUFFICES ASSUME next[p] \notin C
               PROVE  FALSE
    OBVIOUS
  <2>1. Cardinality(C) > Cardinality(buddy_map)
    BY <1>3, <1>4, <1>5, <1>7, WalkGrows
  <2>2. Cardinality(C) <= Cardinality(Nodes(o)) /\ Cardinality(C) \in Nat /\ Cardinality(Nodes(o)) \in Nat
    BY <1>5, <1>6, FS_Subset, FS_CardinalityType
  <2> QED
    BY SMTT(60), <1>4, <1>5, <2>1, <2>2
<1>8. \A n0 \in Nat : walk[0] \subseteq walk[n0]
  <2> SUFFICES ASSUME NEW n0 \in Nat, ~ (walk[0] \subseteq walk[n0])
               PROVE  FALSE
    OBVIOUS
  <2> DEFINE Bad == {n \in Nat : ~ (walk[0] \subseteq walk[n])}
  <2>1. PICK m \in Bad : \A k \in Bad : m <= k
    <3>1. Bad \in SUBSET Nat /\ Bad # {}
      OBVIOUS
    <3> HIDE DEF Bad
    <3> QED
      BY <3>1, MinNat
  <2>2. m \in Nat /\ m # 0 /\ ~ (walk[0] \subseteq walk[m])
    BY <2>1
  <2>3. m - 1 \in Nat /\ m - 1 + 1 = m /\ ~ (m <= m - 1)
    BY SMTT(60), <2>2
  <2>4. walk[0] \subseteq walk[m - 1] /\ walk[m - 1] \subseteq walk[m - 1 + 1]
    BY <1>3, <2>1, <2>3
  <2> QED
    BY <2>2, <2>3, <2>4
<1>9. free_lists[o] # NULL => free_lists[o] \in C
  BY SMTT(60), <1>3, <1>4, <1>8
<1>10. PICK rank \in [Page -> Nat] :
        \A q \in buddy_map : prev[q] # NULL => rank[prev[q]] < rank[q]
  BY DEF Ranked
<1> DEFINE Missed == Nodes(o) \ C
           S == {rank[q] : q \in Missed}
<1> SUFFICES ASSUME Missed # {}
             PROVE  FALSE
  BY <1>6
<1> HIDE DEF C
<1>11. Missed \subseteq buddy_map /\ Missed \subseteq Page
  BY <1>1 DEF Nodes, ListTypes
<1>12. S \in SUBSET Nat /\ S # {}
  BY <1>11
<1>13. PICK m \in S : \A k \in S : m <= k
  <2> HIDE DEF S
  <2> QED
    BY <1>12, MinNat
<1>14. PICK q \in Missed : m = rank[q]
  OBVIOUS
<1>15. q \in buddy_map /\ entry_order[q] = o /\ q \notin C /\ q \in Page
  BY <1>11, <1>14 DEF Nodes
<1>16. prev[q] # NULL
  BY SMTT(60), <1>1, <1>9, <1>15, Pointers DEF LinksOK
<1>17. prev[q] \in Nodes(o) /\ next[prev[q]] = q /\ q # NULL
  BY <1>1, <1>15, <1>16, Pointers DEF LinksOK, Nodes
<1>18. prev[q] \in Missed
  BY <1>7, <1>15, <1>17
<1>19. rank[prev[q]] \in S /\ rank[prev[q]] < rank[q] /\ rank[q] \in Nat /\ rank[prev[q]] \in Nat
  BY <1>10, <1>11, <1>15, <1>16, <1>18
<1>20. rank[q] <= rank[prev[q]]
  BY <1>13, <1>14, <1>19
<1> QED
  BY SMTT(60), <1>19, <1>20

-----------------------------------------------------------------------------
(* Out of memory.                                                          *)

(* alloc_block has found no free block in the orders it has climbed past,  *)
(* and only a request that is not an order of the lists leaves them.       *)
Climbed ==
  \A c \in Cores :
    /\ pc[c] = "alloc_block" =>
         /\ order[c] \in Order \/ goal[c] = NoOrder
         /\ \A p \in buddy_map : entry_order[p] < goal[c] \/ entry_order[p] >= order[c]
    /\ pc[c] = "oom" =>
         /\ goal[c] \in Order
         /\ \A p \in buddy_map : entry_order[p] < goal[c]
    /\ pc[c] = "oob" /\ op[c] = "alloc" => goal[c] = NoOrder

(* The only steps after which a core climbs, or has panicked. *)
LEMMA ClimbingSteps ==
  ASSUME IInv, NEW c \in Cores, Step(c) \/ Call(c),
         pc'[c] \in {"alloc_block", "oom", "oob"}
  PROVE  \/ AllocNext(c) \/ AllocBlockClimbs(c) \/ AllocBlockPanics(c)
         \/ FreeBlockPanics(c) \/ PanicLoop(c)
<1> USE DEF IInv, TypeOK, Goto
<1>1. ~ New(c) /\ ~ NewPanics(c) /\ ~ NextSegment(c)
  BY DEF New, NewPanics, NextSegment
<1>2. ~ try_lock(c) /\ ~ unlock(c)
  BY DEF try_lock, unlock
<1>3. ~ FreeBlockMerges(c) /\ ~ FreeBlockInserts(c)
  BY DEF FreeBlockMerges, FreeBlockInserts, Return
<1>4. ~ AllocBlockPops(c) /\ ~ AllocBlockSplits(c) /\ ~ AllocBlockReturns(c)
  BY DEF AllocBlockPops, AllocBlockSplits, AllocBlockReturns, Return
<1>5. ~ add_region(c) /\ ~ FreeNext(c)
  BY DEF add_region, FreeNext
<1>6. ~ Call(c)
  BY DEF Call, free_page, free_linear_pages, free_pages, CallFree,
                    alloc_page, alloc_linear_pages, alloc_pages, CallAlloc
<1> QED
  BY <1>1, <1>2, <1>3, <1>4, <1>5, <1>6 DEF Step, free_block, alloc_block

(* The conjunct of Climbed for a core that is not the one taking the step. *)
LEMMA ClimbedOthers ==
  ASSUME IInv, Climbed, NEW c \in Cores, Step(c) \/ Call(c), NEW d \in Cores, d # c
  PROVE  /\ pc'[d] = "alloc_block" =>
              /\ order'[d] \in Order \/ goal'[d] = NoOrder
              /\ \A p \in buddy_map' : entry_order'[p] < goal'[d] \/ entry_order'[p] >= order'[d]
         /\ pc'[d] = "oom" =>
              /\ goal'[d] \in Order
              /\ \A p \in buddy_map' : entry_order'[p] < goal'[d]
         /\ pc'[d] = "oob" /\ op'[d] = "alloc" => goal'[d] = NoOrder
<1>1. pc'[d] = pc[d] /\ op'[d] = op[d] /\ goal'[d] = goal[d] /\ order'[d] = order[d]
  BY OthersStay
<1>2. ASSUME Holds(d)
      PROVE  /\ buddy_map' \subseteq buddy_map
             /\ \A p \in buddy_map : entry_order'[p] = entry_order[p]
  <2>1. ~ Holds(c)
    BY <1>2 DEF IInv, LockOK
  <2>2. ~ FreeBlockInserts(c) /\ ~ AllocBlockSplits(c)
    BY <2>1 DEF FreeBlockInserts, AllocBlockSplits, Holds, InLock
  <2> QED
    BY <2>2, FreeBlocksMove
<1>3. CASE pc[d] = "alloc_block"
  <2>1. Holds(d)
    BY <1>3 DEF Holds, InLock
  <2>2. /\ order[d] \in Order \/ goal[d] = NoOrder
        /\ \A p \in buddy_map : entry_order[p] < goal[d] \/ entry_order[p] >= order[d]
    BY <1>3 DEF Climbed
  <2>3. \A p \in buddy_map' : entry_order'[p] < goal[d] \/ entry_order'[p] >= order[d]
    BY <1>2, <2>1, <2>2
  <2> QED
    BY <1>1, <1>3, <2>2, <2>3
<1>4. CASE pc[d] = "oom"
  <2>1. Holds(d)
    BY <1>4 DEF Holds, InLock
  <2>2. goal[d] \in Order /\ \A p \in buddy_map : entry_order[p] < goal[d]
    BY <1>4 DEF Climbed
  <2>3. \A p \in buddy_map' : entry_order'[p] < goal[d]
    BY <1>2, <2>1, <2>2
  <2> QED
    BY <1>1, <1>4, <2>2, <2>3
<1>5. CASE pc[d] \notin {"alloc_block", "oom"}
  BY <1>1, <1>5 DEF Climbed
<1> QED
  BY <1>3, <1>4, <1>5

(* Every step keeps Climbed. *)
LEMMA ClimbedInductive ==
  ASSUME IInv, Ranked, Climbed, NEW c \in Cores, Step(c) \/ Call(c)
  PROVE  Climbed'
<1> DEFINE Self ==
      /\ pc'[c] = "alloc_block" =>
           /\ order'[c] \in Order \/ goal'[c] = NoOrder
           /\ \A p \in buddy_map' : entry_order'[p] < goal'[c] \/ entry_order'[p] >= order'[c]
      /\ pc'[c] = "oom" =>
           /\ goal'[c] \in Order
           /\ \A p \in buddy_map' : entry_order'[p] < goal'[c]
      /\ pc'[c] = "oob" /\ op'[c] = "alloc" => goal'[c] = NoOrder
<1> SUFFICES Self
  <2>1. ASSUME Self
        PROVE  \A d \in Cores :
          /\ pc'[d] = "alloc_block" =>
               /\ order'[d] \in Order \/ goal'[d] = NoOrder
               /\ \A p \in buddy_map' : entry_order'[p] < goal'[d] \/ entry_order'[p] >= order'[d]
          /\ pc'[d] = "oom" =>
               /\ goal'[d] \in Order
               /\ \A p \in buddy_map' : entry_order'[p] < goal'[d]
          /\ pc'[d] = "oob" /\ op'[d] = "alloc" => goal'[d] = NoOrder
    BY <2>1, ClimbedOthers
  <2> QED
    BY <2>1 DEF Climbed
<1>1. goal[c] \in 0 .. NoOrder /\ order[c] \in 0 .. NoOrder
  BY DEF IInv, TypeOK
<1>2. \A p \in buddy_map : entry_order[p] \in Nat
  BY FreeBlockFacts
<1>3. CASE pc'[c] \notin {"alloc_block", "oom", "oob"}
  BY <1>3
<1>4. CASE AllocNext(c)
  <2>1. UNCHANGED <<goal, buddy_map, entry_order>>
    BY <1>4 DEF AllocNext, lists
  <2>2. \/ pc'[c] = "alloc_block" /\ order'[c] = goal[c]
        \/ pc'[c] = "unlock"
    BY <1>4 DEF AllocNext, Goto, IInv, TypeOK
  <2>3. goal[c] \in Order \/ goal[c] = NoOrder
    BY SMTT(60), <1>1, MaxOrderAssumption DEF Order, NoOrder
  <2>4. \A p \in buddy_map : entry_order[p] < goal[c] \/ entry_order[p] >= goal[c]
    BY SMTT(60), <1>1, <1>2, MaxOrderAssumption DEF NoOrder
  <2> QED
    BY <2>1, <2>2, <2>3, <2>4
<1>5. CASE AllocBlockClimbs(c)
  <2>1. UNCHANGED <<goal, buddy_map, entry_order, op>>
    BY <1>5 DEF AllocBlockClimbs, lists, call
  <2>2. pc[c] = "alloc_block" /\ order[c] \in Order /\ free_lists[order[c]] = NULL
    BY <1>5 DEF AllocBlockClimbs
  <2>3. ASSUME NEW p \in buddy_map
        PROVE  entry_order[p] < goal[c] \/ entry_order[p] >= order[c] + 1
    <3>1. entry_order[p] # order[c]
      BY <2>2, EmptyListIsEmpty
    <3>2. entry_order[p] < goal[c] \/ entry_order[p] >= order[c]
      BY <2>2 DEF Climbed
    <3> QED
      BY SMTT(60), <1>1, <1>2, <3>1, <3>2, MaxOrderAssumption DEF NoOrder
  <2>4. CASE order[c] = MAX_ORDER
    <3>1. pc'[c] = "oom"
      BY <1>5, <2>4 DEF AllocBlockClimbs, Goto, IInv, TypeOK
    <3>2. goal[c] \in Order
      BY SMTT(60), <1>1, <2>2, <2>4, MaxOrderAssumption DEF IInv, CallOK, Order, NoOrder
    <3>3. ASSUME NEW p \in buddy_map PROVE entry_order[p] < goal[c]
      <4>1. entry_order[p] \in Order
        BY FreeBlockFacts
      <4> QED
        BY SMTT(60), <2>3, <2>4, <4>1, MaxOrderAssumption DEF Order
    <3> QED
      BY <2>1, <3>1, <3>2, <3>3
  <2>5. CASE order[c] # MAX_ORDER
    <3>1. pc'[c] = "alloc_block" /\ order'[c] = order[c] + 1
      BY <1>5, <2>2, <2>5 DEF AllocBlockClimbs, IInv, TypeOK
    <3>2. order[c] + 1 \in Order
      BY SMTT(60), <2>2, <2>5, MaxOrderAssumption DEF Order
    <3> QED
      BY <2>1, <2>3, <3>1, <3>2
  <2> QED
    BY <2>4, <2>5
<1>6. CASE AllocBlockPanics(c)
  <2>1. UNCHANGED <<goal, op>> /\ pc'[c] = "oob" /\ pc[c] = "alloc_block" /\ order[c] \notin Order
    BY <1>6 DEF AllocBlockPanics, Goto, call, IInv, TypeOK
  <2>2. goal[c] = NoOrder
    BY <2>1 DEF Climbed
  <2> QED
    BY <2>1, <2>2
<1>7. CASE FreeBlockPanics(c)
  <2>1. op' = op /\ pc'[c] = "oob" /\ pc[c] = "free_block"
    BY <1>7 DEF FreeBlockPanics, Goto, call, IInv, TypeOK
  <2>2. op[c] # "alloc"
    BY <2>1 DEF IInv, CallOK
  <2> QED
    BY <2>1, <2>2
<1>8. CASE PanicLoop(c)
  <2>1. UNCHANGED <<pc, op, goal, order, buddy_map, entry_order>>
    BY <1>8 DEF PanicLoop, vars, lists, call
  <2> QED
    BY <2>1 DEF Climbed
<1> QED
  BY <1>3, <1>4, <1>5, <1>6, <1>7, <1>8, ClimbingSteps

(* Where buddies are merged, an aligned block of free pages only lies in    *)
(* one free block: take the smallest free block inside it; its buddy is     *)
(* free as well, in a block that is neither smaller nor larger.             *)
LEMMA FreePagesAreOneBlock ==
  ASSUME IInv, FullyMerged, NEW i \in Nat, NEW g \in Order, Aligned(i, g),
         \A x \in Block(i, g) : \E q \in buddy_map : x \in FreeBlock(q)
  PROVE  \E q \in buddy_map : entry_order[q] >= g /\ Block(i, g) \subseteq FreeBlock(q)
<1>1. g \in Nat /\ g <= MAX_ORDER
  BY SMTT(60), MaxOrderAssumption DEF Order
<1>2. i \in Block(i, g)
  BY <1>1, BlockStarts
<1>3. SUFFICES ASSUME \A q \in buddy_map :
                        ~ (entry_order[q] >= g /\ Block(i, g) \subseteq FreeBlock(q))
               PROVE  FALSE
  OBVIOUS
<1>4. ASSUME NEW q \in buddy_map, FreeBlock(q) \cap Block(i, g) # {}
      PROVE  entry_order[q] < g /\ FreeBlock(q) \subseteq Block(i, g)
  <2>1. /\ q \in Nat /\ entry_order[q] \in Nat /\ Aligned(q, entry_order[q])
        /\ FreeBlock(q) = Block(q, entry_order[q])
    BY FreeBlockFacts DEF FreeBlock
  <2>2. Block(i, g) \cap Block(q, entry_order[q]) # {}
    BY <1>4, <2>1
  <2>3. CASE entry_order[q] >= g
    <3>1. Block(i, g) \subseteq Block(q, entry_order[q])
      BY SMTT(60), <1>1, <2>1, <2>2, <2>3, BlocksNest
    <3> QED
      BY <1>3, <2>1, <2>3, <3>1
  <2>4. CASE entry_order[q] < g
    <3>1. Block(q, entry_order[q]) \subseteq Block(i, g)
      BY SMTT(60), <1>1, <2>1, <2>2, <2>4, BlocksNest
    <3> QED
      BY <2>1, <2>4, <3>1
  <2> QED
    BY SMTT(60), <1>1, <2>1, <2>3, <2>4
<1> DEFINE Inside == {q \in buddy_map : FreeBlock(q) \subseteq Block(i, g)}
           S == {entry_order[q] : q \in Inside}
<1>5. S \in SUBSET Nat /\ S # {}
  <2>1. PICK q \in buddy_map : i \in FreeBlock(q)
    BY <1>2
  <2>2. q \in Inside
    BY <1>2, <1>4, <2>1
  <2>3. \A r \in buddy_map : entry_order[r] \in Nat
    BY FreeBlockFacts
  <2> QED
    BY <2>2, <2>3
<1>6. PICK m \in S : \A k \in S : m <= k
  BY <1>5, MinNat
<1>7. PICK q \in Inside : m = entry_order[q]
  OBVIOUS
<1> DEFINE b == get_buddy_index(q, m)
           j == get_combined_index(q, m)
<1>8. /\ q \in buddy_map /\ q \in Nat /\ m \in Nat /\ Aligned(q, m)
      /\ FreeBlock(q) = Block(q, m) /\ q \in FreeBlock(q)
  BY <1>7, FreeBlockFacts DEF FreeBlock
<1>9. m < g
  <2>1. FreeBlock(q) \cap Block(i, g) # {}
    BY <1>7, <1>8
  <2> QED
    BY <1>4, <1>7, <1>8, <2>1
<1>10. /\ b \in Nat /\ b # q /\ Aligned(b, m)
       /\ j \in Nat /\ Aligned(j, m + 1)
       /\ Block(j, m + 1) = Block(q, m) \cup Block(b, m)
  BY <1>8, MergeIsExact
<1>11. b \in Block(b, m)
  BY <1>8, <1>10, BlockStarts
<1> HIDE DEF b, j, S, Inside
<1>12. Block(j, m + 1) \subseteq Block(i, g)
  <2>1. q \in Block(j, m + 1) /\ q \in Block(i, g)
    BY <1>7, <1>8, <1>10 DEF Inside
  <2>2. m + 1 \in Nat /\ m + 1 <= g
    BY SMTT(60), <1>1, <1>8, <1>9
  <2>3. Block(j, m + 1) \cap Block(i, g) # {}
    BY <2>1
  <2> QED
    BY SMTT(60), <1>1, <1>10, <2>2, <2>3, BlocksNest
<1>13. PICK r \in buddy_map : b \in FreeBlock(r)
  BY <1>10, <1>11, <1>12
<1>14. /\ r \in Nat /\ entry_order[r] \in Nat /\ Aligned(r, entry_order[r])
       /\ FreeBlock(r) = Block(r, entry_order[r])
  BY FreeBlockFacts DEF FreeBlock
<1>15. entry_order[r] >= m
  <2>1. FreeBlock(r) \cap Block(i, g) # {}
    BY <1>10, <1>11, <1>12, <1>13
  <2>2. r \in Inside
    BY <1>4, <2>1 DEF Inside
  <2>3. entry_order[r] \in S
    BY <2>2 DEF S
  <2> QED
    BY <1>6, <2>3
<1>16. CASE entry_order[r] = m
  <2>1. Block(r, m) \cap Block(b, m) # {}
    BY <1>11, <1>13, <1>14, <1>16
  <2>2. Block(r, m) \subseteq Block(b, m) /\ Block(b, m) \subseteq Block(r, m)
    BY SMTT(60), <1>8, <1>10, <1>14, <1>16, <2>1, BlocksNest
  <2>3. r \in Block(b, m) /\ b \in Block(r, m)
    BY <1>8, <1>11, <1>14, <2>2, BlockStarts
  <2>4. r = b
    BY SMTT(60), <1>8, <1>10, <1>14, <2>3, Pow2Nat DEF Block
  <2>5. m < MAX_ORDER
    BY SMTT(60), <1>1, <1>8, <1>9, MaxOrderAssumption
  <2>6. b \in buddy_map => entry_order[b] # m
    BY <1>7, <1>8, <2>5 DEF FullyMerged, b
  <2> QED
    BY <1>16, <2>4, <2>6
<1>17. CASE entry_order[r] > m
  <2>1. m + 1 <= entry_order[r] /\ m + 1 \in Nat
    BY SMTT(60), <1>8, <1>14, <1>17
  <2>2. Block(j, m + 1) \cap Block(r, entry_order[r]) # {}
    BY <1>10, <1>11, <1>13, <1>14
  <2>3. Block(j, m + 1) \subseteq Block(r, entry_order[r])
    BY SMTT(60), <1>10, <1>14, <2>1, <2>2, BlocksNest
  <2>4. q \in FreeBlock(r) /\ q \in FreeBlock(q)
    BY <1>8, <1>10, <1>14, <2>3
  <2>5. r = q
    BY <1>8, <2>4 DEF IInv, OneOwner
  <2> QED
    BY SMTT(60), <1>7, <1>8, <1>17, <2>5
<1> QED
  BY SMTT(60), <1>8, <1>14, <1>15, <1>16, <1>17

(* The memory of the map is made of pages. *)
LEMMA MemoryPages == IInv => Memory \subseteq Page
<1> SUFFICES ASSUME IInv, NEW x \in Memory PROVE x \in Page
  OBVIOUS
<1>1. PICK i \in DOMAIN memory_map : x \in Pages(memory_map[i])
  BY DEF Memory
<1> QED
  BY <1>1, SegmentFacts

(* When alloc_block gives up, no aligned block of the requested size is     *)
(* free.                                                                   *)
LEMMA OutOfMemory == IInv /\ NothingLost /\ FullyMerged /\ Climbed => OutOfMemoryIsReal
<1> SUFFICES ASSUME IInv, NothingLost, FullyMerged, Climbed,
                    NEW c \in Cores, pc[c] = "oom", NEW p \in Memory,
                    Aligned(p, goal[c]), Block(p, goal[c]) \subseteq Memory \ used
             PROVE  FALSE
  BY DEF OutOfMemoryIsReal
<1>1. goal[c] \in Order /\ \A q \in buddy_map : entry_order[q] < goal[c]
  BY DEF Climbed
<1>2. \A d \in Cores : ~ Working(d)
  <2>1. Holds(c) /\ ~ Working(c)
    BY DEF Holds, Working, InLock
  <2> QED
    BY <2>1, OnlyWorker
<1>3. ASSUME NEW x \in Block(p, goal[c])
      PROVE  \E q \in buddy_map : x \in FreeBlock(q)
  <2>1. x \in Memory /\ x \notin used
    OBVIOUS
  <2>2. \E q \in buddy_map : x \in Block(q, entry_order[q])
    BY <1>2, <2>1, LostPages DEF Accounted
  <2> QED
    BY <2>2 DEF FreeBlock
<1>4. p \in Nat
  BY MemoryPages, PageNat
<1>5. PICK q \in buddy_map : entry_order[q] >= goal[c]
  BY <1>1, <1>3, <1>4, FreePagesAreOneBlock
<1>6. entry_order[q] \in Nat /\ goal[c] \in Nat
  BY <1>1, FreeBlockFacts, OrderNat
<1> QED
  BY SMTT(60), <1>1, <1>5, <1>6

-----------------------------------------------------------------------------
(* The bitmap is long enough.                                              *)

InBounds(i, o) == o < MAX_ORDER => get_buddy_index(i, o) < map_bits

(* While the map is added, the buddy of every free block has a bit; after  *)
(* that, the buddy of every block that can be made of the memory has one.  *)
BoundsOK ==
  /\ \A x \in Memory : x < map_bits
  /\ ~ instance => \A p \in buddy_map : InBounds(p, entry_order[p])
  /\ instance => \A i \in Memory, o \in Order :
       Aligned(i, o) /\ Block(i, o) \subseteq Memory => InBounds(i, o)

(* While the map is added, only the pages that are still to be added are   *)
(* in use; an add_region() that is over has added all of its pages.        *)
AddedAll ==
  \/ instance
  \/ \E c \in Cores : pc[c] \in {"new", "expect"}
  \/ /\ \A x \in used :
          \/ x \in RegionPages
          \/ \E i \in DOMAIN memory_map :
               i >= seg /\ IsFree(memory_map[i]) /\ x \in Pages(memory_map[i])
     /\ \A c \in Cores : pc[c] \in {"segments", "unlock"} => region.page_count = 0

(* Rounding up covers what is divided. *)
LEMMA CeilDivCovers ==
  ASSUME NEW a \in Nat, NEW b \in Nat \ {0}
  PROVE  CeilDiv(a, b) * b >= a
<1> DEFINE x == a + b - 1
<1>1. x \in Nat /\ b \in Nat /\ b >= 1
  BY SMTT(60)
<1> HIDE DEF x
<1>2. x % b < b /\ x % b \in Nat /\ x \div b \in Nat /\ x = (x \div b) * b + (x % b)
  BY <1>1, DivMod
<1>3. (x \div b) * b \in Nat
  BY SMTT(60), <1>1, <1>2
<1>4. (x \div b) * b >= a
  BY SMTT(60), <1>1, <1>2, <1>3 DEF x
<1> QED
  BY <1>4 DEF CeilDiv, x

(* new() makes the bitmap long enough for the last page of the map. *)
LEMMA NewCovers ==
  ASSUME IInv, NEW c \in Cores, New(c)
  PROVE  \A x \in Memory' : x < map_bits'
<1>1. PICK last \in DOMAIN memory_map :
        /\ \A i \in DOMAIN memory_map : End(memory_map[i]) <= End(memory_map[last])
        /\ map_bits' = CeilDiv(End(memory_map[last]), WORD_BITS) * WORD_BITS
  BY DEF New
<1> DEFINE n == End(memory_map[last])
<1>2. n \in Nat /\ n <= map_bits' /\ map_bits' \in Nat
  <2>1. n \in Nat
    BY SegmentFacts
  <2> HIDE DEF n
  <2>2. map_bits' = CeilDiv(n, WORD_BITS) * WORD_BITS
    BY <1>1 DEF n
  <2>3. CeilDiv(n, WORD_BITS) * WORD_BITS >= n
    BY <2>1, CeilDivCovers, SizeAssumption
  <2> QED
    BY <2>1, <2>2, <2>3, NewCarves
<1>3. ASSUME NEW x \in Memory' PROVE x < map_bits'
  <2>1. PICK i \in DOMAIN memory_map' : x \in Pages(memory_map'[i])
    BY DEF Memory
  <2>2. i \in DOMAIN memory_map /\ x \in Pages(memory_map[i])
    BY <2>1, NewCarves
  <2>3. /\ memory_map[i].start \in Nat /\ End(memory_map[i]) \in Nat
        /\ End(memory_map[i]) <= n
    BY <1>1, <2>2, SegmentFacts
  <2>4. x \in Nat /\ x < End(memory_map[i])
    BY SMTT(60), <2>2, <2>3 DEF Pages
  <2> HIDE DEF n
  <2> QED
    BY SMTT(60), <1>2, <2>3, <2>4
<1> QED
  BY <1>3

(* INSTANCE is written once. *)
LEMMA InstanceStays ==
  ASSUME IInv, instance, NEW c \in Cores, Step(c) \/ Call(c)
  PROVE  instance'
<1>1. ~ New(c) /\ ~ NewPanics(c) /\ ~ NextSegment(c)
  BY DEF IInv, BootOK, New, NewPanics, NextSegment
<1>2. CASE Step(c)
  BY <1>1, <1>2 DEF Step, try_lock, unlock, PanicLoop, vars,
     free_block, FreeBlockPanics, FreeBlockMerges, FreeBlockInserts,
     alloc_block, AllocBlockClimbs, AllocBlockPanics, AllocBlockPops,
     AllocBlockSplits, AllocBlockReturns, add_region, FreeNext, AllocNext, boot
<1>3. CASE Call(c)
  BY <1>3 DEF Call, free_page, free_linear_pages, free_pages, CallFree,
     alloc_page, alloc_linear_pages, alloc_pages, CallAlloc, boot
<1> QED
  BY <1>2, <1>3

(* Every step keeps AddedAll. *)
LEMMA AddedInductive ==
  ASSUME IInv, AddedAll, NEW c \in Cores, Step(c) \/ Call(c)
  PROVE  AddedAll'
<1>1. CASE instance
  <2>1. instance'
    BY <1>1, InstanceStays
  <2> QED
    BY <2>1 DEF AddedAll
<1>2. CASE ~ instance /\ instance'
  BY <1>2 DEF AddedAll
<1>3. CASE ~ instance /\ ~ instance' /\ pc'[c] = "expect"
  BY <1>3 DEF AddedAll
<1> DEFINE Rest == \A x \in used :
                     \/ x \in RegionPages
                     \/ \E i \in DOMAIN memory_map :
                          i >= seg /\ IsFree(memory_map[i]) /\ x \in Pages(memory_map[i])
           Over == pc'[c] \in {"segments", "unlock"} => region'.page_count = 0
<1>4. CASE ~ instance /\ ~ instance' /\ pc'[c] # "expect"
  <2>1. \A d \in Cores : d # c => pc[d] = "idle" /\ pc'[d] = "idle"
    BY <1>4, BootAlone
  <2>2. SUFFICES Rest' /\ Over
    <3>1. ASSUME Over, NEW d \in Cores, pc'[d] \in {"segments", "unlock"}
          PROVE  region'.page_count = 0
      BY <2>1, <3>1
    <3> QED
      BY <3>1 DEF AddedAll
  <2>3. pc[c] \notin {"new", "expect"} =>
          Rest /\ (pc[c] \in {"segments", "unlock"} => region.page_count = 0)
    BY <1>4, <2>1 DEF AddedAll
  <2>4. region.index \in Nat /\ region.page_count \in Nat
    BY SMTT(60), SizeAssumption DEF IInv, TypeOK
  <2>5. CASE New(c)
    <3>1. region' = region /\ seg' = seg /\ seg = 1 /\ region.page_count = 0
      BY <2>5, NewAlone DEF New
    <3>2. ASSUME NEW x \in used'
          PROVE  \E i \in DOMAIN memory_map' :
                   i >= seg' /\ IsFree(memory_map'[i]) /\ x \in Pages(memory_map'[i])
      <4>1. PICK i \in DOMAIN memory_map : IsFree(memory_map[i]) /\ x \in Pages(memory_map'[i])
        BY <2>5 DEF New
      <4>2. i \in DOMAIN memory_map' /\ IsFree(memory_map'[i])
        BY <2>5, <4>1, NewCarves DEF IsFree
      <4>3. i >= 1
        BY SMTT(60) DEF IInv, TypeOK
      <4> QED
        BY <3>1, <4>1, <4>2, <4>3
    <3> QED
      BY <3>1, <3>2
  <2>6. CASE NextSegment(c)
    <3>1. /\ pc[c] = "segments" /\ UNCHANGED <<used, memory_map>>
          /\ seg \in Nat /\ ~ seg > Len(memory_map) /\ seg' = seg + 1
      BY <1>4, <2>6 DEF NextSegment, IInv, TypeOK
    <3>2. Rest /\ region.page_count = 0
      BY <2>3, <3>1
    <3>3. RegionPages = {}
      BY SMTT(60), <2>4, <3>2 DEF RegionPages
    <3>4. CASE IsFree(memory_map[seg])
      <4>1. /\ region' = [index |-> memory_map[seg].start, page_count |-> memory_map[seg].page_count]
            /\ pc'[c] = "lock"
        BY <2>6, <3>1, <3>4 DEF NextSegment, Goto, IInv, TypeOK
      <4>2. seg \in DOMAIN memory_map
        BY SMTT(60), <3>1 DEF IInv, TypeOK
      <4>3. RegionPages' = Pages(memory_map[seg])
        <5>1. /\ region'.index = memory_map[seg].start
              /\ region'.page_count = memory_map[seg].page_count
          BY <4>1
        <5>2. RegionPages' = region'.index .. (region'.index + region'.page_count - 1)
          BY DEF RegionPages
        <5> QED
          BY SMTT(60), <4>2, <5>1, <5>2, SegmentFacts DEF Pages, End
      <4>4. ASSUME NEW x \in used
            PROVE  \/ x \in RegionPages'
                   \/ \E i \in DOMAIN memory_map :
                        i >= seg + 1 /\ IsFree(memory_map[i]) /\ x \in Pages(memory_map[i])
        <5>1. PICK i \in DOMAIN memory_map :
                i >= seg /\ IsFree(memory_map[i]) /\ x \in Pages(memory_map[i])
          BY <3>2, <3>3
        <5>2. i \in Nat /\ (i = seg \/ i >= seg + 1)
          BY SMTT(60), <3>1, <5>1 DEF IInv, TypeOK
        <5> QED
          BY <4>3, <5>1, <5>2
      <4>5. Rest'
        BY <3>1, <4>4
      <4> QED
        BY <4>1, <4>5
    <3>5. CASE ~ IsFree(memory_map[seg])
      <4>1. region' = region /\ pc' = pc
        BY <2>6, <3>1, <3>5 DEF NextSegment
      <4>2. ASSUME NEW x \in used
            PROVE  \E i \in DOMAIN memory_map :
                     i >= seg + 1 /\ IsFree(memory_map[i]) /\ x \in Pages(memory_map[i])
        <5>1. PICK i \in DOMAIN memory_map :
                i >= seg /\ IsFree(memory_map[i]) /\ x \in Pages(memory_map[i])
          BY <3>2, <3>3
        <5>2. i \in Nat /\ i >= seg + 1
          BY SMTT(60), <3>1, <3>5, <5>1 DEF IInv, TypeOK
        <5> QED
          BY <5>1, <5>2
      <4>3. Rest'
        BY <3>1, <4>2
      <4> QED
        BY <3>2, <4>1, <4>3
    <3> QED
      BY <3>4, <3>5
  <2>7. CASE add_region(c) /\ region.page_count > 0
    <3> DEFINE i == region.index
               n == region.page_count
               o == region_order(i, n)
    <3>1. i \in Nat /\ n \in Nat /\ 2^o \in Nat /\ 2^o >= 1 /\ 2^o <= n
      BY <2>4, <2>7, RegionBlock
    <3>2. /\ region'.index = i + 2^o /\ region'.page_count = n - 2^o
          /\ used' = used \ Block(i, o) /\ UNCHANGED <<memory_map, seg>>
          /\ pc'[c] = "free_block" /\ pc[c] = "loop"
      BY SMTT(60), <2>7 DEF add_region, boot, Goto, IInv, TypeOK
    <3>3. \A x \in RegionPages : x \in RegionPages' \/ x \in Block(i, o)
      <4> HIDE DEF o
      <4> QED
        BY SMTT(60), <3>1, <3>2 DEF RegionPages, Block
    <3> HIDE DEF i, n, o
    <3>4. Rest
      BY <2>3, <3>2
    <3>5. Rest'
      BY <3>2, <3>3, <3>4
    <3> QED
      BY <3>2, <3>5
  <2>8. ASSUME UNCHANGED <<used, memory_map, seg, region>>, pc[c] \notin {"new", "expect"},
               \/ pc'[c] \notin {"segments", "unlock"}
               \/ pc[c] \in {"segments", "unlock"}
               \/ region.page_count = 0
        PROVE  Rest' /\ Over
    <3>1. RegionPages' = RegionPages
      BY <2>8 DEF RegionPages
    <3>2. Rest'
      BY <2>3, <2>8, <3>1
    <3> QED
      BY <2>3, <2>8, <3>2
  <2>9. CASE add_region(c) /\ ~ region.page_count > 0
    <3>1. UNCHANGED <<used, memory_map, seg, region>> /\ pc[c] = "loop"
      BY <2>9 DEF add_region, boot
    <3> QED
      BY SMTT(60), <2>4, <2>8, <2>9, <3>1
  <2>10. CASE NewPanics(c)
    BY <1>4, <2>10 DEF NewPanics, Goto, IInv, TypeOK
  <2>11. CASE try_lock(c) \/ unlock(c)
    <3>1. UNCHANGED <<used, memory_map, seg, region>>
      BY <2>11, BootFrame
    <3>2. \/ pc[c] = "lock" /\ pc'[c] \in {"lock", "loop"}
          \/ pc[c] = "unlock"
      BY <2>11 DEF try_lock, unlock, Goto, IInv, TypeOK
    <3> QED
      BY <2>8, <3>1, <3>2
  <2>12. CASE PanicLoop(c)
    <3>1. UNCHANGED <<used, memory_map, seg, region>>
      BY <2>12, BootFrame
    <3>2. pc[c] \in Panics /\ pc' = pc
      BY <2>12 DEF PanicLoop, vars
    <3> QED
      BY <1>4, <2>8, <3>1, <3>2 DEF Panics
  <2>13. CASE free_block(c)
    <3>1. UNCHANGED <<used, memory_map, seg, region>>
      BY <2>13, BootFrame
    <3>2. pc[c] = "free_block" /\ pc'[c] \in {"free_block", "loop", "oob"}
      BY <2>13 DEF free_block, FreeBlockPanics, FreeBlockMerges, FreeBlockInserts, Return,
                   Goto, IInv, TypeOK
    <3> QED
      BY <2>8, <3>1, <3>2
  <2> QED
    BY <1>4, <2>5, <2>6, <2>7, <2>9, <2>10, <2>11, <2>12, <2>13, BootSteps
<1> QED
  BY <1>1, <1>2, <1>3, <1>4

(* A manager that came up is made of free blocks only, and the bitmap was   *)
(* long enough for each of them when it was inserted.                      *)
LEMMA BoundsAtInstance ==
  ASSUME IInv, NothingLost, FullyMerged, AddedAll, BoundsOK, ~ instance,
         NEW c \in Cores, NextSegment(c), instance',
         NEW i \in Memory, NEW o \in Order, Aligned(i, o), Block(i, o) \subseteq Memory
  PROVE  InBounds(i, o)
<1>1. pc[c] = "segments" /\ seg > Len(memory_map)
  BY DEF NextSegment
<1>2. \A d \in Cores : d # c => pc[d] = "idle"
  BY BootAlone DEF Step
<1>3. \A d \in Cores : ~ Working(d) /\ pc[d] \notin {"new", "expect"}
  BY <1>1, <1>2 DEF Working
<1>4. used = {}
  <2>1. region.page_count = 0
    BY <1>1, <1>3 DEF AddedAll
  <2>2. RegionPages = {}
    BY SMTT(60), <2>1, SizeAssumption DEF RegionPages, IInv, TypeOK
  <2>3. ASSUME NEW x \in used PROVE FALSE
    <3>1. PICK n \in DOMAIN memory_map : n >= seg
      BY <1>3, <2>2, <2>3 DEF AddedAll
    <3> QED
      BY SMTT(60), <1>1, <3>1 DEF IInv, TypeOK
  <2> QED
    BY <2>3
<1>5. i \in Nat /\ o \in Nat
  BY MemoryPages, PageNat, OrderNat
<1>6. PICK q \in buddy_map : entry_order[q] >= o /\ Block(i, o) \subseteq FreeBlock(q)
  <2>1. ASSUME NEW x \in Block(i, o)
        PROVE  \E q \in buddy_map : x \in FreeBlock(q)
    <3>1. x \in Memory /\ x \notin used
      BY <1>4
    <3>2. \E q \in buddy_map : x \in Block(q, entry_order[q])
      BY <1>3, <3>1, LostPages DEF Accounted
    <3> QED
      BY <3>2 DEF FreeBlock
  <2> QED
    BY <1>5, <2>1, FreePagesAreOneBlock
<1> DEFINE b == entry_order[q]
           s == 2^b
           t == 2^o
<1>7. /\ q \in Nat /\ b \in Nat /\ Aligned(q, b) /\ s \in Nat /\ s >= 1
      /\ t \in Nat /\ t >= 1
  BY <1>5, FreeBlockFacts, Pow2Pos
<1>8. q <= i /\ i + t <= q + s
  <2>1. \A x \in Nat : i <= x /\ x <= i + t - 1 => q <= x /\ x <= q + s - 1
    BY SMTT(60), <1>5, <1>6, <1>7 DEF FreeBlock, Block
  <2> HIDE DEF b, s, t
  <2>2. i + t - 1 \in Nat
    BY SMTT(60), <1>5, <1>7
  <2> QED
    BY SMTT(60), <1>5, <1>7, <2>1, <2>2
<1>9. CASE b = o
  <2>1. i = q
    <3>1. s = t
      BY <1>9
    <3> HIDE DEF b, s, t
    <3> QED
      BY SMTT(60), <1>5, <1>7, <1>8, <3>1
  <2> QED
    BY <1>9, <2>1 DEF BoundsOK
<1>10. CASE o < b
  <2>1. q + s - 1 < map_bits
    <3>1. q + s - 1 \in FreeBlock(q)
      <4>1. FreeBlock(q) = q .. (q + s - 1)
        BY DEF FreeBlock, Block
      <4> HIDE DEF b, s
      <4> QED
        BY SMTT(60), <1>7, <4>1
    <3>2. q + s - 1 \in Memory
      BY <3>1, LostPages DEF Accounted, FreeBlock
    <3> QED
      BY <3>2 DEF BoundsOK
  <2>2. Aligned(q + s, b)
    <3>1. PICK k \in Nat : q = k * s
      BY <1>7, AlignedMultiple
    <3>2. q + s = (k + 1) * s /\ k + 1 \in Nat
      <4> HIDE DEF s
      <4> QED
        BY SMTT(60), <1>7, <3>1
    <3>3. q + s \in Nat
      BY SMTT(60), <1>7
    <3> QED
      BY <1>7, <3>2, <3>3, AlignedMultiple
  <2>3. i < q + s
    <3> HIDE DEF b, s, t
    <3> QED
      BY SMTT(60), <1>5, <1>7, <1>8
  <2>4. get_buddy_index(i, o) < q + s
    <3> HIDE DEF b
    <3>1. q + s \in Nat
      BY SMTT(60), <1>7
    <3> QED
      BY <1>5, <1>7, <1>10, <2>2, <2>3, <3>1, BuddyBelowMultiple
  <2>5. get_buddy_index(i, o) \in Nat
    BY <1>5, MergeIsExact
  <2>6. map_bits \in Nat
    BY DEF IInv, TypeOK
  <2>7. get_buddy_index(i, o) < map_bits
    <3> HIDE DEF b, s
    <3> QED
      BY SMTT(60), <1>7, <2>1, <2>4, <2>5, <2>6
  <2> QED
    BY <2>7 DEF InBounds
<1> QED
  <2> HIDE DEF b
  <2>1. entry_order[q] = b
    BY DEF b
  <2> QED
    BY SMTT(60), <1>5, <1>6, <1>7, <1>9, <1>10, <2>1

(* Every step keeps what is known of the bitmap's length, *)
LEMMA BoundsInductive ==
  ASSUME IInv, NothingLost, FullyMerged, AddedAll, BoundsOK,
         NEW c \in Cores, Step(c) \/ Call(c)
  PROVE  BoundsOK'
<1>1. CASE New(c)
  <2>1. ~ instance /\ instance' = instance /\ buddy_map' = buddy_map /\ buddy_map = {}
    BY <1>1, NewAlone DEF New, lists
  <2> QED
    BY <1>1, <2>1, NewCovers DEF BoundsOK
<1>2. CASE ~ New(c) /\ instance
  <2>1. Memory' = Memory /\ map_bits' = map_bits /\ instance'
    BY <1>2, MemoryFrame, InstanceStays
  <2> QED
    BY <1>2, <2>1 DEF BoundsOK, InBounds
<1>3. CASE ~ instance /\ instance'
  <2>1. NextSegment(c)
    <3>1. \/ New(c) \/ NewPanics(c) \/ NextSegment(c) \/ add_region(c)
          \/ UNCHANGED instance
      BY <1>3, BootSteps, BootFrame
    <3> QED
      BY <1>3, <3>1 DEF New, NewPanics, add_region, boot
  <2>2. ~ New(c)
    BY <1>3 DEF New
  <2>3. Memory' = Memory /\ map_bits' = map_bits
    BY <2>2, MemoryFrame
  <2>4. \A i \in Memory, o \in Order :
          Aligned(i, o) /\ Block(i, o) \subseteq Memory => InBounds(i, o)
    BY <1>3, <2>1, BoundsAtInstance
  <2> QED
    BY <1>3, <2>3, <2>4 DEF BoundsOK, InBounds
<1>4. CASE ~ New(c) /\ ~ instance /\ ~ instance'
  <2>1. Memory' = Memory /\ map_bits' = map_bits
    BY <1>4, MemoryFrame
  <2>2. \A p \in buddy_map : InBounds(p, entry_order[p])
    BY <1>4 DEF BoundsOK
  <2>3. ASSUME NEW p \in buddy_map' PROVE InBounds(p, entry_order'[p])
    <3>1. CASE FreeBlockInserts(c)
      <4> DEFINE i == index[c]
                 o == order[c]
      <4>1. /\ InBounds(i, o)
            /\ buddy_map' = buddy_map \cup {i}
            /\ entry_order' = [entry_order EXCEPT ![i] = o]
        BY <3>1 DEF FreeBlockInserts, push_buddy_list_entry, InBounds, BuddyOf
      <4>2. entry_order \in [Page -> Order \cup {DIRTY}] /\ i \in Page /\ buddy_map \subseteq Page
        BY DEF IInv, TypeOK
      <4> HIDE DEF i, o
      <4>3. CASE p = i
        BY <4>1, <4>2, <4>3
      <4>4. CASE p # i
        BY <2>2, <4>1, <4>2, <4>4
      <4> QED
        BY <4>3, <4>4
    <3>2. ~ AllocBlockSplits(c)
      BY <1>4 DEF AllocBlockSplits, IInv, CallOK, BootOK
    <3>3. CASE ~ FreeBlockInserts(c)
      <4>1. p \in buddy_map /\ entry_order'[p] = entry_order[p]
        BY <2>3, <3>2, <3>3, FreeBlocksMove
      <4> QED
        BY <2>2, <4>1
    <3> QED
      BY <3>1, <3>3
  <2> QED
    BY <1>4, <2>1, <2>3 DEF BoundsOK, InBounds
<1> QED
  BY <1>1, <1>2, <1>3, <1>4

(* and therefore reads inside it, but for what FreeInBounds excepts. *)
LEMMA InBoundsInductive ==
  ASSUME IInv, NothingLost, BoundsOK, FreeInBounds, Climbed',
         NEW c \in Cores, Step(c) \/ Call(c)
  PROVE  FreeInBounds'
<1> SUFFICES ASSUME NEW d \in Cores, pc'[d] = "oob"
             PROVE  IF op'[d] = "alloc" THEN goal'[d] \notin Order
                    ELSE ~ instance' /\ map_bits' % 2^MAX_ORDER # 0
  BY DEF FreeInBounds
<1>1. CASE op'[d] = "alloc"
  <2>1. goal'[d] = NoOrder
    BY <1>1 DEF Climbed
  <2> QED
    BY SMTT(60), <1>1, <2>1, MaxOrderAssumption DEF NoOrder, Order
<1>2. CASE op'[d] # "alloc" /\ d # c
  <2>1. pc[d] = "oob" /\ op[d] # "alloc"
    BY <1>2, OthersStay
  <2>2. ~ instance
    BY <2>1 DEF FreeInBounds
  <2>3. pc[d] = "idle"
    BY <1>2, <2>2, BootAlone
  <2> QED
    BY <2>1, <2>3
<1>3. CASE op'[d] # "alloc" /\ d = c
  <2>1. CASE PanicLoop(c)
    <3>1. pc[c] = "oob" /\ op[c] # "alloc" /\ instance' = instance /\ map_bits' = map_bits
      BY <1>3, <2>1 DEF PanicLoop, vars, boot, call
    <3> QED
      BY <1>3, <3>1 DEF FreeInBounds
  <2>2. ~ AllocBlockPanics(c)
    BY <1>3 DEF AllocBlockPanics, IInv, CallOK, call
  <2>3. ~ AllocNext(c) /\ ~ AllocBlockClimbs(c)
    BY <1>3 DEF AllocNext, AllocBlockClimbs, Goto, IInv, TypeOK
  <2>4. CASE FreeBlockPanics(c)
    <3> DEFINE i == index[c]
               o == order[c]
    <3>1. /\ pc[c] = "free_block" /\ o < MAX_ORDER /\ get_buddy_index(i, o) >= map_bits
          /\ instance' = instance /\ map_bits' = map_bits
      BY <2>4 DEF FreeBlockPanics, BuddyOf, boot
    <3>2. Working(c)
      BY <3>1 DEF Working
    <3>3. i \in Nat /\ o \in Order /\ o \in Nat /\ Aligned(i, o)
      BY <3>2, WorkingBlock
    <3>4. Block(i, o) \subseteq Memory /\ i \in Memory
      <4>1. Block(i, o) \subseteq Memory
        BY <3>2, LostPages DEF Accounted
      <4> QED
        BY <3>3, <4>1, BlockStarts
    <3>5. map_bits \in Nat /\ i < map_bits /\ get_buddy_index(i, o) \in Nat
      BY <3>3, <3>4, MergeIsExact DEF BoundsOK, IInv, TypeOK
    <3> HIDE DEF i, o
    <3>6. ~ InBounds(i, o)
      BY SMTT(60), <3>1, <3>5 DEF InBounds
    <3>7. ~ instance
      BY <3>3, <3>4, <3>6 DEF BoundsOK
    <3>8. ASSUME map_bits % 2^MAX_ORDER = 0 PROVE FALSE
      <4>1. Aligned(map_bits, MAX_ORDER)
        BY <3>8 DEF Aligned
      <4>2. get_buddy_index(i, o) < map_bits
        BY <3>1, <3>3, <3>5, <4>1, OrderNat, BuddyBelowMultiple
      <4> QED
        BY SMTT(60), <3>1, <3>5, <4>2
    <3> QED
      BY <1>3, <3>1, <3>7, <3>8
  <2> QED
    BY <1>3, <2>1, <2>2, <2>3, <2>4, ClimbingSteps
<1> QED
  BY <1>1, <1>2, <1>3

-----------------------------------------------------------------------------
(* The inductive invariant.                                                *)

MInv ==
  /\ IInv /\ NothingLost /\ FullyMerged /\ Ranked /\ Climbed
  /\ AddedAll /\ BoundsOK /\ FreeInBounds

(* The first state. *)
LEMMA MemoryInitial == Init => MInv
<1> SUFFICES ASSUME Init PROVE MInv
  OBVIOUS
<1>1. PICK b \in Cores : pc = [c \in Cores |-> IF c = b THEN "new" ELSE "idle"]
  BY DEF Init
<1>2. Memory = {} /\ buddy_map = {} /\ ~ instance /\ pc[b] = "new"
  BY <1>1 DEF Init, Memory
<1>3. \A c \in Cores : pc[c] \notin {"alloc_block", "oom", "oob"}
  BY <1>1
<1>4. Ranked
  <2>1. [p \in Page |-> 0] \in [Page -> Nat]
    OBVIOUS
  <2> QED
    BY <1>2, <2>1 DEF Ranked
<1>5. AddedAll /\ BoundsOK
  BY <1>2 DEF AddedAll, BoundsOK
<1>6. FullyMerged /\ Climbed /\ FreeInBounds
  BY <1>2, <1>3 DEF FullyMerged, Climbed, FreeInBounds
<1> QED
  BY <1>4, <1>5, <1>6, Initial, LostInit DEF MInv

(* A step of a core. *)
LEMMA MemoryStep ==
  ASSUME MInv, NEW c \in Cores, Step(c) \/ Call(c)
  PROVE  MInv'
<1> USE DEF MInv
<1>1. IInv'
  BY Inductive DEF Next
<1>2. NothingLost' /\ FullyMerged'
  BY LostInductive, MergedInductive
<1>3. Ranked' /\ Climbed'
  BY RanksInductive, ClimbedInductive
<1>4. AddedAll' /\ BoundsOK'
  BY AddedInductive, BoundsInductive
<1>5. FreeInBounds'
  BY <1>3, InBoundsInductive
<1> QED
  BY <1>1, <1>2, <1>3, <1>4, <1>5

(* A step that changes nothing. *)
LEMMA MemoryStutter == MInv /\ UNCHANGED vars => MInv'
<1> SUFFICES ASSUME MInv, UNCHANGED vars PROVE MInv'
  OBVIOUS
<1>1. UNCHANGED <<free_lists, buddy_map, map_bits, entry_order, next, prev, memory_map, seg,
                  region, instance, used, pc, op, index, order, goal>>
  BY DEF vars, lists, boot, call
<1>2. Memory' = Memory
  BY <1>1 DEF Memory
<1>3. IInv'
  BY Stutter DEF MInv
<1>4. NothingLost'
  BY <1>1, <1>2 DEF MInv, NothingLost, FreeBlock, InFlight, Working
<1>5. FullyMerged' /\ Ranked' /\ Climbed'
  BY <1>1 DEF MInv, FullyMerged, Ranked, Climbed
<1>6. AddedAll'
  <2>1. RegionPages' = RegionPages
    BY <1>1 DEF RegionPages
  <2> QED
    BY <1>1, <2>1 DEF MInv, AddedAll
<1>7. BoundsOK' /\ FreeInBounds'
  BY <1>1, <1>2 DEF MInv, BoundsOK, InBounds, FreeInBounds
<1> QED
  BY <1>3, <1>4, <1>5, <1>6, <1>7 DEF MInv

(* So every step keeps the invariant, *)
LEMMA MemoryInductive == MInv /\ [Next]_vars => MInv'
BY MemoryStep, MemoryStutter DEF Next

(* and it holds in every state that is reached. *)
LEMMA MemoryInvariance == Spec => []MInv
BY MemoryInitial, MemoryInductive, PTL DEF Spec

-----------------------------------------------------------------------------
(* What the clients of the manager rely on.                                *)

(* No page is lost: after any sequence of calls, splits and merges of all  *)
(* cores, every page of the memory is in use, in a free block or in the    *)
(* block a core works on.                                                  *)
THEOREM NoPageIsLost == Spec => []NothingLost
<1>1. MInv => NothingLost
  BY DEF MInv
<1> QED
  BY <1>1, MemoryInvariance, PTL

(* No free block is out of reach: every block whose bit is set is found by *)
(* following the links from the head of the list of its order.             *)
THEOREM EveryBlockIsReachable == Spec => []EveryBlockListed
<1>1. MInv => EveryBlockListed
  BY ListsAreWhole DEF MInv
<1> QED
  BY <1>1, MemoryInvariance, PTL

(* free_block leaves no two free buddies of one order below MAX_ORDER.     *)
THEOREM BuddiesAreMerged == Spec => []FullyMerged
<1>1. MInv => FullyMerged
  BY DEF MInv
<1> QED
  BY <1>1, MemoryInvariance, PTL

(* alloc_block panics with "Out of physical memory" only if no aligned      *)
(* block of the requested size is free.                                    *)
THEOREM OutOfMemoryIsTrue == Spec => []OutOfMemoryIsReal
<1>1. MInv => OutOfMemoryIsReal
  BY OutOfMemory DEF MInv
<1> QED
  BY <1>1, MemoryInvariance, PTL

(* free_block reads past the bitmap only while the memory map is added,    *)
(* and then the bitmap ends inside a block of the largest order.           *)
THEOREM ReadsStayInBitmap == Spec => []FreeInBounds
<1>1. MInv => FreeInBounds
  BY DEF MInv
<1> QED
  BY <1>1, MemoryInvariance, PTL

-----------------------------------------------------------------------------
(* The manager implements PageAllocator.                                   *)

Dead(c) == pc[c] \in {"oom", "oob"}

(* Failed is the request of the core that panicked, or -1. *)
FailedOK ==
  /\ \A c \in Cores : pc[c] = "oom" => Failed = goal[c]
  /\ \A c \in Cores : pc[c] = "oob" => Failed = NoOrder
  /\ (\A c \in Cores : ~ Dead(c)) => Failed = -1

(* At most one core has, because it keeps the lock. *)
LEMMA FailedIs == IInv => FailedOK
<1> SUFFICES ASSUME IInv PROVE FailedOK
  OBVIOUS
<1>1. \A c, d \in Cores : Dead(c) /\ Dead(d) => c = d
  BY DEF IInv, LockOK, Holds, InLock, Dead
<1>2. ASSUME NEW c \in Cores, pc[c] = "oom" PROVE Failed = goal[c]
  <2> DEFINE e == CHOOSE d \in Cores : pc[d] = "oom"
  <2>1. e \in Cores /\ pc[e] = "oom"
    BY <1>2
  <2>2. Failed = goal[e]
    BY <1>2 DEF Failed
  <2> HIDE DEF e
  <2> QED
    BY <1>1, <1>2, <2>1, <2>2 DEF Dead
<1>3. ASSUME NEW c \in Cores, pc[c] = "oob" PROVE Failed = NoOrder
  <2>1. ~ \E d \in Cores : pc[d] = "oom"
    BY <1>1, <1>3 DEF Dead
  <2> QED
    BY <1>3, <2>1 DEF Failed
<1>4. ASSUME \A c \in Cores : ~ Dead(c) PROVE Failed = -1
  BY <1>4 DEF Dead, Failed
<1> QED
  BY <1>2, <1>3, <1>4 DEF FailedOK

(* The same in the next state, *)
LEMMA FailedIsNext == IInv' => FailedOK'
BY FailedIs, PTL

(* and what is known of memory there, *)
LEMMA MemoryPagesNext == IInv' => Memory' \subseteq Page
<1>1. IInv' => (Memory \subseteq Page)'
  BY MemoryPages, PTL
<1> QED
  BY <1>1

(* and of a core that gave up. *)
LEMMA OutOfMemoryNext == MInv' => OutOfMemoryIsReal'
<1>1. MInv => OutOfMemoryIsReal
  BY OutOfMemory DEF MInv
<1> QED
  BY <1>1, PTL

(* A block that leaves the clients' hands, or comes into them. *)
LEMMA FreeMoves ==
  ASSUME MInv, Failed = -1, Failed' = -1, Memory' = Memory,
         NEW i \in Nat, NEW o \in Order, Aligned(i, o), Block(i, o) \subseteq used,
         used' = used \ Block(i, o)
  PROVE  Abstract!Next
<1>1. i \in Memory
  <2>1. i \in used
    BY BlockStarts, OrderNat
  <2> QED
    BY <2>1, LostPages DEF MInv, Accounted
<1>2. Abstract!Free(i, o)
  BY DEF Abstract!Free, Abstract!None, Abstract!Aligned, Aligned, Abstract!Block, Block
<1>3. o \in Abstract!Order
  BY DEF Abstract!Order, Order
<1> QED
  BY <1>1, <1>2, <1>3 DEF Abstract!Next

(* The return of alloc_block is the abstract Alloc. *)
LEMMA AllocMoves ==
  ASSUME MInv, NEW c \in Cores, AllocBlockReturns(c), Failed = -1, Failed' = -1,
         Memory' = Memory
  PROVE  Abstract!Next
<1> DEFINE i == index[c]
           o == goal[c]
<1>1. Working(c) /\ order[c] = o /\ used' = used \cup Block(i, o)
  BY DEF AllocBlockReturns, Working
<1>2. /\ i \in Nat /\ o \in Order /\ o \in Nat /\ Aligned(i, o)
      /\ Block(i, o) \subseteq Page \ used
  BY <1>1, WorkingBlock DEF MInv
<1>3. Block(i, o) \subseteq Memory
  BY <1>1, LostPages DEF MInv, Accounted
<1>4. i \in Memory
  BY <1>2, <1>3, BlockStarts
<1> HIDE DEF i, o
<1>5. Block(i, o) \subseteq Memory \ used
  BY <1>2, <1>3
<1>6. Abstract!Alloc(i, o)
  BY <1>1, <1>2, <1>5 DEF Abstract!Alloc, Abstract!Available, Abstract!None,
     Abstract!Aligned, Aligned, Abstract!Block, Block
<1>7. o \in Abstract!Order
  BY <1>2 DEF Abstract!Order, Order
<1> QED
  BY <1>4, <1>6, <1>7 DEF Abstract!Next

(* alloc_block gives up: no block of the order can be made. *)
LEMMA ExhaustedMoves ==
  ASSUME MInv, MInv', NEW c \in Cores, pc'[c] = "oom", Failed = -1, Failed' = goal'[c],
         Memory' = Memory, used' = used
  PROVE  Abstract!Next
<1> DEFINE o == goal'[c]
<1>1. o \in Order
  BY DEF MInv, Climbed
<1>2. \A p \in Memory : Aligned(p, o) => ~ Block(p, o) \subseteq Memory \ used
  BY OutOfMemoryNext DEF OutOfMemoryIsReal
<1> HIDE DEF o
<1>3. \A p \in Memory : ~ Abstract!Available(p, o)
  BY <1>2 DEF Abstract!Available, Abstract!Aligned, Aligned, Abstract!Block, Block
<1>4. Abstract!Exhausted(o)
  BY <1>3 DEF Abstract!Exhausted, Abstract!None, o
<1>5. o \in Abstract!Order
  BY <1>1 DEF Abstract!Order, Order
<1> QED
  BY <1>4, <1>5 DEF Abstract!Next

(* An index panic is BadRequest. *)
LEMMA BadRequestMoves ==
  ASSUME Failed = -1, Failed' = NoOrder, Memory' = Memory, used' = used
  PROVE  Abstract!Next
<1>1. Abstract!BadRequest
  BY DEF Abstract!BadRequest, Abstract!None, Abstract!NoOrder, NoOrder
<1> QED
  BY <1>1 DEF Abstract!Next

(* new() takes over the pages of the memory map. *)
LEMMA CreateMoves ==
  ASSUME MInv, MInv', NEW c \in Cores, New(c), Failed' = Failed
  PROVE  Abstract!Next
<1>1. Memory = {}
  BY DEF New, Memory
<1>2. Memory' \in SUBSET Nat
  BY MemoryPagesNext, PageNat DEF MInv
<1>3. used' = Memory'
  <2>1. buddy_map' = {} /\ pc' = [pc EXCEPT ![c] = "segments"] /\ op' = op
    BY NewAlone DEF New, MInv, lists, call, Goto
  <2>2. \A d \in Cores : d # c => pc[d] = "idle"
    BY NewAlone DEF New, MInv
  <2>3. \A d \in Cores : ~ Working(d)'
    BY <2>1, <2>2 DEF Working, MInv, IInv, TypeOK
  <2>4. Accounted'
    BY LostPagesNext DEF MInv
  <2> QED
    BY <2>1, <2>3, <2>4 DEF Accounted
<1>4. Abstract!Create
  BY <1>1, <1>2, <1>3 DEF Abstract!Create
<1> QED
  BY <1>4 DEF Abstract!Next

(* The step of the page allocator that a step of the manager is. *)
LEMMA AllocatorMoves ==
  ASSUME MInv, NEW c \in Cores, Step(c) \/ Call(c)
  PROVE  Abstract!Next \/ UNCHANGED Abstract!vars
<1>1. MInv' /\ IInv /\ IInv' /\ FailedOK /\ FailedOK'
  BY MemoryStep, FailedIs, FailedIsNext DEF MInv
<1>2. SUFFICES Abstract!Next \/ (Memory' = Memory /\ used' = used /\ Failed' = Failed)
  BY DEF Abstract!vars
<1>3. CASE \E d \in Cores : Dead(d)
  <2>1. PICK d \in Cores : Dead(d)
    BY <1>3
  <2>2. used' = used /\ ~ New(c) /\ (c = d => UNCHANGED vars)
    BY <1>1, <2>1, DeadKeeps DEF Dead
  <2>3. Memory' = Memory
    BY <1>1, <2>2, MemoryFrame
  <2>4. pc'[d] = pc[d] /\ goal'[d] = goal[d]
    <3>1. CASE c = d
      BY <2>2, <3>1 DEF vars, call
    <3>2. CASE c # d
      BY <1>1, <3>2, OthersStay
    <3> QED
      BY <3>1, <3>2
  <2>5. Failed' = Failed
    <3>1. CASE pc[d] = "oom"
      <4>1. Failed = goal[d] /\ Failed' = goal'[d]
        BY <1>1, <2>4, <3>1 DEF FailedOK
      <4> QED
        BY <2>4, <4>1
    <3>2. CASE pc[d] = "oob"
      <4>1. Failed = NoOrder /\ Failed' = NoOrder
        BY <1>1, <2>4, <3>2 DEF FailedOK
      <4> QED
        BY <4>1
    <3> QED
      BY <2>1, <3>1, <3>2 DEF Dead
  <2> QED
    BY <2>2, <2>3, <2>5
<1>4. CASE ~ \E d \in Cores : Dead(d)
  <2>1. Failed = -1
    BY <1>1, <1>4 DEF FailedOK
  <2>2. \A d \in Cores : d # c => ~ Dead(d)'
    BY <1>1, <1>4, OthersStay DEF Dead
  <2>3. ~ Dead(c)' => Failed' = -1
    BY <1>1, <2>2 DEF FailedOK
  <2>4. ~ New(c) => Memory' = Memory
    BY <1>1, MemoryFrame
  <2> USE DEF Goto
  <2>5. pc \in [Cores -> Labels]
    BY <1>1 DEF IInv, TypeOK
  <2>6. CASE New(c)
    <3>1. ~ Dead(c)'
      BY <2>5, <2>6 DEF New, Dead
    <3> QED
      BY <1>1, <2>1, <2>3, <2>6, <3>1, CreateMoves
  <2>7. CASE AllocBlockReturns(c)
    <3>1. ~ Dead(c)' /\ ~ New(c)
      BY <2>5, <2>7 DEF AllocBlockReturns, Return, Dead, New
    <3> QED
      BY <2>1, <2>3, <2>4, <2>7, <3>1, AllocMoves
  <2>8. CASE add_region(c) /\ region.page_count > 0
    <3> DEFINE i == region.index
               o == region_order(i, region.page_count)
    <3>1. ~ Dead(c)' /\ ~ New(c) /\ used' = used \ Block(i, o)
      BY <2>5, <2>8 DEF add_region, Dead, New
    <3>2. i \in Nat /\ o \in Order /\ Aligned(i, o) /\ Block(i, o) \subseteq used
      BY <1>1, <2>8, RegionBlock
    <3> HIDE DEF i, o
    <3> QED
      BY <2>1, <2>3, <2>4, <3>1, <3>2, FreeMoves
  <2>9. CASE FreeNext(c) /\ todo[c] # {}
    <3>1. PICK b \in todo[c] : used' = used \ Block(b[1], b[2]) /\ pc' = [pc EXCEPT ![c] = "free_block"]
      BY <2>9 DEF FreeNext
    <3>2. ~ Dead(c)' /\ ~ New(c)
      BY <2>5, <2>9, <3>1 DEF FreeNext, Dead, New
    <3>3. b[1] \in Nat /\ b[2] \in Order
      <4>1. b \in Page \X Order
        BY <1>1 DEF IInv, TypeOK
      <4> QED
        BY <4>1, PageNat
    <3>4. Aligned(b[1], b[2]) /\ Block(b[1], b[2]) \subseteq used
      BY <1>1 DEF IInv, TodoOK
    <3> QED
      BY <2>1, <2>3, <2>4, <3>1, <3>2, <3>3, <3>4, FreeMoves
  <2>10. CASE Dead(c)'
    <3>1. AllocBlockClimbs(c) \/ AllocBlockPanics(c) \/ FreeBlockPanics(c)
      <4>1. pc'[c] \in {"alloc_block", "oom", "oob"}
        BY <2>10 DEF Dead
      <4>2. ~ AllocNext(c)
        BY <2>5, <2>10 DEF AllocNext, Dead
      <4>3. ~ PanicLoop(c)
        BY <1>4, <2>10 DEF PanicLoop, vars, Dead
      <4> QED
        BY <1>1, <4>1, <4>2, <4>3, ClimbingSteps
    <3>2. ~ New(c) /\ used' = used
      BY <3>1 DEF AllocBlockClimbs, AllocBlockPanics, FreeBlockPanics, New
    <3>3. CASE pc'[c] = "oom"
      BY <1>1, <2>1, <2>4, <3>2, <3>3, ExhaustedMoves DEF FailedOK
    <3>4. CASE pc'[c] = "oob"
      BY <1>1, <2>1, <2>4, <3>2, <3>4, BadRequestMoves DEF FailedOK
    <3> QED
      BY <2>10, <3>3, <3>4 DEF Dead
  <2>11. CASE /\ ~ New(c) /\ ~ AllocBlockReturns(c) /\ ~ Dead(c)'
              /\ ~ (add_region(c) /\ region.page_count > 0)
              /\ ~ (FreeNext(c) /\ todo[c] # {})
    <3>1. used' = used
      <4>1. CASE add_region(c)
        BY <2>11, <4>1 DEF add_region
      <4>2. CASE FreeNext(c)
        BY <2>11, <4>2 DEF FreeNext
      <4>3. CASE FreeBlockMerges(c) \/ FreeBlockInserts(c) \/ AllocBlockPops(c) \/ AllocBlockSplits(c)
        BY <4>3 DEF FreeBlockMerges, FreeBlockInserts, AllocBlockPops, AllocBlockSplits
      <4> QED
        BY <1>1, <2>11, <4>1, <4>2, <4>3, OwnerFrame DEF IInv
    <3> QED
      BY <2>1, <2>3, <2>4, <2>11, <3>1
  <2> QED
    BY <2>6, <2>7, <2>8, <2>9, <2>10, <2>11
<1> QED
  BY <1>3, <1>4

(* The manager hands out aligned blocks nobody holds, takes back blocks     *)
(* somebody holds, fails a request only if no such block exists, and does   *)
(* nothing after that, for every number of cores and every memory map.     *)
THEOREM AllocatesPages == Spec => ImplementsPageAllocator
<1>1. Init => Abstract!Init
  <2> SUFFICES ASSUME Init PROVE Abstract!Init
    OBVIOUS
  <2>1. PICK b \in Cores : pc = [c \in Cores |-> IF c = b THEN "new" ELSE "idle"]
    BY DEF Init
  <2>2. Memory = {} /\ used = {}
    BY <2>1 DEF Init, Memory
  <2>3. Failed = -1
    BY <2>1 DEF Failed
  <2> QED
    BY <2>2, <2>3 DEF Abstract!Init, Abstract!None
<1>2. MInv /\ [Next]_vars => [Abstract!Next]_(Abstract!vars)
  <2>1. ASSUME MInv, UNCHANGED vars PROVE UNCHANGED Abstract!vars
    BY <2>1 DEF vars, lists, boot, call, Abstract!vars, Memory, Failed
  <2> QED
    BY <2>1, AllocatorMoves DEF Next
<1> QED
  BY <1>1, <1>2, MemoryInvariance, PTL DEF Spec, ImplementsPageAllocator, Abstract!Spec

=============================================================================
