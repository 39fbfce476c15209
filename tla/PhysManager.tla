----------------------------- MODULE PhysManager -----------------------------
(***************************************************************************)
(* kernel/src/memory/phys_manager.rs: the buddy allocator for physical     *)
(* pages, with the default InlineStorage, used by several cores.           *)
(*                                                                         *)
(* The manager keeps one doubly linked list of free blocks per order and a *)
(* bitmap with one bit per page, set where a free block starts.  The list  *)
(* nodes (FreeEntry) live in the first bytes of the free blocks, so a page *)
(* that is handed out loses its node to whatever its owner writes there.   *)
(*                                                                         *)
(* Every public function takes the spin lock, works on the structure and   *)
(* drops the guard.  A step of the model is one round of a loop or one     *)
(* level of a recursion; the lock alone keeps two cores from mixing them.  *)
(***************************************************************************)
EXTENDS Buddy, Sequences, FiniteSets

CONSTANTS
  Cores,           \* the cores that run the kernel
  WORD_BITS,       \* bits per word of the bitmap; 64 in the code
  WORDS_PER_PAGE,  \* words of the bitmap per page; 512 in the code
  PAGE_LIMIT,      \* bound: no memory map has a page at or above this index
  MAX_COUNT,       \* bound: largest page count a client asks for
  MAX_BATCH,       \* bound: longest slice given to alloc_pages, free_pages
  MemoryMaps,      \* the memory maps the bootloader may hand over
  NULL,            \* the null pointer
  DIRTY            \* bytes written by the owner of a page

Page == 0 .. (PAGE_LIMIT - 1)

Ptr == Page \cup {NULL}

Segment == [start : 0 .. PAGE_LIMIT, page_count : 0 .. PAGE_LIMIT,
            state : {"Free", "Occupied"}]

End(s) == s.start + s.page_count

Pages(s) == s.start .. (End(s) - 1)

(* Firmware memory maps describe disjoint, page-aligned ranges. *)
ASSUME MapAssumption ==
  \A m \in MemoryMaps :
    /\ m \in Seq(Segment)
    /\ \A i \in DOMAIN m : End(m[i]) <= PAGE_LIMIT
    /\ \A i, j \in DOMAIN m : i # j => Pages(m[i]) \cap Pages(m[j]) = {}

ASSUME SizeAssumption ==
  /\ WORD_BITS \in Nat \ {0}
  /\ WORDS_PER_PAGE \in Nat \ {0}
  /\ PAGE_LIMIT \in Nat \ {0}
  /\ MAX_COUNT \in Nat
  /\ MAX_BATCH \in Nat

ASSUME PointerAssumption ==
  /\ NULL \notin Int
  /\ DIRTY \notin Int
  /\ NULL # DIRTY

VARIABLES
  lock,         \* PhysMemoryManager.lock: the flag of the SpinLock
  free_lists,   \* head of the list of each order
  buddy_map,    \* the pages whose bit is set
  map_bits,     \* length of the bitmap, in bits
  entry_order,  \* FreeEntry.order of the node in each page
  next,         \* FreeEntry.next
  prev,         \* FreeEntry.prev
  memory_map,   \* the bootloader's map; InlineStorage::new shrinks a segment
  seg,          \* position of the loop over memory_map in new()
  region,       \* `index` and `page_count` of the running add_region()
  instance,     \* INSTANCE has been written: the other cores may allocate
  used,         \* pages owned by somebody outside the manager
  pc,           \* where each core is
  op,           \* the public function each core is in
  index,        \* argument of the running free_block / result of alloc_block
  order,        \* argument of the running free_block / alloc_block
  goal,         \* order the running public function allocates
  left,         \* blocks it has yet to allocate
  todo          \* blocks <<index, order>> it has yet to free

lists == <<free_lists, buddy_map, entry_order, next, prev>>
boot == <<map_bits, memory_map, seg, instance>>
call == <<op, goal, left, todo>>
vars == <<lock, lists, boot, region, used, pc, call, index, order>>

-----------------------------------------------------------------------------
(* Where a core can be.  The last three are panics: the core prints the    *)
(* message and spins for ever, with the guard alive.                       *)

Panics == {"expect", "oom", "oob"}

InLock == {"loop", "free_block", "alloc_block", "split", "unlock", "oom", "oob"}

Labels == {"idle", "new", "segments", "lock"} \cup InLock \cup Panics

Goto(c, label) == pc' = [pc EXCEPT ![c] = label]

(* The locals of free_block and alloc_block are gone once they return. *)
Return(c) ==
  /\ Goto(c, "loop")
  /\ index' = [index EXCEPT ![c] = 0]
  /\ order' = [order EXCEPT ![c] = 0]

Init ==
  /\ lock = FALSE
  /\ free_lists = [o \in Order |-> NULL]
  /\ buddy_map = {}
  /\ map_bits = 0
  /\ entry_order = [p \in Page |-> DIRTY]
  /\ next = [p \in Page |-> DIRTY]
  /\ prev = [p \in Page |-> DIRTY]
  /\ memory_map \in MemoryMaps
  /\ seg = 1
  /\ region = [index |-> 0, page_count |-> 0]
  /\ instance = FALSE
  /\ used = {}
  /\ \E b \in Cores : pc = [c \in Cores |-> IF c = b THEN "new" ELSE "idle"]
  /\ op = [c \in Cores |-> "none"]
  /\ index = [c \in Cores |-> 0]
  /\ order = [c \in Cores |-> 0]
  /\ goal = [c \in Cores |-> 0]
  /\ left = [c \in Cores |-> 0]
  /\ todo = [c \in Cores |-> {}]

-----------------------------------------------------------------------------
(* Construction: PhysMemoryManager::new and InlineStorage::new.            *)

IsFree(s) == s.state = "Free"

Fits(i, pages) == IsFree(memory_map[i]) /\ memory_map[i].page_count >= pages

CeilDiv(a, b) == (a + b - 1) \div b

(* max_address is the largest end of a segment.  The bitmap takes the      *)
(* first free segment that is large enough, from its start.  Until they    *)
(* are added, the free pages are owned by the core that builds the manager.*)
New(c) ==
  /\ pc[c] = "new"
  /\ \E last \in DOMAIN memory_map :
       LET num_pages == End(memory_map[last])
           num_entries == CeilDiv(num_pages, WORD_BITS)
           num_storage_pages == CeilDiv(num_entries, WORDS_PER_PAGE)
       IN  /\ \A i \in DOMAIN memory_map : End(memory_map[i]) <= num_pages
           /\ \E e \in DOMAIN memory_map :
                /\ Fits(e, num_storage_pages)
                /\ \A i \in 1 .. (e - 1) : ~ Fits(i, num_storage_pages)
                /\ memory_map' = [memory_map EXCEPT
                                    ![e].start = @ + num_storage_pages,
                                    ![e].page_count = @ - num_storage_pages]
           /\ map_bits' = num_entries * WORD_BITS
  /\ used' = UNION {Pages(memory_map'[i]) :
                      i \in {j \in DOMAIN memory_map : IsFree(memory_map[j])}}
  /\ Goto(c, "segments")
  /\ UNCHANGED <<lock, lists, seg, instance, region, call, index, order>>

(* .expect("Memory Map is empty"), .expect("No suitable memory location"): *)
(* no lock exists yet.                                                     *)
NewPanics(c) ==
  /\ pc[c] = "new"
  /\ \A last \in DOMAIN memory_map :
       (\A i \in DOMAIN memory_map : End(memory_map[i]) <= End(memory_map[last]))
         => \A e \in DOMAIN memory_map :
              ~ Fits(e, CeilDiv(CeilDiv(End(memory_map[last]), WORD_BITS),
                                WORDS_PER_PAGE))
  /\ Goto(c, "expect")
  /\ UNCHANGED <<lock, lists, boot, region, used, call, index, order>>

(* The loop over the free segments of memory_map; after the last one the   *)
(* new manager is stored in INSTANCE.                                      *)
NextSegment(c) ==
  /\ pc[c] = "segments"
  /\ IF seg > Len(memory_map)
     THEN /\ instance' = TRUE
          /\ Goto(c, "idle")
          /\ UNCHANGED <<seg, region, op>>
     ELSE /\ seg' = seg + 1
          /\ IF IsFree(memory_map[seg])
             THEN /\ region' = [index |-> memory_map[seg].start,
                                page_count |-> memory_map[seg].page_count]
                  /\ op' = [op EXCEPT ![c] = "add_region"]
                  /\ Goto(c, "lock")
             ELSE UNCHANGED <<region, op, pc>>
          /\ UNCHANGED instance
  /\ UNCHANGED <<lock, lists, map_bits, memory_map, used, goal, left, todo,
                 index, order>>

-----------------------------------------------------------------------------
(* The spin lock, as the public functions use it.                          *)

(* Mutant: the old value of the flag is not looked at. *)
try_lock_always(c) ==
  /\ pc[c] = "lock"
  /\ lock' = TRUE
  /\ Goto(c, "loop")
  /\ UNCHANGED <<lists, boot, region, used, call, index, order>>

try_lock(c) ==
  /\ pc[c] = "lock"
  /\ lock' = TRUE
  /\ IF lock THEN UNCHANGED pc ELSE Goto(c, "loop")
  /\ UNCHANGED <<lists, boot, region, used, call, index, order>>

(* Mutant: the guard is dropped without the store. *)
unlock_forgotten(c) ==
  /\ pc[c] = "unlock"
  /\ Goto(c, IF op[c] = "add_region" THEN "segments" ELSE "idle")
  /\ op' = [op EXCEPT ![c] = "none"]
  /\ goal' = [goal EXCEPT ![c] = 0]
  /\ UNCHANGED <<lock, lists, boot, region, used, left, todo, index, order>>

unlock(c) ==
  /\ pc[c] = "unlock"
  /\ lock' = FALSE
  /\ Goto(c, IF op[c] = "add_region" THEN "segments" ELSE "idle")
  /\ op' = [op EXCEPT ![c] = "none"]
  /\ goal' = [goal EXCEPT ![c] = 0]
  /\ UNCHANGED <<lists, boot, region, used, left, todo, index, order>>

(* A core that panicked stays in the `loop {}` of the panic handler. *)
PanicLoop(c) ==
  /\ pc[c] \in Panics
  /\ UNCHANGED vars

-----------------------------------------------------------------------------
(* The lists.  Each operator is the whole effect of the Rust function, plus *)
(* the bit of the bitmap that its callers set or clear along with it.      *)

(* Mutant: the old head is not linked behind the new node. *)
push_buddy_list_entry_unlinked(e, o) ==
  /\ buddy_map' = buddy_map \cup {e}
  /\ entry_order' = [entry_order EXCEPT ![e] = o]
  /\ next' = [next EXCEPT ![e] = NULL]
  /\ prev' = [prev EXCEPT ![e] = NULL]
  /\ free_lists' = [free_lists EXCEPT ![o] = e]

(* The node is written with null links and pushed at the front; the bit is *)
(* set.                                                                    *)
push_buddy_list_entry(e, o) ==
  /\ buddy_map' = buddy_map \cup {e}
  /\ entry_order' = [entry_order EXCEPT ![e] = o]
  /\ next' = [next EXCEPT ![e] = free_lists[o]]
  /\ prev' = [p \in Page |-> IF p = free_lists[o] THEN e
                             ELSE IF p = e THEN NULL ELSE prev[p]]
  /\ free_lists' = [free_lists EXCEPT ![o] = e]

(* Mutant: the successor keeps its old prev. *)
remove_buddy_list_entry_one_way(e, o) ==
  /\ buddy_map' = buddy_map \ {e}
  /\ free_lists' = IF prev[e] = NULL THEN [free_lists EXCEPT ![o] = next[e]]
                                     ELSE free_lists
  /\ next' = [p \in Page |-> IF p = prev[e] THEN next[e] ELSE next[p]]
  /\ UNCHANGED <<entry_order, prev>>

(* The node is unlinked from the list of order o; the bit is cleared. *)
remove_buddy_list_entry(e, o) ==
  /\ buddy_map' = buddy_map \ {e}
  /\ free_lists' = IF prev[e] = NULL THEN [free_lists EXCEPT ![o] = next[e]]
                                     ELSE free_lists
  /\ next' = [p \in Page |-> IF p = prev[e] THEN next[e] ELSE next[p]]
  /\ prev' = [p \in Page |-> IF p = next[e] THEN prev[e] ELSE prev[p]]
  /\ UNCHANGED entry_order

(* The first node of a list that is not empty; its bit is cleared. *)
pop_buddy_list_entry(o) ==
  LET head == free_lists[o]
  IN  /\ buddy_map' = buddy_map \ {head}
      /\ free_lists' = [free_lists EXCEPT ![o] = next[head]]
      /\ prev' = [p \in Page |-> IF p = next[head] THEN NULL ELSE prev[p]]
      /\ UNCHANGED <<entry_order, next>>

-----------------------------------------------------------------------------
(* free_block: one level of the recursion per step.                        *)

BuddyOf(c) == get_buddy_index(index[c], order[c])

(* Mutant: the largest order is never formed. *)
CanMerge_below(c) ==
  /\ order[c] < MAX_ORDER - 1
  /\ BuddyOf(c) \in buddy_map
  /\ entry_order[BuddyOf(c)] = order[c]

CanMerge(c) ==
  /\ order[c] < MAX_ORDER
  /\ BuddyOf(c) \in buddy_map
  /\ entry_order[BuddyOf(c)] = order[c]

(* buddy_map[buddy_entry] is read before anything is known about the       *)
(* buddy: the read panics if the word is past the end of the bitmap.       *)
FreeBlockPanics(c) ==
  /\ pc[c] = "free_block"
  /\ order[c] < MAX_ORDER
  /\ BuddyOf(c) >= map_bits
  /\ Goto(c, "oob")
  /\ UNCHANGED <<lock, lists, boot, region, used, call, index, order>>

(* The buddy is free and of the same order: take it out of its list and    *)
(* free the block both halves form.                                        *)
FreeBlockMerges(c) ==
  /\ pc[c] = "free_block"
  /\ CanMerge(c)
  /\ remove_buddy_list_entry(BuddyOf(c), order[c])
  /\ index' = [index EXCEPT ![c] = get_combined_index(@, order[c])]
  /\ order' = [order EXCEPT ![c] = @ + 1]
  /\ UNCHANGED <<lock, boot, region, used, pc, call>>

(* No merge: the block goes into the list of its order. *)
FreeBlockInserts(c) ==
  /\ pc[c] = "free_block"
  /\ order[c] < MAX_ORDER => BuddyOf(c) < map_bits
  /\ ~ CanMerge(c)
  /\ push_buddy_list_entry(index[c], order[c])
  /\ Return(c)
  /\ UNCHANGED <<lock, boot, region, used, call>>

free_block(c) == FreeBlockPanics(c) \/ FreeBlockMerges(c) \/ FreeBlockInserts(c)

-----------------------------------------------------------------------------
(* alloc_block: the recursion first climbs to an order whose list is not   *)
(* empty, then splits the block it found on the way back.                  *)

(* Mutant: recurses with the same order. *)
AllocBlockClimbs_same(c) ==
  /\ pc[c] = "alloc_block"
  /\ order[c] \in Order
  /\ free_lists[order[c]] = NULL
  /\ IF order[c] = MAX_ORDER THEN Goto(c, "oom") ELSE UNCHANGED pc
  /\ UNCHANGED <<lock, lists, boot, region, used, call, index, order>>

(* The list is empty: recurse one order up, or panic at the top. *)
AllocBlockClimbs(c) ==
  /\ pc[c] = "alloc_block"
  /\ order[c] \in Order
  /\ free_lists[order[c]] = NULL
  /\ IF order[c] = MAX_ORDER
     THEN Goto(c, "oom") /\ UNCHANGED order
     ELSE order' = [order EXCEPT ![c] = @ + 1] /\ UNCHANGED pc
  /\ UNCHANGED <<lock, lists, boot, region, used, call, index>>

(* free_lists[order] panics when the request was for no or too many pages. *)
AllocBlockPanics(c) ==
  /\ pc[c] = "alloc_block"
  /\ order[c] \notin Order
  /\ Goto(c, "oob")
  /\ UNCHANGED <<lock, lists, boot, region, used, call, index, order>>

AllocBlockPops(c) ==
  /\ pc[c] = "alloc_block"
  /\ order[c] \in Order
  /\ free_lists[order[c]] # NULL
  /\ pop_buddy_list_entry(order[c])
  /\ index' = [index EXCEPT ![c] = free_lists[order[c]]]
  /\ Goto(c, "split")
  /\ UNCHANGED <<lock, boot, region, used, call, order>>

(* Mutant: the upper half is not listed. *)
AllocBlockSplits_drops(c) ==
  /\ pc[c] = "split"
  /\ order[c] > goal[c]
  /\ order' = [order EXCEPT ![c] = @ - 1]
  /\ UNCHANGED <<lock, lists, boot, region, used, pc, call, index>>

(* One return from the recursion: the upper half becomes a free block of   *)
(* the next lower order, the lower half is the result.                     *)
AllocBlockSplits(c) ==
  /\ pc[c] = "split"
  /\ order[c] > goal[c]
  /\ push_buddy_list_entry(get_buddy_index(index[c], order[c] - 1), order[c] - 1)
  /\ order' = [order EXCEPT ![c] = @ - 1]
  /\ UNCHANGED <<lock, boot, region, used, pc, call, index>>

(* The outermost call returns and the caller owns the block; from here on  *)
(* it may write to its pages.                                              *)
AllocBlockReturns(c) ==
  LET block == Block(index[c], goal[c])
  IN  /\ pc[c] = "split"
      /\ order[c] = goal[c]
      /\ used' = used \cup block
      /\ entry_order' = [p \in Page |-> IF p \in block THEN DIRTY ELSE entry_order[p]]
      /\ next' = [p \in Page |-> IF p \in block THEN DIRTY ELSE next[p]]
      /\ prev' = [p \in Page |-> IF p \in block THEN DIRTY ELSE prev[p]]
      /\ Return(c)
      /\ UNCHANGED <<lock, free_lists, buddy_map, boot, region, call>>

alloc_block(c) ==
  \/ AllocBlockClimbs(c) \/ AllocBlockPanics(c) \/ AllocBlockPops(c)
  \/ AllocBlockSplits(c) \/ AllocBlockReturns(c)

-----------------------------------------------------------------------------
(* The bodies of the public functions, with the lock held: each is a loop  *)
(* that calls free_block or alloc_block.                                   *)

(* while page_count > 0 { ... free_block ...; index += ...; } *)
add_region(c) ==
  /\ pc[c] = "loop" /\ op[c] = "add_region"
  /\ IF region.page_count > 0
     THEN LET o == region_order(region.index, region.page_count)
          IN  /\ index' = [index EXCEPT ![c] = region.index]
              /\ order' = [order EXCEPT ![c] = o]
              /\ region' = [index |-> region.index + 2^o,
                            page_count |-> region.page_count - 2^o]
              /\ used' = used \ Block(region.index, o)
              /\ Goto(c, "free_block")
     ELSE /\ Goto(c, "unlock")
          /\ UNCHANGED <<index, order, region, used>>
  /\ UNCHANGED <<lock, lists, boot, call>>

(* The blocks of free_page, free_linear_pages (one) and free_pages (the    *)
(* slice, in any order).                                                   *)
FreeNext(c) ==
  /\ pc[c] = "loop" /\ op[c] = "free"
  /\ \/ \E b \in todo[c] :
          /\ index' = [index EXCEPT ![c] = b[1]]
          /\ order' = [order EXCEPT ![c] = b[2]]
          /\ todo' = [todo EXCEPT ![c] = @ \ {b}]
          /\ used' = used \ Block(b[1], b[2])
          /\ Goto(c, "free_block")
     \/ /\ todo[c] = {}
        /\ Goto(c, "unlock")
        /\ UNCHANGED <<index, order, todo, used>>
  /\ UNCHANGED <<lock, lists, boot, region, op, goal, left>>

(* The blocks of alloc_page, alloc_linear_pages (one) and alloc_pages. *)
AllocNext(c) ==
  /\ pc[c] = "loop" /\ op[c] = "alloc"
  /\ IF left[c] > 0
     THEN /\ left' = [left EXCEPT ![c] = @ - 1]
          /\ order' = [order EXCEPT ![c] = goal[c]]
          /\ Goto(c, "alloc_block")
     ELSE /\ Goto(c, "unlock")
          /\ UNCHANGED <<left, order>>
  /\ UNCHANGED <<lock, lists, boot, region, used, op, goal, todo, index>>

-----------------------------------------------------------------------------
(* Calls.  A client frees only pages it owns, whole aligned blocks, and no *)
(* two calls free the same page.                                           *)

Claimed == UNION {UNION {Block(b[1], b[2]) : b \in todo[c]} : c \in Cores}

MayFree(i, o) ==
  /\ o \in Order
  /\ Aligned(i, o)
  /\ Block(i, o) \subseteq used \ Claimed

CallFree(c, blocks) ==
  /\ pc[c] = "idle" /\ instance
  /\ \A b \in blocks : MayFree(b[1], b[2])
  /\ todo' = [todo EXCEPT ![c] = blocks]
  /\ op' = [op EXCEPT ![c] = "free"]
  /\ Goto(c, "lock")
  /\ UNCHANGED <<lock, lists, boot, region, used, index, order, goal, left>>

free_page(c) == \E p \in Page : CallFree(c, {<<p, 0>>})

free_linear_pages(c) ==
  \E p \in Page, count \in 1 .. MAX_COUNT :
    CallFree(c, {<<p, get_size_order(count)>>})

free_pages(c) ==
  \E ps \in SUBSET Page :
    /\ Cardinality(ps) <= MAX_BATCH
    /\ CallFree(c, {<<p, 0>> : p \in ps})

CallAlloc(c, o, n) ==
  /\ pc[c] = "idle" /\ instance
  /\ goal' = [goal EXCEPT ![c] = o]
  /\ left' = [left EXCEPT ![c] = n]
  /\ op' = [op EXCEPT ![c] = "alloc"]
  /\ Goto(c, "lock")
  /\ UNCHANGED <<lock, lists, boot, region, used, index, order, todo>>

alloc_page(c) == CallAlloc(c, 0, 1)

alloc_linear_pages(c) ==
  \E count \in 0 .. MAX_COUNT : CallAlloc(c, get_size_order(count), 1)

alloc_pages(c) == \E n \in 0 .. MAX_BATCH : CallAlloc(c, 0, n)

-----------------------------------------------------------------------------
(* A core inside the kernel's allocator code always takes its next step;   *)
(* whether it calls the allocator again is up to its caller.               *)

Step(c) ==
  \/ New(c) \/ NewPanics(c) \/ NextSegment(c)
  \/ try_lock(c) \/ unlock(c) \/ PanicLoop(c)
  \/ free_block(c) \/ alloc_block(c)
  \/ add_region(c) \/ FreeNext(c) \/ AllocNext(c)

Call(c) ==
  \/ free_page(c) \/ free_linear_pages(c) \/ free_pages(c)
  \/ alloc_page(c) \/ alloc_linear_pages(c) \/ alloc_pages(c)

Next == \E c \in Cores : Step(c) \/ Call(c)

Spec == Init /\ [][Next]_vars

FairSpec == Spec /\ \A c \in Cores : WF_vars(Step(c))

-----------------------------------------------------------------------------
(* What the state means.                                                   *)

(* The pages the manager was created for: its bitmap is not among them. *)
Memory == IF \E c \in Cores : pc[c] \in {"new", "expect"} THEN {}
          ELSE UNION {Pages(memory_map[i]) :
                        i \in {j \in DOMAIN memory_map : IsFree(memory_map[j])}}

FreeBlock(p) == Block(p, entry_order[p])

(* The block that a core's free_block or alloc_block is working on.  A     *)
(* core that panics in free_block takes the block with it.                 *)
Working(c) == \/ pc[c] \in {"free_block", "split"}
              \/ pc[c] = "oob" /\ op[c] # "alloc"

InFlight(c) == IF Working(c) THEN Block(index[c], order[c]) ELSE {}

TypeOK ==
  /\ lock \in BOOLEAN
  /\ free_lists \in [Order -> Ptr]
  /\ buddy_map \subseteq Page
  /\ map_bits \in Nat
  /\ entry_order \in [Page -> Order \cup {DIRTY}]
  /\ next \in [Page -> Ptr \cup {DIRTY}]
  /\ prev \in [Page -> Ptr \cup {DIRTY}]
  /\ memory_map \in Seq(Segment)
  /\ seg \in Nat \ {0}
  /\ region \in [index : 0 .. PAGE_LIMIT, page_count : 0 .. PAGE_LIMIT]
  /\ instance \in BOOLEAN
  /\ used \subseteq Page
  /\ pc \in [Cores -> Labels]
  /\ op \in [Cores -> {"none", "add_region", "free", "alloc"}]
  /\ index \in [Cores -> Page]
  /\ order \in [Cores -> 0 .. NoOrder]
  /\ goal \in [Cores -> 0 .. NoOrder]
  /\ left \in [Cores -> Nat]
  /\ todo \in [Cores -> SUBSET (Page \X Order)]

(***************************************************************************)
(* The bitmap, the nodes and the list heads agree at every step: a bit is  *)
(* set exactly where a node of the manager is, the node is not a page some *)
(* client may have overwritten, next and prev are inverse to each other    *)
(* within one order, and a node without a predecessor is a list head.  So  *)
(* remove_buddy_list_entry and pop_buddy_list_entry never follow a pointer *)
(* into memory that is in use.                                             *)
(***************************************************************************)
LinksOK ==
  /\ \A o \in Order : free_lists[o] # NULL =>
       /\ free_lists[o] \in buddy_map
       /\ entry_order[free_lists[o]] = o
       /\ prev[free_lists[o]] = NULL
  /\ \A p \in buddy_map :
       /\ entry_order[p] \in Order
       /\ IF prev[p] = NULL
          THEN free_lists[entry_order[p]] = p
          ELSE /\ prev[p] \in buddy_map
               /\ next[prev[p]] = p
               /\ entry_order[prev[p]] = entry_order[p]
       /\ next[p] # NULL => /\ next[p] \in buddy_map
                            /\ prev[next[p]] = p
                            /\ entry_order[next[p]] = entry_order[p]

(* The nodes within n links of the head of the list of order o. *)
Chain(o) ==
  LET walk[n \in Nat] == IF n = 0 THEN {free_lists[o]} \ {NULL}
                         ELSE walk[n - 1] \cup ({next[p] : p \in walk[n - 1]} \ {NULL})
  IN  walk[Cardinality(buddy_map)]

(***************************************************************************)
(* No free block is lost: every block whose bit is set can be reached from *)
(* the head of the list of its order, where alloc_block looks for it.      *)
(***************************************************************************)
EveryBlockListed ==
  \A o \in Order : Chain(o) = {p \in buddy_map : entry_order[p] = o}

(***************************************************************************)
(* Every page has at most one owner: free blocks are aligned and do not    *)
(* overlap each other, the pages in use or the block a core works on.  So  *)
(* a page is never handed out twice, whatever was split and merged before. *)
(***************************************************************************)
OneOwner ==
  /\ \A p \in buddy_map :
       /\ Aligned(p, entry_order[p])
       /\ FreeBlock(p) \subseteq Page \ used
       /\ \A q \in buddy_map : p # q => FreeBlock(p) \cap FreeBlock(q) = {}
  /\ \A c \in Cores :
       /\ InFlight(c) \subseteq Page \ used
       /\ \A p \in buddy_map : InFlight(c) \cap FreeBlock(p) = {}

(***************************************************************************)
(* No page is lost: the pages in use, in free blocks and in the block that *)
(* a core works on are all the free pages of the memory map, without the   *)
(* ones that hold the bitmap.                                              *)
(***************************************************************************)
NothingLost ==
  Memory = used \cup (UNION {FreeBlock(p) : p \in buddy_map})
                \cup (UNION {InFlight(c) : c \in Cores})

(***************************************************************************)
(* free_block merges as far as it can: two free buddies of the same order  *)
(* below MAX_ORDER never exist side by side, in whatever order the calls   *)
(* of all cores freed them.                                                *)
(***************************************************************************)
FullyMerged ==
  \A p \in buddy_map :
    LET o == entry_order[p]
        b == get_buddy_index(p, o)
    IN  o < MAX_ORDER /\ b \in buddy_map => entry_order[b] # o

(***************************************************************************)
(* panic!("Out of physical memory") means what it says: when alloc_block   *)
(* gives up, no aligned block of the requested size consists of free pages *)
(* only.                                                                   *)
(***************************************************************************)
OutOfMemoryIsReal ==
  \A c \in Cores : pc[c] = "oom" =>
    \A p \in Memory : Aligned(p, goal[c]) => ~ Block(p, goal[c]) \subseteq Memory \ used

(***************************************************************************)
(* free_block reads the buddy's bit before it knows that there is a buddy. *)
(* The read is out of bounds only while the memory map is added, and only  *)
(* if the bitmap ends inside a block of the largest order: a manager that  *)
(* came up never panics in free_block, whatever is freed later.  The other *)
(* index panic is a request for no pages or for too many.                  *)
(***************************************************************************)
FreeInBounds ==
  \A c \in Cores : pc[c] = "oob" =>
    IF op[c] = "alloc" THEN goal[c] \notin Order
                       ELSE ~ instance /\ map_bits % 2^MAX_ORDER # 0

(***************************************************************************)
(* The doc of add_region(): "`index` and `page_count` don't need to        *)
(* fulfill any alignment requirements, buddy splits will be done when      *)
(* necessary."  Adding the segments of a memory map never panics.          *)
(***************************************************************************)
AnyRegionCanBeAdded ==
  \A c \in Cores : op[c] = "add_region" => pc[c] # "oob"

(***************************************************************************)
(* A panic leaves the guard alive, so no core changes the manager's state  *)
(* any more: the structure a panic interrupted is never used again.        *)
(***************************************************************************)
FrozenAfterPanic ==
  [][(\E c \in Cores : pc[c] \in {"oom", "oob"})
       => UNCHANGED <<lock, lists, map_bits, used, region, instance>>]_vars

(***************************************************************************)
(* lock() never loses a wake-up: a core spins for ever only if a core      *)
(* panicked, or the lock is free again and again and others take it first. *)
(***************************************************************************)
StarvedOnlyByOthers ==
  \A c \in Cores :
    <>[](pc[c] = "lock") => \/ <>(\E d \in Cores : pc[d] \in Panics)
                           \/ []<>(~ lock)

(***************************************************************************)
(* Every call that gets the lock ends: the recursion of free_block and of  *)
(* alloc_block and the loops around them terminate, in the guard's drop or *)
(* in a panic.                                                             *)
(***************************************************************************)
CallsEnd ==
  \A c \in Cores :
    pc[c] \in InLock ~> pc[c] \in {"idle", "segments"} \cup Panics

(***************************************************************************)
(* The lock flag and the cores' positions behave like SpinLock.  A core is *)
(* inside from the swap that found FALSE to the store of the drop.         *)
(***************************************************************************)
At(c) ==
  CASE pc[c] = "lock" -> "spinning"
    [] pc[c] \in InLock \ Panics -> "holding"
    [] pc[c] \in InLock \cap Panics -> "dead"
    [] OTHER -> "outside"

Mutex == INSTANCE SpinLock WITH locked <- lock, at <- [c \in Cores |-> At(c)]

ImplementsSpinLock == Mutex!Spec

(* Two cores are never inside the manager at the same time. *)
MutualExclusion == Mutex!MutualExclusion

(***************************************************************************)
(* The manager implements PageAllocator.  A block changes hands when the   *)
(* free_block of a call starts and when the outermost alloc_block returns. *)
(***************************************************************************)
Failed ==
  IF \E c \in Cores : pc[c] = "oom" THEN goal[CHOOSE c \in Cores : pc[c] = "oom"]
  ELSE IF \E c \in Cores : pc[c] = "oob" THEN NoOrder ELSE -1

Abstract == INSTANCE PageAllocator WITH memory <- Memory, held <- used, failed <- Failed

ImplementsPageAllocator == Abstract!Spec

=============================================================================
