-------------------------- MODULE KernelBootProofs ---------------------------
(*****************************************************************************)
(* gdt::init() leaves a TSS for one core and for none of several.  And what  *)
(* main() builds with pages of the manager is apart and works, for every     *)
(* memory map and every MAX_ORDER, although interrupt::init() writes over    *)
(* list nodes and over the bitmap on the way.                                *)
(*****************************************************************************)
EXTENDS PhysAllocatorProofs, KernelBoot

USE ZenonT(60), SMTT(60)

-----------------------------------------------------------------------------
(* The descriptor table.                                                   *)

(* LTR for the first core, on a table with a whole descriptor at slot 3 *)
LEMMA WholeDescriptor ==
  ASSUME NEW e, e[3] = Low(0), e[4] = High(0)
  PROVE  ltr(e, 0) = 0
<1>1. tss_slot(0) = 3 /\ (3 + 2) * 8 - 1 <= limit(0) /\ 3 + 1 = 4
  BY SMTT(60) DEF tss_slot, limit
<1>2. Low(0).kind = "tss low" /\ Low(0).core = 0
  BY DEF Low, Descriptor
<1>3. e[3].kind = "tss low" /\ e[3].core = 0
  BY <1>2
<1> QED BY <1>1, <1>3 DEF ltr

(* and on a table that has another first half in the slot behind it. *)
LEMMA SplitDescriptor ==
  ASSUME NEW e, e[4] = Low(1)
  PROVE  ltr(e, 0) = Fault
<1>1. tss_slot(0) = 3 /\ 3 + 1 = 4
  BY SMTT(60) DEF tss_slot
<1>2. \A i : Low(1) # High(i)
  <2> TAKE i
  <2>1. Low(1).kind = "tss low" /\ High(i).kind = "tss high"
    BY DEF Low, High, Descriptor
  <2> QED BY <2>1
<1>3. e[4] # High(e[3].core)
  BY <1>2
<1> QED BY <1>1, <1>3 DEF ltr

(* With one core, the two halves are where LTR looks for them. *)
LEMMA SingleCore == HasTss(1, 0)
<1>1. 3 \in Slots(1) /\ 4 \in Slots(1)
  BY SMTT(60) DEF Slots
<1>2. gdt_entries(1)[3] = Low(3 - 3) /\ gdt_entries(1)[4] = High(1 - 1)
  BY SMTT(60), <1>1 DEF gdt_entries
<1>3. gdt_entries(1)[3] = Low(0) /\ gdt_entries(1)[4] = High(0)
  BY SMTT(60), <1>2
<1>4. ltr(gdt_entries(1), 0) = 0
  BY <1>3, WholeDescriptor
<1> QED BY <1>4 DEF HasTss, tss_written

(* With several, the second round writes over the second half of the first *)
(* core's descriptor, and no other core's TSS is ever written.             *)
LEMMA SeveralCores ==
  ASSUME NEW n \in Nat, n > 1, NEW c \in 0 .. (n - 1)
  PROVE  ~ HasTss(n, c)
<1>1. CASE c # 0
  BY <1>1 DEF HasTss, tss_written
<1>2. CASE c = 0
  <2>1. 4 \in Slots(n) /\ 4 \in 3 .. (2 + n)
    BY SMTT(60) DEF Slots
  <2>2. gdt_entries(n)[4] = Low(4 - 3)
    BY SMTT(60), <2>1 DEF gdt_entries
  <2>3. gdt_entries(n)[4] = Low(1)
    BY SMTT(60), <2>2
  <2>4. ltr(gdt_entries(n), 0) = Fault
    BY <2>3, SplitDescriptor
  <2> QED BY SMTT(60), <1>2, <2>4 DEF HasTss, Fault
<1> QED BY <1>1, <1>2

(* For every bound on the number of cores, gdt::init() and                 *)
(* gdt::init_core() agree on the TSS descriptor exactly when there is one  *)
(* core.                                                                   *)
THEOREM OneCoreOnly == TssOnlyForOneCore
<1> SUFFICES ASSUME NEW n \in 1 .. MAX_CORES, NEW c \in 0 .. (n - 1)
             PROVE  HasTss(n, c) <=> n = 1
  BY DEF TssOnlyForOneCore
<1>1. n \in Nat /\ n >= 1
  BY SMTT(60), MaxCoresAssumption
<1>2. CASE n = 1
  <2>1. c = 0
    BY SMTT(60), <1>2
  <2> QED BY <1>2, <2>1, SingleCore
<1>3. CASE n > 1
  BY SMTT(60), <1>1, <1>3, SeveralCores
<1> QED BY SMTT(60), <1>1, <1>2, <1>3

-----------------------------------------------------------------------------
(* main() with the manager in place.                                       *)

(* The stages of main(), each a set of labels. *)
GotIdt == {"idt_core", "ist", "running"}
GotGdtr == GotIdt \cup {"idt", "idt_init"}
GotTss == GotGdtr \cup {"gdt_core"}
GotGdt == GotTss \cup {"gdt_init"}

Tables == {t \in {GDT} : at \in GotGdt} \cup {t \in {TSS} : at \in GotTss}
            \cup {t \in {IDT} : at \in GotIdt}

(* The order of the block that main() waits for, or that it got last. *)
Asked == IF at \in {"ist", "running"} THEN get_size_order(STACK_PAGES) ELSE 0

(* The stages in which it waits, and whether alloc_block has returned. *)
Waits == {"tss", "gdt_init", "idt_init", "ist"}

Served == pc[Core] \in {"idle", "unlock"} \/ (pc[Core] = "loop" /\ left[Core] = 0)

(***************************************************************************)
(* The free blocks that can still be reached from the list heads are among *)
(* those of f, which has the order of each.  They are aligned and apart,   *)
(* no two nodes have the same successor and none has a list head for one.  *)
(* The bitmap, entry_order and prev may hold anything: interrupt::init()   *)
(* has cleared some of them.                                               *)
(***************************************************************************)
Linking(f) ==
  /\ \A o \in Order : free_lists[o] # NULL =>
       free_lists[o] \in DOMAIN f /\ f[free_lists[o]] = o
  /\ \A p \in DOMAIN f : next[p] # NULL =>
       /\ next[p] \in DOMAIN f /\ f[next[p]] = f[p]
       /\ \A o \in Order : free_lists[o] # next[p]
  /\ \A p, q \in DOMAIN f : next[p] = next[q] /\ next[p] # NULL => p = q

Apart(f) ==
  /\ \A p \in DOMAIN f :
       /\ p \in Page /\ f[p] \in Order
       /\ Aligned(p, f[p])
       /\ Block(p, f[p]) \subseteq Memory \ used
  /\ \A p, q \in DOMAIN f : p # q => Block(p, f[p]) \cap Block(q, f[q]) = {}
  /\ pc[Core] = "split" =>
       \A p \in DOMAIN f : Block(index[Core], order[Core]) \cap Block(p, f[p]) = {}

(* What the manager does for main(): one allocation at a time. *)
Called ==
  /\ Core \in Cores
  /\ instance /\ used \subseteq Page /\ Memory \subseteq Page
  /\ free_lists \in [Order -> Ptr]
  /\ next \in [Page -> Ptr \cup {DIRTY}]
  /\ pc \in [Cores -> {"idle", "lock", "loop", "alloc_block", "split", "unlock", "oom", "oob"}]
  /\ op \in [Cores -> {"none", "alloc"}]
  /\ index \in [Cores -> Page]
  /\ order \in [Cores -> 0 .. NoOrder]
  /\ goal \in [Cores -> 0 .. NoOrder]
  /\ left \in [Cores -> Nat]
  /\ pc[Core] # "idle" =>
       /\ at \in Waits /\ op[Core] = "alloc" /\ goal[Core] = Asked
       /\ pc[Core] = "lock" => left[Core] = 1
       /\ pc[Core] = "loop" => left[Core] \in {0, 1}
       /\ pc[Core] \in {"alloc_block", "split", "unlock"} => left[Core] = 0
  /\ pc[Core] \in {"alloc_block", "split"} => order[Core] >= goal[Core]
  /\ pc[Core] = "split" =>
       /\ order[Core] \in Order /\ Aligned(index[Core], order[Core])
       /\ Block(index[Core], order[Core]) \subseteq Memory \ used

(* What main() has got: pages in use, each once. *)
Owned ==
  /\ Tables \subseteq used \cap Memory
  /\ at \in GotTss => GDT # TSS
  /\ at \in GotIdt => IDT \notin {GDT, TSS}
  /\ at \in Waits \cup {"running"} /\ Served =>
       /\ Asked \in Order /\ result \in Page
       /\ Block(result, Asked) \subseteq used \cap Memory
       /\ Block(result, Asked) \cap Tables = {}

(* What the tables and the registers hold. *)
Written ==
  /\ at \in GotTss \ GotIdt => entries = gdt_entries(NUM_CORES)
  /\ at \in GotIdt => /\ gates
                      /\ entries = IF GDT \in Cleared(IDT)
                                   THEN [s \in Slots(NUM_CORES) |-> Null]
                                   ELSE gdt_entries(NUM_CORES)
  /\ at \in GotGdtr => gdtr = GDT /\ tr = 0
  /\ at = "running" => idtr = IDT /\ ist1 = result + STACK_PAGES

(* All of it. *)
Up == Called /\ Owned /\ Written /\ \E f : Linking(f) /\ Apart(f)

(* No other core has been started. *)
Others == Core \in Cores /\ \A c \in Cores : c # Core => pc[c] = "idle"

(***************************************************************************)
(* The inductive invariant: the manager's own until it is in place, and    *)
(* from then on what is left of it when list nodes are written over.       *)
(***************************************************************************)
BInv ==
  /\ at \in GotGdt \cup {"start", "phys", "gdt", "tss"}
  /\ IF at \in {"start", "phys"} THEN IInv /\ NothingLost /\ Others
     ELSE Up

-----------------------------------------------------------------------------
(* What main() asks for.                                                   *)

(* One page for each table, and a block of four for the stack. *)
LEMMA Requests ==
  /\ num_gdt_pages(NUM_CORES) = 1 /\ num_tss_pages(NUM_CORES) = 1
  /\ get_size_order(1) = 0
  /\ get_size_order(STACK_PAGES) \in 0 .. NoOrder
  /\ get_size_order(STACK_PAGES) \in Order => get_size_order(STACK_PAGES) = 2
<1>1. num_gdt_pages(NUM_CORES) = 1 /\ num_tss_pages(NUM_CORES) = 1
  BY SMTT(60) DEF num_gdt_pages, num_tss_pages, NUM_CORES, PagesFor, PAGE_SIZE
<1>2. 2^0 = 1 /\ 2^1 = 2 /\ 2^2 = 4
  <2>1. 2^0 = 1
    BY SMTT(60)
  <2>2. 2^(0 + 1) = 2 * 2^0 /\ 2^(1 + 1) = 2 * 2^1
    BY Pow2Succ
  <2> QED BY SMTT(60), <2>1, <2>2
<1>3. get_size_order(1) = 0
  <2> DEFINE o == get_size_order(1)
  <2>1. \/ o \in Order /\ \A p \in Order : 1 <= 2^p => o <= p
        \/ 1 > 2^MAX_ORDER
    BY SMTT(60), SizeOrderIsTight
  <2> HIDE DEF o
  <2>2. 0 \in Order /\ Order \subseteq Nat /\ 2^MAX_ORDER >= 1 /\ 2^MAX_ORDER \in Nat
    BY SMTT(60), Pow2Pos, MaxOrderAssumption DEF Order
  <2>3. 1 <= 2^0
    BY SMTT(60), <1>2
  <2> DEFINE top == 2^MAX_ORDER
  <2>4. ~ (1 > top)
    <3>1. top \in Nat /\ top >= 1
      BY <2>2
    <3> HIDE DEF top
    <3> QED BY SMTT(60), <3>1
  <2>5. o \in Nat /\ o <= 0
    BY <2>1, <2>2, <2>3, <2>4
  <2>6. o = 0
    BY SMTT(60), <2>5
  <2> QED BY <2>6 DEF o
<1>4. ASSUME get_size_order(4) \in Order PROVE get_size_order(4) = 2
  <2> DEFINE o == get_size_order(4)
  <2>1. o # NoOrder
    BY SMTT(60), <1>4, MaxOrderAssumption DEF Order, NoOrder
  <2>2. 4 <= 2^o /\ \A p \in Order : 4 <= 2^p => o <= p
    BY SMTT(60), <2>1, SizeOrderIsTight
  <2>3. o \in Order
    BY <1>4
  <2> HIDE DEF o
  <2>4. o # 0 /\ o # 1
    <3>1. ~ (4 <= 1) /\ ~ (4 <= 2)
      BY SMTT(60)
    <3> QED BY <1>2, <2>2, <3>1
  <2>5. o \in Nat /\ o >= 2 /\ 2 \in Order
    BY SMTT(60), <2>3, <2>4, MaxOrderAssumption DEF Order
  <2>6. 4 <= 2^2
    BY SMTT(60), <1>2
  <2>7. o <= 2
    BY <2>2, <2>5, <2>6
  <2>8. o = 2
    BY SMTT(60), <2>5, <2>7
  <2> QED BY <2>8 DEF o
<1> QED BY <1>1, <1>3, <1>4, SizeOrderType DEF STACK_PAGES

-----------------------------------------------------------------------------
(* The manager, called by main().                                          *)

(* The memory stays what it is. *)
LEMMA MemoryStays ==
  ASSUME NEW S, S \cap {"new", "expect"} = {}, pc \in [Cores -> S], pc' \in [Cores -> S],
         memory_map' = memory_map
  PROVE  Memory' = Memory
<1>1. ~ (\E c \in Cores : pc[c] \in {"new", "expect"})
  OBVIOUS
<1>2. ~ (\E c \in Cores : pc'[c] \in {"new", "expect"})
  OBVIOUS
<1> QED BY <1>1, <1>2 DEF Memory

(* A step that changes no list and takes no block. *)
LEMMA QuietLists ==
  ASSUME NEW f, Linking(f), Apart(f), UNCHANGED <<free_lists, next, used>>,
         Memory' = Memory, pc'[Core] # "split"
  PROVE  Linking(f)' /\ Apart(f)'
<1>1. Linking(f)'
  BY DEF Linking
<1>2. Apart(f)'
  BY DEF Apart
<1> QED BY <1>1, <1>2

(* The steps that can follow a call. *)
LEMMA AllocSteps ==
  ASSUME Called, Step(Core)
  PROVE  \/ try_lock(Core) \/ unlock(Core) \/ PanicLoop(Core) \/ AllocNext(Core)
         \/ AllocBlockClimbs(Core) \/ AllocBlockPanics(Core) \/ AllocBlockPops(Core)
         \/ AllocBlockSplits(Core) \/ AllocBlockReturns(Core)
<1>1. pc[Core] \in {"idle", "lock", "loop", "alloc_block", "split", "unlock", "oom", "oob"}
  BY DEF Called
<1>2. pc[Core] = "loop" => op[Core] = "alloc"
  BY DEF Called
<1>3. ~ (New(Core) \/ NewPanics(Core) \/ NextSegment(Core) \/ free_block(Core))
  BY <1>1 DEF New, NewPanics, NextSegment, free_block, FreeBlockPanics, FreeBlockMerges,
              FreeBlockInserts
<1>4. ~ (add_region(Core) \/ FreeNext(Core))
  BY <1>2 DEF add_region, FreeNext
<1> QED BY <1>3, <1>4 DEF Step, alloc_block

(* The block that alloc_block works on. *)
LEMMA InHand ==
  ASSUME Called, pc[Core] = "split"
  PROVE  /\ index[Core] \in Page /\ index[Core] \in Nat
         /\ order[Core] \in Order /\ order[Core] \in Nat /\ goal[Core] \in Nat
         /\ goal[Core] <= order[Core] /\ Aligned(index[Core], order[Core])
         /\ Block(index[Core], order[Core]) \subseteq Memory \ used
<1>1. index[Core] \in Page /\ goal[Core] \in 0 .. NoOrder /\ Core \in Cores
  BY DEF Called
<1>2. goal[Core] \in Nat
  BY SMTT(60), <1>1, MaxOrderAssumption DEF NoOrder
<1>3. order[Core] \in Order /\ order[Core] >= goal[Core]
  BY DEF Called
<1>4. order[Core] \in Nat /\ index[Core] \in Nat
  BY <1>1, <1>3, OrderNat, PageNat
<1>5. goal[Core] <= order[Core]
  BY SMTT(60), <1>2, <1>3, <1>4
<1> QED BY <1>1, <1>2, <1>3, <1>4, <1>5 DEF Called

(* main() and its tables while the manager works. *)
Waiting == UNCHANGED <<at, statics, contents, registers>>

(* What main() has stays its own. *)
LEMMA OwnedStays ==
  ASSUME Owned, UNCHANGED <<at, GDT, TSS, IDT, result, used>>, Memory' = Memory,
         Served' => Served
  PROVE  Owned'
<1>1. Tables' = Tables /\ Asked' = Asked
  BY DEF Tables, Asked
<1> QED BY <1>1 DEF Owned

(* And so do the contents of the tables. *)
LEMMA WrittenStays ==
  ASSUME Written, Waiting, at = "running" => result' = result
  PROVE  Written'
<1>1. Cleared(IDT)' = Cleared(IDT)
  BY DEF Waiting, statics, Cleared
<1> QED BY <1>1 DEF Written, Waiting, statics, contents, registers

(* Taking the lock, dropping it, and the loop of the public function. *)
LEMMA LoopSteps ==
  ASSUME Called, try_lock(Core) \/ unlock(Core) \/ PanicLoop(Core) \/ AllocNext(Core), Waiting
  PROVE  /\ Called' /\ pc'[Core] # "split" /\ Memory' = Memory
         /\ UNCHANGED <<free_lists, next, used>>
         /\ Served' => Served
<1> DEFINE L == {"idle", "lock", "loop", "alloc_block", "split", "unlock", "oom", "oob"}
<1> USE DEF Goto, lists, boot, call
<1>1. Core \in Cores /\ pc[Core] \in L
  BY DEF Called
<1>2. UNCHANGED <<free_lists, next, used, instance, memory_map, index>>
  BY DEF try_lock, unlock, PanicLoop, AllocNext, vars
<1>3. Asked' = Asked /\ at' = at
  BY DEF Asked, Waiting
<1>4. CASE try_lock(Core)
  <2>1. UNCHANGED <<op, goal, left, order>> /\ pc \in [Cores -> L] /\ pc[Core] = "lock"
    BY <1>4 DEF try_lock, Called
  <2>2. pc' = pc \/ pc' = [pc EXCEPT ![Core] = "loop"]
    BY <1>4 DEF try_lock
  <2>3. pc' \in [Cores -> L] /\ pc'[Core] \in {"lock", "loop"}
    BY <1>1, <2>1, <2>2
  <2>4. left[Core] = 1 /\ 1 # 0
    BY SMTT(60), <2>1 DEF Called
  <2>5. ~ Served'
    BY <2>1, <2>3, <2>4 DEF Served
  <2>6. Memory' = Memory
    BY <1>2, <2>1, <2>3, MemoryStays
  <2>7. Called'
    BY <1>1, <1>2, <1>3, <2>1, <2>3, <2>4, <2>6 DEF Called
  <2> QED BY <1>2, <2>3, <2>5, <2>6, <2>7
<1>5. CASE unlock(Core)
  <2>1. /\ UNCHANGED <<left, order>> /\ pc \in [Cores -> L] /\ pc[Core] = "unlock"
        /\ op[Core] = "alloc"
    BY <1>5 DEF unlock, Called
  <2>2. /\ pc' = [pc EXCEPT ![Core] = "idle"] /\ op' = [op EXCEPT ![Core] = "none"]
        /\ goal' = [goal EXCEPT ![Core] = 0]
    BY <1>5, <2>1 DEF unlock
  <2>3. pc' \in [Cores -> L] /\ pc'[Core] = "idle"
    BY <1>1, <2>1, <2>2
  <2>4. 0 \in 0 .. NoOrder
    BY SMTT(60), MaxOrderAssumption DEF NoOrder
  <2>5. op' \in [Cores -> {"none", "alloc"}] /\ goal' \in [Cores -> 0 .. NoOrder]
    BY <1>1, <2>2, <2>4 DEF Called
  <2>6. Memory' = Memory
    BY <1>2, <2>1, <2>3, MemoryStays
  <2>7. Called'
    BY <1>1, <1>2, <2>1, <2>3, <2>5, <2>6 DEF Called
  <2> QED BY <1>2, <2>1, <2>3, <2>6, <2>7 DEF Served
<1>6. CASE PanicLoop(Core)
  <2>1. UNCHANGED <<op, goal, left, order, pc>> /\ pc \in [Cores -> L] /\ pc[Core] # "split"
    BY <1>6 DEF PanicLoop, vars, Called, Panics
  <2>2. Memory' = Memory
    BY <1>2, <2>1, MemoryStays
  <2>3. Called'
    BY <1>1, <1>2, <1>3, <2>1, <2>2 DEF Called
  <2> QED BY <1>2, <2>1, <2>2, <2>3 DEF Served
<1>7. CASE AllocNext(Core)
  <2>1. /\ UNCHANGED <<op, goal>> /\ pc \in [Cores -> L] /\ pc[Core] = "loop"
        /\ left[Core] \in {0, 1} /\ left \in [Cores -> Nat] /\ order \in [Cores -> 0 .. NoOrder]
        /\ goal \in [Cores -> 0 .. NoOrder]
    BY <1>7 DEF AllocNext, Called
  <2>2. CASE left[Core] = 1
    <3>1. /\ left' = [left EXCEPT ![Core] = @ - 1] /\ order' = [order EXCEPT ![Core] = goal[Core]]
          /\ pc' = [pc EXCEPT ![Core] = "alloc_block"]
      BY SMTT(60), <1>7, <2>2 DEF AllocNext
    <3>2. /\ pc' \in [Cores -> L] /\ pc'[Core] = "alloc_block"
          /\ order' \in [Cores -> 0 .. NoOrder] /\ order'[Core] = goal[Core]
      BY <1>1, <2>1, <3>1
    <3>3. left' \in [Cores -> Nat] /\ left'[Core] = 0
      BY SMTT(60), <1>1, <2>1, <2>2, <3>1
    <3>4. order'[Core] >= goal'[Core]
      <4>1. goal[Core] \in 0 .. NoOrder
        BY <1>1, <2>1
      <4> QED BY SMTT(60), <2>1, <3>2, <4>1, MaxOrderAssumption DEF NoOrder
    <3>5. Memory' = Memory
      BY <1>2, <2>1, <3>2, MemoryStays
    <3>6. Called'
      BY <1>1, <1>2, <1>3, <2>1, <3>2, <3>3, <3>4, <3>5 DEF Called
    <3> QED BY <1>2, <3>2, <3>5, <3>6 DEF Served
  <2>3. CASE left[Core] = 0
    <3>1. left' = left /\ order' = order /\ pc' = [pc EXCEPT ![Core] = "unlock"]
      BY SMTT(60), <1>7, <2>3 DEF AllocNext
    <3>2. pc' \in [Cores -> L] /\ pc'[Core] = "unlock"
      BY <1>1, <2>1, <3>1
    <3>3. Memory' = Memory
      BY <1>2, <2>1, <3>2, MemoryStays
    <3>4. Called'
      BY <1>1, <1>2, <1>3, <2>1, <2>3, <3>1, <3>2, <3>3 DEF Called
    <3> QED BY <1>2, <2>1, <2>3, <3>2, <3>3, <3>4 DEF Served
  <2> QED BY <2>1, <2>2, <2>3
<1> QED BY <1>4, <1>5, <1>6, <1>7

(* The climb to an order with a block, and the panics. *)
LEMMA ClimbSteps ==
  ASSUME Called, AllocBlockClimbs(Core) \/ AllocBlockPanics(Core), Waiting
  PROVE  /\ Called' /\ pc'[Core] # "split" /\ Memory' = Memory
         /\ UNCHANGED <<free_lists, next, used>>
         /\ Served' => Served
<1> DEFINE L == {"idle", "lock", "loop", "alloc_block", "split", "unlock", "oom", "oob"}
<1> USE DEF Goto, lists, boot, call
<1>1. /\ Core \in Cores /\ pc \in [Cores -> L] /\ pc[Core] = "alloc_block"
      /\ order \in [Cores -> 0 .. NoOrder] /\ order[Core] >= goal[Core]
      /\ goal[Core] \in 0 .. NoOrder
  BY DEF Called, AllocBlockClimbs, AllocBlockPanics
<1>2. UNCHANGED <<free_lists, next, used, instance, memory_map, index, op, goal, left>>
  BY DEF AllocBlockClimbs, AllocBlockPanics
<1>3. Asked' = Asked /\ at' = at
  BY DEF Asked, Waiting
<1>4. /\ pc' \in [Cores -> L] /\ pc'[Core] \in {"alloc_block", "oom", "oob"}
  <2>1. \/ pc' = pc \/ pc' = [pc EXCEPT ![Core] = "oom"] \/ pc' = [pc EXCEPT ![Core] = "oob"]
    BY DEF AllocBlockClimbs, AllocBlockPanics
  <2> QED BY <1>1, <2>1
<1>5. order' \in [Cores -> 0 .. NoOrder] /\ order'[Core] >= goal[Core]
  <2>1. CASE order' = order
    BY <1>1, <2>1
  <2>2. CASE order' # order
    <3>1. order' = [order EXCEPT ![Core] = @ + 1] /\ order[Core] \in Order
          /\ order[Core] # MAX_ORDER
      BY <2>2 DEF AllocBlockClimbs, AllocBlockPanics
    <3>2. order[Core] + 1 \in 0 .. NoOrder /\ order[Core] + 1 >= goal[Core]
      BY SMTT(60), <1>1, <3>1, MaxOrderAssumption DEF Order, NoOrder
    <3> DEFINE n == order[Core] + 1
    <3>3. order' = [order EXCEPT ![Core] = n] /\ n \in 0 .. NoOrder /\ n >= goal[Core]
      BY <3>1, <3>2
    <3> HIDE DEF n
    <3> QED BY <1>1, <3>3
  <2> QED BY <2>1, <2>2
<1>6. Memory' = Memory
  BY <1>1, <1>2, <1>4, MemoryStays
<1>7. Called'
  BY <1>1, <1>2, <1>3, <1>4, <1>5, <1>6 DEF Called
<1> QED BY <1>2, <1>4, <1>6, <1>7 DEF Served

(* A block of f starts with its node. *)
LEMMA NodeInBlock ==
  ASSUME NEW f, Apart(f), NEW p \in DOMAIN f
  PROVE  p \in Block(p, f[p]) /\ p \in Page /\ p \in Nat /\ f[p] \in Nat
<1>1. p \in Page /\ f[p] \in Order
  BY DEF Apart
<1>2. p \in Nat /\ f[p] \in Nat
  BY <1>1, OrderNat, PageNat
<1> QED BY <1>1, <1>2, BlockStarts

(* alloc_block takes the head of a list: what is behind it is still listed. *)
LEMMA PopStep ==
  ASSUME Called, NEW f, Linking(f), Apart(f), AllocBlockPops(Core), Waiting
  PROVE  /\ Called' /\ Memory' = Memory /\ used' = used
         /\ ~ Served'
         /\ \E g : Linking(g)' /\ Apart(g)'
<1> DEFINE L == {"idle", "lock", "loop", "alloc_block", "split", "unlock", "oom", "oob"}
           o == order[Core]
           h == free_lists[o]
<1> USE DEF Goto, boot, call
<1>1. /\ Core \in Cores /\ pc \in [Cores -> L] /\ pc[Core] = "alloc_block"
      /\ o \in Order /\ h # NULL
  BY DEF Called, AllocBlockPops
<1>2. /\ free_lists' = [free_lists EXCEPT ![o] = next[h]] /\ next' = next
      /\ index' = [index EXCEPT ![Core] = h] /\ pc' = [pc EXCEPT ![Core] = "split"]
      /\ UNCHANGED <<used, instance, memory_map, op, goal, left, order>>
  BY DEF AllocBlockPops, pop_buddy_list_entry
<1>3. h \in DOMAIN f /\ f[h] = o
  BY <1>1 DEF Linking
<1>4. h \in Page /\ Aligned(h, o) /\ Block(h, o) \subseteq Memory \ used
  BY <1>3 DEF Apart
<1>5. pc' \in [Cores -> L] /\ pc'[Core] = "split"
  BY <1>1, <1>2
<1>6. Memory' = Memory
  BY <1>1, <1>2, <1>5, MemoryStays
<1>7. next[h] # NULL => next[h] \in DOMAIN f /\ f[next[h]] = o /\ next[h] # h
  BY <1>1, <1>3 DEF Linking
<1>8. free_lists \in [Order -> Ptr] /\ index \in [Cores -> Page]
  BY DEF Called
<1>9. \A p \in DOMAIN f : p \in Page
  BY DEF Apart
<1>10. free_lists' \in [Order -> Ptr] /\ index' \in [Cores -> Page]
  <2>1. next[h] \in Ptr
    BY <1>7, <1>9 DEF Ptr
  <2> QED BY <1>1, <1>2, <1>4, <1>8, <2>1
<1>11. index'[Core] = h /\ order'[Core] = o
  BY <1>1, <1>2, <1>8
<1>12. Called'
  <2>1. Asked' = Asked /\ at' = at
    BY DEF Asked, Waiting
  <2> QED BY <1>1, <1>2, <1>4, <1>5, <1>6, <1>10, <1>11, <2>1 DEF Called
<1>13. free_lists'[o] = next[h] /\ \A n \in Order : n # o => free_lists'[n] = free_lists[n]
  BY <1>1, <1>2, <1>8
<1>14. PICK g : DOMAIN g = DOMAIN f \ {h} /\ \A p \in DOMAIN g : g[p] = f[p]
  <2> DEFINE g == [p \in DOMAIN f \ {h} |-> f[p]]
  <2>1. DOMAIN g = DOMAIN f \ {h} /\ \A p \in DOMAIN g : g[p] = f[p]
    OBVIOUS
  <2> QED BY <2>1
<1>15. Linking(g)'
  <2>1. ASSUME NEW n \in Order, free_lists'[n] # NULL
        PROVE  free_lists'[n] \in DOMAIN g /\ g[free_lists'[n]] = n
    <3>1. CASE n = o
      BY <1>7, <1>13, <1>14, <2>1, <3>1
    <3>2. CASE n # o
      <4>1. free_lists'[n] = free_lists[n] /\ free_lists[n] \in DOMAIN f /\ f[free_lists[n]] = n
        BY <1>13, <2>1, <3>2 DEF Linking
      <4> QED BY <1>3, <1>14, <3>2, <4>1
    <3> QED BY <3>1, <3>2
  <2>2. ASSUME NEW p \in DOMAIN g, next[p] # NULL
        PROVE  /\ next[p] \in DOMAIN g /\ g[next[p]] = g[p]
               /\ \A n \in Order : free_lists'[n] # next[p]
    <3>1. /\ p \in DOMAIN f /\ p # h /\ next[p] \in DOMAIN f /\ f[next[p]] = f[p]
          /\ \A n \in Order : free_lists[n] # next[p]
      BY <1>14, <2>2 DEF Linking
    <3>2. next[p] # h
      BY <1>1, <3>1
    <3>3. next[p] # next[h]
      BY <1>3, <2>2, <3>1 DEF Linking
    <3> QED BY <1>13, <1>14, <3>1, <3>2, <3>3
  <2>3. \A p, q \in DOMAIN g : next[p] = next[q] /\ next[p] # NULL => p = q
    BY <1>14 DEF Linking
  <2> QED BY SMTT(60), <1>2, <2>1, <2>2, <2>3 DEF Linking
<1>16. Apart(g)'
  <2>1. \A p \in DOMAIN g : p \in DOMAIN f /\ g[p] = f[p] /\ p # h
    BY <1>14
  <2>2. \A p \in DOMAIN g : Block(h, o) \cap Block(p, g[p]) = {}
    BY <1>3, <2>1 DEF Apart
  <2> QED BY <1>2, <1>6, <1>11, <2>1, <2>2 DEF Apart
<1> QED BY <1>2, <1>5, <1>6, <1>12, <1>15, <1>16 DEF Served

(* It splits the block: the upper half becomes the head of a list. *)
LEMMA SplitStep ==
  ASSUME Called, NEW f, Linking(f), Apart(f), AllocBlockSplits(Core), Waiting
  PROVE  /\ Called' /\ Memory' = Memory /\ used' = used
         /\ ~ Served'
         /\ \E g : Linking(g)' /\ Apart(g)'
<1> DEFINE L == {"idle", "lock", "loop", "alloc_block", "split", "unlock", "oom", "oob"}
           i == index[Core]
           o == order[Core] - 1
           b == get_buddy_index(i, o)
<1> USE DEF Goto, boot, call
<1>1. /\ Core \in Cores /\ pc \in [Cores -> L] /\ pc[Core] = "split" /\ order[Core] > goal[Core]
      /\ free_lists \in [Order -> Ptr] /\ next \in [Page -> Ptr \cup {DIRTY}]
      /\ order \in [Cores -> 0 .. NoOrder]
  BY DEF Called, AllocBlockSplits
<1>2. /\ free_lists' = [free_lists EXCEPT ![o] = b]
      /\ next' = [next EXCEPT ![b] = free_lists[o]]
      /\ order' = [order EXCEPT ![Core] = o]
      /\ UNCHANGED <<used, instance, memory_map, op, goal, left, index, pc>>
  BY DEF AllocBlockSplits, push_buddy_list_entry
<1>3. /\ i \in Page /\ i \in Nat /\ Aligned(i, order[Core])
      /\ Block(i, order[Core]) \subseteq Memory \ used
  BY <1>1, InHand
<1>4. o \in Order /\ o \in Nat /\ o + 1 = order[Core] /\ o >= goal[Core] /\ o \in 0 .. NoOrder
  <2>1. order[Core] \in Order /\ order[Core] \in Nat /\ goal[Core] \in Nat
    BY <1>1, InHand
  <2> QED BY SMTT(60), <1>1, <2>1, MaxOrderAssumption DEF Order, NoOrder
<1>5. /\ b = i + 2^o
      /\ Aligned(i, o) /\ Aligned(b, o)
      /\ Block(i, o) \cap Block(b, o) = {}
      /\ Block(i, order[Core]) = Block(i, o) \cup Block(b, o)
  BY SMTT(60), <1>3, <1>4, SplitIsExact
<1>6. b \in Nat
  BY SMTT(60), <1>3, <1>4, <1>5, Pow2Nat
<1>7. b \in Block(b, o)
  BY <1>4, <1>6, BlockStarts
<1>8. pc' \in [Cores -> L] /\ pc'[Core] = "split"
  BY <1>1, <1>2
<1>9. Memory' = Memory
  BY <1>1, <1>2, <1>8, MemoryStays
<1>10. order' \in [Cores -> 0 .. NoOrder] /\ order'[Core] = o /\ index'[Core] = i
  BY <1>1, <1>2, <1>4
<1>11. \A p \in DOMAIN f :
         /\ p \in Block(p, f[p])
         /\ Block(i, o) \cap Block(p, f[p]) = {} /\ Block(b, o) \cap Block(p, f[p]) = {}
  <2>1. \A p \in DOMAIN f : Block(i, order[Core]) \cap Block(p, f[p]) = {}
    BY <1>1 DEF Apart
  <2>2. \A p \in DOMAIN f : p \in Block(p, f[p])
    BY NodeInBlock
  <2> HIDE DEF i, o, b
  <2> QED BY <1>5, <2>1, <2>2
<1>12. b \notin DOMAIN f
  BY <1>7, <1>11
<1>13. Block(i, o) \subseteq Memory \ used /\ Block(b, o) \subseteq Memory \ used
  BY <1>3, <1>5
<1>14. b \in Page
  <2>1. Memory \subseteq Page
    BY DEF Called
  <2> QED BY <1>7, <1>13, <2>1
<1> HIDE DEF i, o, b
<1>15. /\ free_lists'[o] = b /\ \A n \in Order : n # o => free_lists'[n] = free_lists[n]
       /\ next'[b] = free_lists[o] /\ \A p \in DOMAIN f : next'[p] = next[p]
       /\ free_lists' \in [Order -> Ptr] /\ next' \in [Page -> Ptr \cup {DIRTY}]
  <2>1. \A p \in DOMAIN f : p \in Page
    BY DEF Apart
  <2>2. b \in Ptr /\ free_lists[o] \in Ptr
    BY <1>1, <1>4, <1>14 DEF Ptr
  <2> QED BY <1>1, <1>2, <1>4, <1>12, <1>14, <2>1, <2>2
<1>16. Called'
  <2>1. Asked' = Asked /\ at' = at
    BY DEF Asked, Waiting
  <2> QED BY <1>1, <1>2, <1>4, <1>5, <1>8, <1>9, <1>10, <1>13, <1>15, <2>1 DEF Called
<1>17. PICK g : /\ DOMAIN g = DOMAIN f \cup {b} /\ g[b] = o
                /\ \A p \in DOMAIN f : g[p] = f[p]
  <2> DEFINE g == [p \in DOMAIN f \cup {b} |-> IF p = b THEN o ELSE f[p]]
  <2>1. DOMAIN g = DOMAIN f \cup {b} /\ g[b] = o
    OBVIOUS
  <2>2. \A p \in DOMAIN f : g[p] = f[p]
    BY <1>12
  <2> QED BY <2>1, <2>2
<1>18. Linking(g)'
  <2>1. ASSUME NEW n \in Order, free_lists'[n] # NULL
        PROVE  free_lists'[n] \in DOMAIN g /\ g[free_lists'[n]] = n
    <3>1. CASE n = o
      BY <1>15, <1>17, <3>1
    <3>2. CASE n # o
      <4>1. free_lists'[n] = free_lists[n] /\ free_lists[n] \in DOMAIN f /\ f[free_lists[n]] = n
        BY <1>15, <2>1, <3>2 DEF Linking
      <4> QED BY <1>17, <4>1
    <3> QED BY <3>1, <3>2
  <2>2. free_lists[o] # NULL => free_lists[o] \in DOMAIN f /\ f[free_lists[o]] = o
    BY <1>4 DEF Linking
  <2>3. \A p \in DOMAIN f : next[p] # NULL =>
          /\ next[p] \in DOMAIN f /\ f[next[p]] = f[p] /\ next[p] # b
          /\ \A n \in Order : free_lists[n] # next[p]
    BY SMTT(60), ZenonT(60), <1>12 DEF Linking
  <2>4. ASSUME NEW p \in DOMAIN g, next'[p] # NULL
        PROVE  /\ next'[p] \in DOMAIN g /\ g[next'[p]] = g[p]
               /\ \A n \in Order : free_lists'[n] # next'[p]
    <3>1. CASE p = b
      <4>1. next'[p] = free_lists[o] /\ free_lists[o] \in DOMAIN f /\ f[free_lists[o]] = o
        BY <1>15, <2>2, <2>4, <3>1
      <4>2. \A n \in Order : n # o => free_lists[n] # free_lists[o]
        BY <2>2, <2>4, <4>1 DEF Linking
      <4>3. free_lists[o] # b
        BY <1>12, <4>1
      <4> QED BY <1>15, <1>17, <3>1, <4>1, <4>2, <4>3
    <3>2. CASE p \in DOMAIN f
      BY SMTT(60), <1>15, <1>17, <2>3, <2>4, <3>2
    <3> QED BY <1>17, <3>1, <3>2
  <2>5. ASSUME NEW p \in DOMAIN g, NEW q \in DOMAIN g, next'[p] = next'[q], next'[p] # NULL
        PROVE  p = q
    <3>1. CASE p \in DOMAIN f /\ q \in DOMAIN f
      BY <1>15, <2>5, <3>1 DEF Linking
    <3>2. CASE p = b /\ q \in DOMAIN f
      BY SMTT(60), <1>4, <1>15, <2>3, <2>5, <3>2
    <3>3. CASE p \in DOMAIN f /\ q = b
      BY SMTT(60), ZenonT(60), <1>4, <1>15, <2>3, <2>5, <3>3
    <3> QED BY <1>17, <3>1, <3>2, <3>3
  <2> QED BY <2>1, <2>4, <2>5 DEF Linking
<1>19. Apart(g)'
  <2>1. ASSUME NEW p \in DOMAIN g
        PROVE  /\ p \in Page /\ g[p] \in Order /\ Aligned(p, g[p])
               /\ Block(p, g[p]) \subseteq Memory \ used
               /\ Block(i, o) \cap Block(p, g[p]) = {}
    <3>1. CASE p = b
      BY <1>4, <1>5, <1>13, <1>14, <1>17, <3>1
    <3>2. CASE p \in DOMAIN f
      BY <1>11, <1>17, <3>2 DEF Apart
    <3> QED BY <1>17, <3>1, <3>2
  <2>2. ASSUME NEW p \in DOMAIN g, NEW q \in DOMAIN g, p # q
        PROVE  Block(p, g[p]) \cap Block(q, g[q]) = {}
    <3>1. CASE p \in DOMAIN f /\ q \in DOMAIN f
      BY <1>17, <2>2, <3>1 DEF Apart
    <3>2. CASE p = b /\ q \in DOMAIN f
      BY <1>11, <1>17, <3>2
    <3>3. CASE p \in DOMAIN f /\ q = b
      BY <1>11, <1>17, <3>3
    <3> QED BY <1>17, <2>2, <3>1, <3>2, <3>3
  <2> QED BY <1>2, <1>9, <1>10, <2>1, <2>2 DEF Apart
<1> QED BY <1>2, <1>8, <1>9, <1>16, <1>18, <1>19 DEF Served

(* It returns: the block is new to main(). *)
LEMMA ReturnStep ==
  ASSUME Called, Owned, NEW f, Linking(f), Apart(f), AllocBlockReturns(Core), Waiting,
         result' = index[Core]
  PROVE  /\ Called' /\ Owned' /\ Memory' = Memory
         /\ Linking(f)' /\ Apart(f)'
<1> DEFINE L == {"idle", "lock", "loop", "alloc_block", "split", "unlock", "oom", "oob"}
           i == index[Core]
           o == order[Core]
           block == Block(i, o)
<1> USE DEF Goto, boot, call
<1>1. /\ Core \in Cores /\ pc \in [Cores -> L] /\ pc[Core] = "split" /\ order[Core] = goal[Core]
      /\ next \in [Page -> Ptr \cup {DIRTY}] /\ used \subseteq Page
      /\ order \in [Cores -> 0 .. NoOrder] /\ index \in [Cores -> Page]
      /\ goal[Core] = Asked /\ left[Core] = 0 /\ at \in Waits
  BY DEF Called, AllocBlockReturns
<1>2. /\ next' = [p \in Page |-> IF p \in block THEN DIRTY ELSE next[p]]
      /\ used' = used \cup block
      /\ order' = [order EXCEPT ![Core] = 0] /\ index' = [index EXCEPT ![Core] = 0]
      /\ pc' = [pc EXCEPT ![Core] = "loop"]
      /\ UNCHANGED <<free_lists, instance, memory_map, op, goal, left>>
  BY <1>1 DEF AllocBlockReturns, Return
<1>3. i \in Page /\ o \in Order /\ block \subseteq Memory \ used
  BY <1>1, InHand
<1>4. pc' \in [Cores -> L] /\ pc'[Core] = "loop"
  BY <1>1, <1>2
<1>5. Memory' = Memory
  <2>1. memory_map' = memory_map /\ pc \in [Cores -> L]
    BY <1>1, <1>2
  <2> QED BY <1>4, <2>1, MemoryStays
<1>6. 0 \in Page /\ 0 \in 0 .. NoOrder
  BY SMTT(60), MaxOrderAssumption, SizeAssumption DEF NoOrder, Page
<1>7. order' \in [Cores -> 0 .. NoOrder] /\ index' \in [Cores -> Page]
  BY <1>1, <1>2, <1>6
<1> HIDE DEF block
<1>8. used' \subseteq Page
  <2>1. Memory \subseteq Page
    BY DEF Called
  <2> QED BY <1>1, <1>2, <1>3, <2>1
<1>9. next' \in [Page -> Ptr \cup {DIRTY}]
  BY <1>1, <1>2
<1>10. Asked' = Asked /\ Tables' = Tables /\ UNCHANGED <<at, GDT, TSS, IDT>>
  BY DEF Asked, Tables, Waiting, statics
<1>11. Called'
  BY <1>1, <1>2, <1>4, <1>5, <1>7, <1>8, <1>9, <1>10 DEF Called
<1>12. \A p \in DOMAIN f : /\ p \in Page /\ p \notin block /\ Block(p, f[p]) \cap block = {}
                           /\ next'[p] = next[p]
  <2>1. \A p \in DOMAIN f : Block(p, f[p]) \cap block = {}
    BY <1>1 DEF Apart, block
  <2>2. \A p \in DOMAIN f : p \in Block(p, f[p]) /\ p \in Page
    BY NodeInBlock
  <2> QED BY <1>2, <2>1, <2>2
<1>13. Linking(f)'
  BY <1>2, <1>12 DEF Linking
<1>14. Apart(f)'
  <2>1. \A p \in DOMAIN f : Block(p, f[p]) \subseteq Memory \ used'
    BY <1>2, <1>12 DEF Apart
  <2> QED BY <1>4, <1>5, <2>1 DEF Apart
<1>15. Owned'
  <2>1. Tables \subseteq used \cap Memory
    BY DEF Owned
  <2>2. /\ block \cap Tables = {} /\ block \subseteq used' \cap Memory'
        /\ Tables' \subseteq used' \cap Memory'
    BY <1>2, <1>3, <1>5, <1>10, <2>1
  <2>3. Block(result', Asked') = block /\ Asked' \in Order /\ result' \in Page
    BY <1>1, <1>3, <1>10 DEF block
  <2> QED BY <1>10, <2>2, <2>3 DEF Owned
<1> QED BY <1>5, <1>11, <1>13, <1>14, <1>15

-----------------------------------------------------------------------------
(* main() once the manager is in place.                                    *)

(* A step of the manager. *)
LEMMA ManagerSteps ==
  ASSUME Up, Manager
  PROVE  Up'
<1>1. Called /\ Owned /\ Written /\ Step(Core) /\ Waiting
  BY DEF Up, Manager, Waiting
<1>2. PICK f : Linking(f) /\ Apart(f)
  BY DEF Up
<1>3. result' = IF pc[Core] = "split" /\ order[Core] = goal[Core] THEN index[Core] ELSE result
  BY DEF Manager
<1>4. Written'
  <2>1. at = "running" => pc[Core] = "idle"
    BY <1>1 DEF Called, Waits
  <2> QED BY <1>1, <1>3, <2>1, WrittenStays
<1>5. CASE try_lock(Core) \/ unlock(Core) \/ PanicLoop(Core) \/ AllocNext(Core)
           \/ AllocBlockClimbs(Core) \/ AllocBlockPanics(Core)
  <2>1. /\ Called' /\ pc'[Core] # "split" /\ Memory' = Memory
        /\ UNCHANGED <<free_lists, next, used>>
        /\ Served' => Served
    BY <1>1, <1>5, LoopSteps, ClimbSteps
  <2>2. result' = result
    <3>1. pc[Core] # "split"
      BY <1>5 DEF try_lock, unlock, PanicLoop, Panics, AllocNext, AllocBlockClimbs, AllocBlockPanics
    <3> QED BY <1>3, <3>1
  <2>3. Owned'
    BY <1>1, <2>1, <2>2, OwnedStays DEF Waiting, statics
  <2>4. Linking(f)' /\ Apart(f)'
    BY <1>2, <2>1, QuietLists
  <2> QED BY <1>4, <2>1, <2>3, <2>4 DEF Up
<1>6. CASE AllocBlockPops(Core) \/ AllocBlockSplits(Core)
  <2>1. /\ Called' /\ Memory' = Memory /\ used' = used
        /\ ~ Served'
        /\ \E g : Linking(g)' /\ Apart(g)'
    BY <1>1, <1>2, <1>6, PopStep, SplitStep
  <2>2. result' = result
    <3>1. CASE AllocBlockPops(Core)
      <4>1. pc[Core] # "split"
        BY <3>1 DEF AllocBlockPops
      <4> QED BY <1>3, <4>1
    <3>2. CASE AllocBlockSplits(Core)
      <4>1. pc[Core] = "split" /\ order[Core] > goal[Core]
        BY <3>2 DEF AllocBlockSplits
      <4>2. order[Core] \in Nat /\ goal[Core] \in Nat
        BY <1>1, <4>1, InHand
      <4>3. order[Core] # goal[Core]
        BY SMTT(60), <4>1, <4>2
      <4> QED BY <1>3, <4>3
    <3> QED BY <1>6, <3>1, <3>2
  <2>3. Owned'
    BY <1>1, <2>1, <2>2, OwnedStays DEF Waiting, statics
  <2> QED BY <1>4, <2>1, <2>3 DEF Up
<1>7. CASE AllocBlockReturns(Core)
  <2>1. result' = index[Core]
    BY <1>3, <1>7 DEF AllocBlockReturns
  <2>2. Called' /\ Owned' /\ Linking(f)' /\ Apart(f)'
    BY <1>1, <1>2, <1>7, <2>1, ReturnStep
  <2> QED BY <1>4, <2>2 DEF Up
<1> QED BY <1>1, <1>5, <1>6, <1>7, AllocSteps

(* main() calls the manager. *)
LEMMA Asks ==
  ASSUME Called, NEW f, Linking(f), Apart(f), NEW n \in 0 .. NoOrder, CallAlloc(Core, n, 1),
         at' \in Waits, Asked' = n
  PROVE  /\ Called' /\ Linking(f)' /\ Apart(f)' /\ ~ Served'
         /\ Memory' = Memory /\ used' = used
<1> DEFINE L == {"idle", "lock", "loop", "alloc_block", "split", "unlock", "oom", "oob"}
<1>1. /\ Core \in Cores /\ pc \in [Cores -> L] /\ op \in [Cores -> {"none", "alloc"}]
      /\ goal \in [Cores -> 0 .. NoOrder] /\ left \in [Cores -> Nat] /\ 1 \in Nat /\ 1 # 0
  BY SMTT(60) DEF Called
<1>2. /\ goal' = [goal EXCEPT ![Core] = n] /\ left' = [left EXCEPT ![Core] = 1]
      /\ op' = [op EXCEPT ![Core] = "alloc"] /\ pc' = [pc EXCEPT ![Core] = "lock"]
      /\ UNCHANGED <<free_lists, next, used, instance, memory_map, index, order>>
  BY DEF CallAlloc, Goto, lists, boot
<1>3. pc' \in [Cores -> L] /\ pc'[Core] = "lock"
  BY <1>1, <1>2
<1>4. op' \in [Cores -> {"none", "alloc"}] /\ op'[Core] = "alloc"
  BY <1>1, <1>2
<1>5. goal' \in [Cores -> 0 .. NoOrder] /\ goal'[Core] = n
  BY <1>1, <1>2
<1>6. left' \in [Cores -> Nat] /\ left'[Core] = 1
  BY <1>1, <1>2
<1>7. Memory' = Memory
  <2>1. memory_map' = memory_map /\ pc \in [Cores -> L]
    BY <1>1, <1>2
  <2> QED BY <1>3, <2>1, MemoryStays
<1>8. Called'
  BY <1>2, <1>3, <1>4, <1>5, <1>6, <1>7 DEF Called
<1>9. Linking(f)' /\ Apart(f)'
  BY <1>2, <1>3, <1>7, QuietLists
<1> QED BY <1>2, <1>3, <1>7, <1>8, <1>9 DEF Served

(* It does something without the manager. *)
LEMMA Alone ==
  ASSUME Called, NEW f, Linking(f), Apart(f), pc[Core] = "idle",
         UNCHANGED <<free_lists, used, instance, memory_map, pc, op, index, order, goal, left>>,
         next' \in [Page -> Ptr \cup {DIRTY}],
         \A p \in DOMAIN f : next'[p] \in {next[p], NULL}
  PROVE  /\ Called' /\ Linking(f)' /\ Apart(f)' /\ Served /\ Served'
         /\ Memory' = Memory
<1>1. Memory' = Memory
  BY DEF Memory
<1>2. Called'
  BY <1>1 DEF Called
<1>3. Linking(f)'
  <2>1. ASSUME NEW p \in DOMAIN f, next'[p] # NULL
        PROVE  next'[p] = next[p] /\ next[p] # NULL
    BY <2>1
  <2> QED BY SMTT(60), <2>1 DEF Linking
<1>4. Apart(f)'
  BY <1>1 DEF Apart
<1> QED BY <1>1, <1>2, <1>3, <1>4 DEF Served

(* A block of one page. *)
LEMMA OnePage ==
  ASSUME Owned, Served, at \in {"tss", "gdt_init", "idt_init"}
  PROVE  result \in used \cap Memory /\ result \notin Tables
<1>1. Asked = 0 /\ result \in Page
  BY DEF Asked, Owned, Waits
<1>2. Block(result, 0) = {result}
  BY <1>1, PageNat, OnePageBlock
<1>3. Block(result, Asked) \subseteq used \cap Memory /\ Block(result, Asked) \cap Tables = {}
  BY DEF Owned, Waits
<1> QED BY <1>1, <1>2, <1>3

(* Steps that leave all of the manager alone. *)
LEMMA AloneVars ==
  ASSUME Called, NEW f, Linking(f), Apart(f), pc[Core] = "idle", UNCHANGED vars
  PROVE  /\ Called' /\ Linking(f)' /\ Apart(f)' /\ Served /\ Served'
         /\ Memory' = Memory /\ used' = used
<1>1. UNCHANGED <<free_lists, used, instance, memory_map, pc, op, index, order, goal, left, next>>
  BY DEF vars, lists, boot, call
<1>2. next' \in [Page -> Ptr \cup {DIRTY}] /\ \A p \in DOMAIN f : next'[p] \in {next[p], NULL}
  BY <1>1 DEF Called
<1> QED BY <1>1, <1>2, Alone

(* main() is not in a call when it is between two of them. *)
LEMMA Between ==
  ASSUME Called, at \notin Waits
  PROVE  pc[Core] = "idle"
BY DEF Called

(* gdt::init. *)
LEMMA GdtSteps ==
  ASSUME Up, gdt_alloc \/ tss_alloc \/ gdt_init
  PROVE  Up'
<1>1. Called /\ Owned /\ Written
  BY DEF Up
<1>2. PICK f : Linking(f) /\ Apart(f)
  BY DEF Up
<1>3. 0 \in 0 .. NoOrder
  BY SMTT(60), MaxOrderAssumption DEF NoOrder
<1> USE DEF GotGdt, GotTss, GotGdtr, GotIdt, Waits
<1>4. CASE gdt_alloc
  <2>1. CallAlloc(Core, 0, 1) /\ at' = "tss"
    BY <1>4, Requests DEF gdt_alloc, Request
  <2>2. Asked' = 0
    BY <2>1 DEF Asked
  <2>3. Called' /\ Linking(f)' /\ Apart(f)' /\ ~ Served'
    BY <1>1, <1>2, <1>3, <2>1, <2>2, Asks
  <2>4. Owned'
    BY <2>1, <2>3 DEF Owned, Tables
  <2>5. Written'
    BY <2>1 DEF Written
  <2> QED BY <2>3, <2>4, <2>5 DEF Up
<1>5. CASE tss_alloc
  <2>1. /\ CallAlloc(Core, 0, 1) /\ at = "tss" /\ at' = "gdt_init" /\ GDT' = result
        /\ pc[Core] = "idle"
    BY <1>5, Requests DEF tss_alloc, Request, Returned
  <2>2. Asked' = 0
    BY <2>1 DEF Asked
  <2>3. Called' /\ Linking(f)' /\ Apart(f)' /\ ~ Served' /\ Memory' = Memory /\ used' = used
    BY <1>1, <1>2, <1>3, <2>1, <2>2, Asks
  <2>4. Served
    BY <2>1 DEF Served
  <2>5. result \in used \cap Memory
    BY <1>1, <2>1, <2>4, OnePage
  <2>6. Tables' = {result}
    BY <2>1 DEF Tables
  <2>7. Owned'
    BY <2>1, <2>3, <2>5, <2>6 DEF Owned
  <2>8. Written'
    BY <2>1 DEF Written
  <2> QED BY <2>3, <2>7, <2>8 DEF Up
<1>6. CASE gdt_init
  <2>1. /\ at = "gdt_init" /\ at' = "gdt_core" /\ TSS' = result /\ UNCHANGED vars
        /\ entries' = gdt_entries(NUM_CORES) /\ GDT' = GDT /\ pc[Core] = "idle"
    BY <1>6 DEF gdt_init, Returned
  <2>2. /\ Called' /\ Linking(f)' /\ Apart(f)' /\ Served
        /\ Memory' = Memory /\ used' = used
    BY <1>1, <1>2, <2>1, AloneVars
  <2>3. result \in used \cap Memory /\ result \notin Tables
    BY <1>1, <2>1, <2>2, OnePage
  <2>4. Tables = {GDT} /\ Tables' = {GDT, result}
    BY <2>1 DEF Tables
  <2>5. Owned'
    <3>1. GDT \in used \cap Memory /\ GDT # result
      BY <1>1, <2>3, <2>4 DEF Owned
    <3>2. Tables' \subseteq used' \cap Memory' /\ GDT' # TSS'
      BY <2>1, <2>2, <2>3, <2>4, <3>1
    <3> QED BY <2>1, <3>2 DEF Owned
  <2>6. Written'
    BY <2>1 DEF Written
  <2> QED BY <2>2, <2>5, <2>6 DEF Up
<1> QED BY <1>4, <1>5, <1>6

(* gdt::init_core, and the page for the IDT. *)
LEMMA CoreSteps ==
  ASSUME Up, gdt_init_core \/ idt_alloc
  PROVE  Up'
<1>1. Called /\ Owned /\ Written
  BY DEF Up
<1>2. PICK f : Linking(f) /\ Apart(f)
  BY DEF Up
<1> USE DEF GotGdt, GotTss, GotGdtr, GotIdt, Waits
<1>3. CASE gdt_init_core
  <2>1. /\ at = "gdt_core" /\ at' = "idt" /\ UNCHANGED <<vars, result, GDT, TSS, IDT, entries>>
        /\ gdtr' = GDT /\ tr' = ltr(entries, 0)
    BY <1>3 DEF gdt_init_core, statics, contents
  <2>2. pc[Core] = "idle"
    BY <1>1, <2>1, Between
  <2>3. /\ Called' /\ Linking(f)' /\ Apart(f)' /\ Memory' = Memory /\ used' = used
    BY <1>1, <1>2, <2>1, <2>2, AloneVars
  <2>4. Tables' = Tables
    BY <2>1 DEF Tables
  <2>5. Owned'
    BY <1>1, <2>1, <2>3, <2>4 DEF Owned
  <2>6. tr' = 0
    BY <1>1, <2>1, SingleCore DEF Written, HasTss, NUM_CORES
  <2>7. Written'
    BY <1>1, <2>1, <2>6 DEF Written
  <2> QED BY <2>3, <2>5, <2>7 DEF Up
<1>4. CASE idt_alloc
  <2>1. /\ CallAlloc(Core, 0, 1) /\ at = "idt" /\ at' = "idt_init"
        /\ UNCHANGED <<result, GDT, TSS, IDT, entries, gdtr, tr>>
    BY <1>4 DEF idt_alloc, alloc_page, statics, contents, registers
  <2>2. Asked' = 0 /\ 0 \in 0 .. NoOrder
    BY SMTT(60), <2>1, MaxOrderAssumption DEF Asked, NoOrder
  <2>3. Called' /\ Linking(f)' /\ Apart(f)' /\ ~ Served' /\ Memory' = Memory /\ used' = used
    BY <1>1, <1>2, <2>1, <2>2, Asks
  <2>4. Tables' = Tables
    BY <2>1 DEF Tables
  <2>5. Owned'
    BY <1>1, <2>1, <2>3, <2>4 DEF Owned
  <2>6. Written'
    BY <1>1, <2>1 DEF Written
  <2> QED BY <2>3, <2>5, <2>6 DEF Up
<1> QED BY <1>3, <1>4

(* interrupt::init: some list nodes lose their links, and no others.       *)
LEMMA ClearingStep ==
  ASSUME Up, interrupt_init
  PROVE  Up'
<1> DEFINE nodes == Cleared(result) \ used
<1>1. Called /\ Owned /\ Written
  BY DEF Up
<1>2. PICK f : Linking(f) /\ Apart(f)
  BY DEF Up
<1> USE DEF GotGdt, GotTss, GotGdtr, GotIdt, Waits
<1>3. /\ at = "idt_init" /\ at' = "idt_core" /\ pc[Core] = "idle"
      /\ next' = [p \in Page |-> IF p \in nodes THEN NULL ELSE next[p]]
      /\ entries' = IF GDT \in Cleared(result) THEN [s \in DOMAIN entries |-> Null] ELSE entries
      /\ IDT' = result /\ gates' = TRUE
      /\ UNCHANGED <<free_lists, used, instance, memory_map, pc, op, index, order, goal, left,
                     GDT, TSS, gdtr, tr>>
  BY DEF interrupt_init, Returned, boot, call, registers
<1>4. next' \in [Page -> Ptr \cup {DIRTY}] /\ \A p \in DOMAIN f : next'[p] \in {next[p], NULL}
  <2> HIDE DEF nodes
  <2>1. \A p \in DOMAIN f : p \in Page
    BY <1>2 DEF Apart
  <2>2. next \in [Page -> Ptr \cup {DIRTY}] /\ NULL \in Ptr
    BY <1>1 DEF Called, Ptr
  <2> QED BY <1>3, <2>1, <2>2
<1>5. Called' /\ Linking(f)' /\ Apart(f)' /\ Served /\ Memory' = Memory
  BY <1>1, <1>2, <1>3, <1>4, Alone
<1>6. result \in used \cap Memory /\ result \notin Tables
  BY <1>1, <1>3, <1>5, OnePage
<1>7. Tables = {GDT, TSS} /\ Tables' = {GDT, TSS, result}
  BY <1>3 DEF Tables
<1>8. Owned'
  <2>1. {GDT, TSS} \subseteq used \cap Memory /\ GDT # TSS
    BY <1>1, <1>3, <1>7 DEF Owned
  <2>2. Tables' \subseteq used' \cap Memory' /\ GDT' # TSS' /\ IDT' \notin {GDT', TSS'}
    BY <1>3, <1>5, <1>6, <1>7, <2>1
  <2> QED BY <1>3, <2>2 DEF Owned
<1>9. Written'
  <2>1. Cleared(IDT)' = Cleared(result)
    BY <1>3 DEF Cleared
  <2>2. entries = gdt_entries(NUM_CORES) /\ gdtr = GDT /\ tr = 0
    BY <1>1, <1>3 DEF Written
  <2>3. DOMAIN entries = Slots(NUM_CORES)
    BY <2>2 DEF gdt_entries
  <2>4. entries' = IF GDT' \in Cleared(IDT)' THEN [s \in Slots(NUM_CORES) |-> Null]
                   ELSE gdt_entries(NUM_CORES)
    BY <1>3, <2>1, <2>2, <2>3
  <2> QED BY <1>3, <2>2, <2>4 DEF Written
<1> QED BY <1>5, <1>8, <1>9 DEF Up

(* interrupt::init_core: the stack comes from the lists that are left. *)
LEMMA StackSteps ==
  ASSUME Up, stack_alloc \/ interrupt_init_core
  PROVE  Up'
<1>1. Called /\ Owned /\ Written
  BY DEF Up
<1>2. PICK f : Linking(f) /\ Apart(f)
  BY DEF Up
<1> USE DEF GotGdt, GotTss, GotGdtr, GotIdt, Waits
<1>3. CASE stack_alloc
  <2> DEFINE n == get_size_order(STACK_PAGES)
  <2>1. /\ CallAlloc(Core, n, 1) /\ at = "idt_core" /\ at' = "ist"
        /\ UNCHANGED <<result, GDT, TSS, IDT, entries, gates, gdtr, tr>>
    BY <1>3 DEF stack_alloc, Request, statics, contents, registers
  <2>2. Asked' = n
    BY <2>1 DEF Asked
  <2>3. n \in 0 .. NoOrder
    BY Requests
  <2> HIDE DEF n
  <2>4. Called' /\ Linking(f)' /\ Apart(f)' /\ ~ Served' /\ Memory' = Memory /\ used' = used
    BY <1>1, <1>2, <2>1, <2>2, <2>3, Asks
  <2>5. Tables' = Tables
    BY <2>1 DEF Tables
  <2>6. Owned'
    BY <1>1, <2>1, <2>4, <2>5 DEF Owned
  <2>7. Written'
    <3>1. Cleared(IDT)' = Cleared(IDT)
      BY <2>1 DEF Cleared
    <3> QED BY <1>1, <2>1, <3>1 DEF Written
  <2> QED BY <2>4, <2>6, <2>7 DEF Up
<1>4. CASE interrupt_init_core
  <2>1. /\ at = "ist" /\ at' = "running" /\ pc[Core] = "idle"
        /\ ist1' = result + STACK_PAGES /\ idtr' = IDT
        /\ UNCHANGED <<vars, result, GDT, TSS, IDT, entries, gates, gdtr, tr>>
    BY <1>4 DEF interrupt_init_core, Returned, statics
  <2>2. /\ Called' /\ Linking(f)' /\ Apart(f)' /\ Served
        /\ Memory' = Memory /\ used' = used
    BY <1>1, <1>2, <2>1, AloneVars
  <2>3. Tables' = Tables /\ Asked' = Asked
    BY <2>1 DEF Tables, Asked
  <2>4. Owned'
    BY <1>1, <2>1, <2>2, <2>3 DEF Owned
  <2>5. Written'
    <3>1. Cleared(IDT)' = Cleared(IDT)
      BY <2>1 DEF Cleared
    <3> QED BY <1>1, <2>1, <3>1 DEF Written
  <2> QED BY <2>2, <2>4, <2>5 DEF Up
<1> QED BY <1>3, <1>4

(* The manager that new() has built is one that main() can call. *)
LEMMA Handover ==
  ASSUME IInv, NothingLost, Others, init_virt_manager
  PROVE  Up'
<1>1. /\ instance /\ pc[Core] = "idle" /\ at' = "gdt" /\ UNCHANGED vars
  BY DEF init_virt_manager, Returned
<1>2. UNCHANGED <<free_lists, used, instance, memory_map, pc, op, index, order, goal, left, next>>
  BY <1>1 DEF vars, lists, boot, call
<1>3. Memory' = Memory
  BY <1>2 DEF Memory
<1>4. Called'
  <2>1. \A c \in Cores : pc[c] = "idle"
    BY <1>1 DEF Others
  <2>2. op \in [Cores -> {"none", "alloc"}]
    BY <2>1 DEF IInv, CallOK, TypeOK
  <2>3. pc \in [Cores -> {"idle", "lock", "loop", "alloc_block", "split", "unlock", "oom", "oob"}]
    BY <2>1 DEF IInv, TypeOK
  <2>4. /\ free_lists \in [Order -> Ptr] /\ next \in [Page -> Ptr \cup {DIRTY}]
        /\ used \subseteq Page /\ index \in [Cores -> Page] /\ order \in [Cores -> 0 .. NoOrder]
        /\ goal \in [Cores -> 0 .. NoOrder] /\ left \in [Cores -> Nat]
    BY DEF IInv, TypeOK
  <2>5. Memory \subseteq Page
    BY MemoryPages
  <2> QED BY <1>1, <1>2, <1>3, <2>2, <2>3, <2>4, <2>5 DEF Called, Others
<1> USE DEF GotGdt, GotTss, GotGdtr, GotIdt, Waits
<1>5. Owned' /\ Written'
  <2>1. Tables' = {}
    BY <1>1 DEF Tables
  <2> QED BY <1>1, <2>1 DEF Owned, Written
<1>6. PICK f : DOMAIN f = buddy_map /\ \A p \in buddy_map : f[p] = entry_order[p]
  <2> DEFINE f == [p \in buddy_map |-> entry_order[p]]
  <2>1. DOMAIN f = buddy_map /\ \A p \in buddy_map : f[p] = entry_order[p]
    OBVIOUS
  <2> QED BY <2>1
<1>7. buddy_map \subseteq Page /\ NULL \notin Page
  BY Pointers DEF IInv, TypeOK
<1>8. Linking(f)'
  <2>1. \A o \in Order : free_lists[o] # NULL => /\ free_lists[o] \in buddy_map
                                                 /\ f[free_lists[o]] = o
                                                 /\ prev[free_lists[o]] = NULL
    BY <1>6 DEF IInv, LinksOK
  <2>2. \A p \in buddy_map : next[p] # NULL => /\ next[p] \in buddy_map
                                               /\ f[next[p]] = f[p]
                                               /\ prev[next[p]] = p
    BY <1>6 DEF IInv, LinksOK
  <2>3. \A p \in buddy_map : next[p] # NULL => \A o \in Order : free_lists[o] # next[p]
    BY SMTT(60), <1>7, <2>1, <2>2
  <2> QED BY SMTT(60), <1>2, <1>6, <2>1, <2>2, <2>3 DEF Linking
<1>9. Apart(f)'
  <2>1. \A p \in buddy_map : Block(p, f[p]) = FreeBlock(p)
    BY <1>6 DEF FreeBlock
  <2>2. \A p \in buddy_map : FreeBlock(p) \subseteq Memory
    BY DEF NothingLost
  <2>3. \A p \in buddy_map : /\ Aligned(p, f[p]) /\ Block(p, f[p]) \subseteq Memory \ used
                             /\ f[p] \in Order
    <3>1. \A p \in buddy_map : Aligned(p, entry_order[p]) /\ FreeBlock(p) \subseteq Page \ used
      BY DEF IInv, OneOwner
    <3>2. \A p \in buddy_map : entry_order[p] \in Order
      BY DEF IInv, LinksOK
    <3> QED BY <1>6, <2>1, <2>2, <3>1, <3>2
  <2>4. \A p, q \in buddy_map : p # q => Block(p, f[p]) \cap Block(q, f[q]) = {}
    BY <2>1 DEF IInv, OneOwner
  <2> QED BY <1>1, <1>2, <1>3, <1>6, <1>7, <2>3, <2>4 DEF Apart
<1> QED BY <1>4, <1>5, <1>8, <1>9 DEF Up

(* The manager is built while main() waits in init_phys_manager, *)
LEMMA BuildSteps ==
  ASSUME IInv, NothingLost, Others, Step(Core) \/ UNCHANGED vars
  PROVE  IInv' /\ NothingLost' /\ Others'
<1>1. CASE Step(Core)
  <2>1. Core \in Cores
    BY DEF Others
  <2>2. Next
    BY <1>1, <2>1 DEF Next
  <2>3. \A d \in Cores : d # Core => pc'[d] = pc[d]
    BY <1>1, <2>1, OthersStay
  <2>4. Others'
    BY <2>3 DEF Others
  <2>5. IInv'
    BY <2>2, Inductive
  <2>6. NothingLost'
    BY <1>1, <2>1, LostInductive
  <2> QED BY <2>4, <2>5, <2>6
<1>2. CASE UNCHANGED vars
  <2>1. UNCHANGED <<buddy_map, entry_order, memory_map, used, index, order, pc, op>>
    BY <1>2 DEF vars, lists, boot, call
  <2>2. NothingLost' /\ Others'
    BY SMTT(60), <2>1 DEF NothingLost, Memory, FreeBlock, InFlight, Working, Others
  <2> QED BY <1>2, <2>2, Stutter
<1> QED BY <1>1, <1>2

(* and every step of the boot keeps the invariant. *)
LEMMA BootInitial == BootInit => BInv
<1> SUFFICES ASSUME BootInit PROVE BInv
  OBVIOUS
<1>1. PICK b \in Cores : pc = [c \in Cores |-> IF c = b THEN "new" ELSE "idle"]
  BY DEF BootInit, Init
<1>2. Core \in Cores
  BY <1>1 DEF Core
<1>3. Core = b
  BY <1>1, <1>2 DEF BootInit
<1>4. Others
  BY <1>1, <1>3 DEF Others
<1> QED BY <1>4, Initial, LostInit DEF BootInit, BInv

LEMMA BootInductive == BInv /\ [BootNext]_bootVars => BInv'
<1> SUFFICES ASSUME BInv, [BootNext]_bootVars PROVE BInv'
  OBVIOUS
<1> USE DEF GotGdt, GotTss, GotGdtr, GotIdt
<1> DEFINE early == at \in {"start", "phys"}
<1>1. early => IInv /\ NothingLost /\ Others
  BY DEF BInv
<1>2. ~ early => Up
  BY DEF BInv, Up
<1>3. at' \in GotGdt \cup {"gdt", "tss"} /\ Up' => BInv'
  BY DEF BInv, Up
<1>4. at' \in {"start", "phys"} /\ IInv' /\ NothingLost' /\ Others' => BInv'
  BY DEF BInv
<1>5. at \in GotGdt \cup {"start", "phys", "gdt", "tss"}
  BY DEF BInv
<1>6. CASE Manager
  <2>1. at' = at /\ Step(Core)
    BY <1>6 DEF Manager
  <2> QED BY <1>1, <1>2, <1>3, <1>4, <1>5, <1>6, <2>1, BuildSteps, ManagerSteps
<1>7. CASE main
  BY <1>1, <1>4, <1>7, BuildSteps DEF main
<1>8. CASE init_virt_manager
  <2>1. at = "phys" /\ at' = "gdt"
    BY <1>8 DEF init_virt_manager
  <2> QED BY <1>1, <1>3, <1>8, <2>1, Handover
<1>9. CASE gdt_alloc \/ tss_alloc \/ gdt_init
  <2>1. ~ early /\ at' \in GotGdt \cup {"gdt", "tss"}
    BY <1>9 DEF gdt_alloc, tss_alloc, gdt_init
  <2> QED BY <1>2, <1>3, <1>9, <2>1, GdtSteps
<1>10. CASE gdt_init_core \/ idt_alloc
  <2>1. ~ early /\ at' \in GotGdt \cup {"gdt", "tss"}
    BY <1>10 DEF gdt_init_core, idt_alloc
  <2> QED BY <1>2, <1>3, <1>10, <2>1, CoreSteps
<1>11. CASE interrupt_init
  <2>1. ~ early /\ at' \in GotGdt \cup {"gdt", "tss"}
    BY <1>11 DEF interrupt_init
  <2> QED BY <1>2, <1>3, <1>11, <2>1, ClearingStep
<1>12. CASE stack_alloc \/ interrupt_init_core
  <2>1. ~ early /\ at' \in GotGdt \cup {"gdt", "tss"}
    BY <1>12 DEF stack_alloc, interrupt_init_core
  <2> QED BY <1>2, <1>3, <1>12, <2>1, StackSteps
<1>13. CASE UNCHANGED bootVars
  <2>1. /\ UNCHANGED vars /\ at' = at
        /\ UNCHANGED <<result, GDT, TSS, IDT, entries, ist1, gates, gdtr, idtr, tr>>
    BY <1>13 DEF bootVars, statics, contents, registers
  <2>2. CASE early
    BY <1>1, <1>4, <2>1, <2>2, BuildSteps
  <2>3. CASE ~ early
    <3>1. UNCHANGED <<free_lists, used, instance, memory_map, pc, op, index, order, goal, left,
                      next>>
      BY <2>1 DEF vars, lists, boot, call
    <3>2. Called /\ Owned /\ Written
      BY <1>2, <2>3 DEF Up
    <3>3. PICK f : Linking(f) /\ Apart(f)
      BY <1>2, <2>3 DEF Up
    <3>4. Memory' = Memory /\ Asked' = Asked /\ Tables' = Tables /\ Served' = Served
      BY <2>1, <3>1 DEF Memory, Asked, Tables, Served
    <3>5. Called'
      BY <2>1, <3>1, <3>2, <3>4 DEF Called
    <3>6. Owned'
      BY <2>1, <3>1, <3>2, <3>4 DEF Owned
    <3>7. Written'
      <4>1. Cleared(IDT)' = Cleared(IDT)
        BY <2>1 DEF Cleared
      <4> QED BY <2>1, <3>2, <4>1 DEF Written
    <3>8. Linking(f)' /\ Apart(f)'
      BY <3>1, <3>3, <3>4 DEF Linking, Apart
    <3>9. Up'
      BY <3>5, <3>6, <3>7, <3>8 DEF Up
    <3> QED BY <1>3, <1>5, <2>1, <2>3, <3>9
  <2> QED BY <2>2, <2>3
<1> QED
  BY <1>6, <1>7, <1>8, <1>9, <1>10, <1>11, <1>12, <1>13 DEF BootNext, Main, Running

(* It holds in every state of the boot. *)
LEMMA BootInvariance == BootSpec => []BInv
BY BootInitial, BootInductive, PTL DEF BootSpec

(* What it says of main()'s loop: the stack is a block of its own. *)
LEMMA AtLoop ==
  ASSUME BInv, at = "running"
  PROVE  /\ Up /\ result \in Nat /\ Stack = result .. (result + 3)
         /\ Stack = Block(result, 2)
         /\ Stack \subseteq used \cap Memory /\ Stack \cap {GDT, TSS, IDT} = {}
         /\ {GDT, TSS, IDT} \subseteq used \cap Memory
         /\ GDT # TSS /\ IDT # GDT /\ IDT # TSS
<1> USE DEF GotGdt, GotTss, GotGdtr, GotIdt, Waits
<1>1. Up /\ Called /\ Owned /\ Written
  BY DEF BInv, Up
<1>2. Served /\ Tables = {GDT, TSS, IDT}
  BY <1>1, Between DEF Served, Tables
<1>3. Asked = 2
  BY <1>1, <1>2, Requests DEF Asked, Owned
<1>4. result \in Nat /\ ist1 = result + STACK_PAGES
  BY <1>1, <1>2, PageNat DEF Owned, Written
<1>5. Stack = result .. (result + 3)
  BY SMTT(60), <1>4 DEF Stack, STACK_PAGES
<1>6. Block(result, 2) = result .. (result + 3)
  <2>1. 2^2 = 4
    BY SMTT(60)
  <2> QED BY SMTT(60), <2>1, <1>4 DEF Block
<1>7. /\ Block(result, 2) \subseteq used \cap Memory /\ Block(result, 2) \cap Tables = {}
      /\ Tables \subseteq used \cap Memory /\ GDT # TSS /\ IDT \notin {GDT, TSS}
  BY <1>1, <1>2, <1>3 DEF Owned
<1> QED BY <1>1, <1>2, <1>4, <1>5, <1>6, <1>7

(***************************************************************************)
(* Everything main() allocates is apart.                                   *)
(***************************************************************************)
THEOREM TablesAreApart == BootSpec => []TablesApart
<1>1. BInv => TablesApart
  <2> SUFFICES ASSUME BInv, at = "running"
               PROVE  /\ Cardinality({GDT, TSS, IDT} \cup Stack) = 3 + STACK_PAGES
                      /\ {GDT, TSS, IDT} \cup Stack \subseteq Memory
                      /\ \A o \in Order : free_lists[o] # NULL =>
                           Block(free_lists[o], o) \cap ({GDT, TSS, IDT} \cup Stack) = {}
    BY DEF TablesApart
  <2>1. Cardinality({GDT, TSS, IDT} \cup Stack) = 3 + STACK_PAGES
    <3>1. IsFiniteSet(Stack) /\ Cardinality(Stack) = 4
      <4>1. /\ result \in Int /\ result + 3 \in Int /\ ~ (result > result + 3)
            /\ (result + 3) - result + 1 = 4
        BY SMTT(60), AtLoop
      <4>2. /\ IsFiniteSet(result .. (result + 3))
            /\ Cardinality(result .. (result + 3)) = (result + 3) - result + 1
        BY <4>1, FS_Interval
      <4> QED BY <4>1, <4>2, AtLoop
    <3>2. IsFiniteSet(Stack \cup {GDT}) /\ Cardinality(Stack \cup {GDT}) = 4 + 1
      BY <3>1, AtLoop, FS_AddElement
    <3>3. /\ IsFiniteSet((Stack \cup {GDT}) \cup {TSS})
          /\ Cardinality((Stack \cup {GDT}) \cup {TSS}) = 4 + 1 + 1
      <4>1. TSS \notin Stack \cup {GDT}
        BY AtLoop
      <4> HIDE DEF Stack
      <4> QED BY <3>2, <4>1, FS_AddElement
    <3>4. Cardinality(((Stack \cup {GDT}) \cup {TSS}) \cup {IDT}) = 4 + 1 + 1 + 1
      <4>1. IDT \notin (Stack \cup {GDT}) \cup {TSS}
        BY AtLoop
      <4> QED BY <3>3, <4>1, FS_AddElement
    <3>5. ((Stack \cup {GDT}) \cup {TSS}) \cup {IDT} = {GDT, TSS, IDT} \cup Stack
      OBVIOUS
    <3>6. 4 + 1 + 1 + 1 = 3 + STACK_PAGES
      BY SMTT(60) DEF STACK_PAGES
    <3> QED BY <3>4, <3>5, <3>6
  <2>2. {GDT, TSS, IDT} \cup Stack \subseteq used \cap Memory
    BY AtLoop
  <2>3. PICK f : Linking(f) /\ Apart(f)
    BY AtLoop DEF Up
  <2>4. ASSUME NEW o \in Order, free_lists[o] # NULL
        PROVE  Block(free_lists[o], o) \subseteq Memory \ used
    BY <2>3, <2>4 DEF Linking, Apart
  <2> QED BY <2>1, <2>2, <2>4
<1> QED BY <1>1, BootInvariance, PTL

(***************************************************************************)
(* In main()'s loop interrupts reach the stubs, unless interrupt::init()   *)
(* has cleared the GDT.                                                    *)
(***************************************************************************)
THEOREM InterruptsReachStubs == BootSpec => []InterruptsWork
<1>1. BInv => InterruptsWork
  <2> SUFFICES ASSUME BInv, at = "running"
               PROVE  Deliverable <=> GDT \notin Cleared(IDT)
    BY DEF InterruptsWork
  <2>1. Written
    BY AtLoop DEF Up
  <2>2. /\ idtr = IDT /\ gates /\ gdtr = GDT /\ tr = 0
        /\ entries = IF GDT \in Cleared(IDT) THEN [s \in Slots(NUM_CORES) |-> Null]
                     ELSE gdt_entries(NUM_CORES)
    BY <2>1 DEF Written, GotGdtr, GotIdt
  <2>3. Stack \subseteq used
    BY AtLoop
  <2>4. 1 \in Slots(NUM_CORES)
    BY SMTT(60) DEF Slots, NUM_CORES
  <2>5. gdt_entries(NUM_CORES)[1] = KernelCode
    BY SMTT(60), <2>4 DEF gdt_entries, NUM_CORES
  <2>6. [s \in Slots(NUM_CORES) |-> Null][1] # KernelCode
    BY <2>4 DEF Null, KernelCode, Descriptor
  <2>7. entries[1] = KernelCode <=> GDT \notin Cleared(IDT)
    BY <2>2, <2>5, <2>6
  <2> QED BY <2>2, <2>3, <2>7 DEF Deliverable
<1> QED BY <1>1, BootInvariance, PTL

=============================================================================
