---------------------------- MODULE BootloaderProofs --------------------------
(***************************************************************************)
(* efi_main() for every machine, every kernel image and every firmware:    *)
(* what the kernel is told of memory is right when it starts.              *)
(***************************************************************************)
EXTENDS Bootloader, BuddyProofs

USE ZenonT(60), SMTT(60)

-----------------------------------------------------------------------------
(* The stages of efi_main(), each a set of labels.                         *)

AfterMap == {"mmap_grown", "exit", "convert", "jump", "kernel"}
AfterStack == AfterMap \cup {"mmap_size", "mmap_allocate"}
AfterFree == AfterStack \cup {"stack"}
AfterReturn == AfterFree \cup {"debug", "free"}
AfterProcess == AfterReturn \cup {"prepare"}
AfterFile == AfterProcess \cup {"process"}
AfterPaging == AfterFile \cup {"read_file"}
AfterTables == AfterPaging \cup {"paging_free"}
AfterTemp == AfterTables \cup {"paging_grown", "paging_map", "paging_tables"}
AfterHeader == AfterTemp \cup {"video", "paging_size", "paging_allocate"}
Ended == {"panicked", "grew"}
Labels == AfterHeader \cup {"start", "header"} \cup Ended

(* An object is n consecutive pages. *)
Consecutive(o, n) == \E p \in Page : objects[o] = p .. (p + n - 1)

(* Nothing is in the place of an object that is yet to be allocated, or    *)
(* that has been freed.                                                    *)
Vacant ==
  /\ pc \notin AfterHeader \cup Ended => objects["header"] = {}
  /\ pc \notin (AfterTemp \ AfterPaging) \cup Ended => objects["temp"] = {}
  /\ pc \notin AfterTables \cup Ended => objects["tables"] = {}
  /\ pc \notin (AfterFile \ AfterFree) \cup Ended => objects["file"] = {}
  /\ pc \notin AfterProcess \cup Ended => objects["process"] = {}
  /\ pc \notin AfterFree \cup {"free"} \cup Ended => objects["debug"] = {}
  /\ pc \notin AfterStack \cup Ended => objects["stack"] = {}
  /\ pc \notin AfterMap \cup Ended => objects["mmap"] = {}

(* The objects the kernel is given addresses of. *)
Placed ==
  /\ pc \in AfterHeader => Consecutive("header", 1)
  /\ pc \in AfterProcess => Consecutive("process", PagesFor(kernel_elf_size))
  /\ pc \in AfterStack => Consecutive("stack", STACK_PAGES)
  /\ pc \in AfterMap => Consecutive("mmap", mmap_pages * 2)

(* Objects are apart, of pages the firmware has set apart for them, and    *)
(* every such page is in one.                                              *)
Sound ==
  /\ types \in [Page -> Types]
  /\ objects \in [Objects -> SUBSET Page]
  /\ \A o \in Objects : \A p \in objects[o] : types[p] = "LOADER_DATA"
  /\ \A o, r \in Objects : o # r => objects[o] \cap objects[r] = {}
  /\ \A p \in Page : types[p] = "LOADER_DATA" => \E o \in Objects : p \in objects[o]

(* Types. *)
Counted ==
  /\ pc \in Labels
  /\ image \in Images
  /\ ph \in 1 .. (Len(image.ph_list) + 1)
  /\ DOMAIN kernel_header = {"screen", "memory_map", "segments"}
  /\ mmap_pages \in 0 .. (PAGES + 1) /\ events \in 0 .. MAX_EVENTS /\ seen \in 0 .. events

(* The page that is added for safety covers the next allocation, while the *)
(* firmware does nothing by itself.                                        *)
Measured ==
  /\ pc \in {"paging_allocate", "mmap_allocate"} /\ events = seen => mmap_pages = PagesOfMap + 1
  /\ pc \in {"paging_grown", "paging_map", "mmap_grown", "exit"} /\ events = seen =>
       PagesOfMap <= mmap_pages
  /\ pc = "grew" => events > seen

(* The kernel's size and its entry point are known. *)
Located ==
  /\ pc \in AfterFile => kernel_elf_size = get_size(image)
  /\ pc \in AfterReturn =>
       entry_point = ptr_to_kernelspace(Address("process")) + image.entry_point

(* What the kernel gets is computed from the state the firmware is left in. *)
HandedOver ==
  /\ pc \in {"convert", "jump", "kernel"} => mmap = memory_map /\ PagesOfMap <= mmap_pages
  /\ pc \in {"jump", "kernel"} =>
       /\ kernel_header.memory_map = ptr_to_kernelspace((First("mmap") + mmap_pages) * PAGE_WORDS)
       /\ kernel_header.segments =
            {[start |-> entry.phys_start, page_count |-> entry.page_count,
              state |-> state(entry.ty)] : entry \in mmap}
  /\ pc = "kernel" =>
       regs = [rip |-> entry_point,
               rsp |-> ptr_to_kernelspace(Address("stack")) + STACK_PAGES * PAGE_WORDS,
               rdi |-> ptr_to_kernelspace(Address("header"))]

(* The inductive invariant. *)
IInv == Sound /\ Counted /\ Vacant /\ Placed /\ Measured /\ Located /\ HandedOver

(* Counting down. *)
LEMMA OneLess ==
  ASSUME NEW c \in Nat, NEW l \in Nat, l > 0, l <= c
  PROVE  /\ l - 1 \in Nat /\ l - 1 <= c
         /\ c - l \in Nat /\ c - (l - 1) = (c - l) + 1
BY SMTT(60)

(* Counting up. *)
LEMMA OneMore ==
  ASSUME NEW n \in Nat
  PROVE  n < n + 1 /\ (n + 1) - 1 = n
BY SMTT(60)

-----------------------------------------------------------------------------
(* The firmware's map.                                                     *)

(* The runs of pages can be counted. *)
LEMMA Runs ==
  /\ IsFiniteSet(RunStarts)
  /\ Cardinality(RunStarts) \in Nat /\ Cardinality(RunStarts) <= PAGES
<1>1. PAGES \in Nat /\ 0 \in Int /\ PAGES - 1 \in Int
  BY SMTT(60), BootloaderAssumption
<1>2. IsFiniteSet(Page) /\ Cardinality(Page) = PAGES
  BY SMTT(60), <1>1, FS_Interval DEF Page
<1>3. RunStarts \in SUBSET Page
  BY DEF RunStarts
<1>4. IsFiniteSet(RunStarts) /\ Cardinality(RunStarts) <= Cardinality(Page)
  BY <1>2, <1>3, FS_Subset
<1>5. Cardinality(RunStarts) \in Nat
  BY <1>4, FS_CardinalityType
<1> QED BY <1>2, <1>4, <1>5

(* Rounding up: bounds, and two more descriptors take at most a page more. *)
LEMMA RoundUp ==
  ASSUME NEW c \in Nat, NEW d \in Nat, d <= c + 2
  PROVE  /\ (c + PER_PAGE - 1) \div PER_PAGE \in Nat
         /\ (d + PER_PAGE - 1) \div PER_PAGE \in Nat
         /\ (c + PER_PAGE - 1) \div PER_PAGE <= c
         /\ (d + PER_PAGE - 1) \div PER_PAGE <= (c + PER_PAGE - 1) \div PER_PAGE + 1
<1> DEFINE k == PER_PAGE
           x == c + PER_PAGE - 1
           y == d + PER_PAGE - 1
           z == x + k
<1>1. /\ k \in Nat /\ k >= 2 /\ x \in Nat /\ x = c + (k - 1)
      /\ y \in Nat /\ z \in Nat /\ z = x + k /\ y <= z
  BY SMTT(60), BootloaderAssumption
<1> HIDE DEF k, x, y, z
<1>2. x \div k \in Nat /\ y \div k \in Nat
  BY SMTT(60), <1>1, DivMod
<1>3. y \div k <= z \div k
  BY SMTT(60), <1>1, DivMono
<1>4. z \div k = x \div k + 1
  <2>1. \A a \in Nat : (x + a * k) \div k = x \div k + a
    <3>1. x \in Nat /\ k \in Nat /\ k >= 1
      BY SMTT(60), <1>1
    <3>2. ASSUME NEW a \in Nat PROVE (x + a * k) \div k = x \div k + a
      BY <3>1, DivAdd
    <3> QED BY <3>2
  <2>2. \E a \in Nat : a = 1 /\ z = x + a * k
    BY SMTT(60), <1>1
  <2> QED BY <2>1, <2>2
<1>5. x < (c + 1) * k
  <2>1. PICK e \in Nat : k = 2 + e
    BY SMTT(60), <1>1, k - 2 \in Nat
  <2>2. (c + 1) * k = 2 * c + c * e + k /\ c * e \in Nat
    BY SMTT(60), <2>1, <1>1
  <2> QED BY SMTT(60), <1>1, <2>2
<1>6. x \div k < c + 1
  BY SMTT(60), <1>1, <1>5, DivBelow
<1> QED BY SMTT(60), <1>2, <1>3, <1>4, <1>6 DEF k, x, y

(* The size of the buffer for the map. *)
LEMMA MapSizes == PagesOfMap \in Nat /\ PagesOfMap <= PAGES
<1>1. Cardinality(RunStarts) \in Nat /\ Cardinality(RunStarts) <= PAGES
  BY Runs
<1> DEFINE c == Cardinality(RunStarts)
<1>2. c \in Nat /\ c <= PAGES /\ c <= c + 2
  BY SMTT(60), <1>1
<1> HIDE DEF c
<1>3. (c + PER_PAGE - 1) \div PER_PAGE \in Nat /\ (c + PER_PAGE - 1) \div PER_PAGE <= c
  BY <1>2, RoundUp
<1>4. PAGES \in Nat
  BY BootloaderAssumption
<1> QED BY SMTT(60), <1>2, <1>3, <1>4 DEF PagesOfMap, c

(* Where types are the same, the map is. *)
LEMMA SameMap ==
  ASSUME types' = types
  PROVE  PagesOfMap' = PagesOfMap /\ memory_map' = memory_map /\ RunStarts' = RunStarts
BY DEF PagesOfMap, memory_map, RunStarts, RunLength

(* An allocation starts at most two runs: its own, and what is behind it. *)
LEMMA Grows ==
  ASSUME types \in [Page -> Types], NEW p \in Page, NEW n \in Nat,
         NEW type, SetTypes(p .. (p + n - 1), type)
  PROVE  PagesOfMap' \in Nat /\ PagesOfMap' <= PagesOfMap + 1
<1> DEFINE S == RunStarts
           T == RunStarts'
<1>1. ASSUME NEW q \in T, q # p, q # p + n PROVE q \in S
  <2>1. q \in Page /\ types'[q] # "hole" /\ (q = 0 \/ types'[q - 1] # types'[q])
    BY <1>1 DEF RunStarts
  <2>2. /\ \A r \in Page : types'[r] = IF r \in p .. (p + n - 1) THEN type ELSE types[r]
        /\ PAGES \in Nat
    BY BootloaderAssumption DEF SetTypes
  <2>3. q = 0 \/ q - 1 \in Page
    BY SMTT(60), <2>1, <2>2 DEF Page
  <2>4. q \notin p .. (p + n - 1)
    BY SMTT(60), <1>1, <2>1, <2>2, <2>3 DEF Page
  <2>5. q = 0 \/ q - 1 \notin p .. (p + n - 1)
    BY SMTT(60), <1>1, <2>1, <2>2, <2>4 DEF Page
  <2> QED BY <2>1, <2>2, <2>3, <2>4, <2>5 DEF RunStarts
<1>2. IsFiniteSet(S) /\ Cardinality(S) \in Nat
  BY Runs
<1>3. T \in SUBSET ((S \cup {p}) \cup {p + n})
  BY <1>1
<1> HIDE DEF S, T
<1>4. /\ IsFiniteSet(S \cup {p}) /\ IsFiniteSet((S \cup {p}) \cup {p + n})
      /\ Cardinality(S \cup {p}) \in Nat
      /\ Cardinality((S \cup {p}) \cup {p + n}) \in Nat
      /\ Cardinality((S \cup {p}) \cup {p + n}) <= Cardinality(S) + 2
  <2>1. /\ IsFiniteSet(S \cup {p})
        /\ Cardinality(S \cup {p}) = IF p \in S THEN Cardinality(S) ELSE Cardinality(S) + 1
    BY <1>2, FS_AddElement
  <2> DEFINE R == S \cup {p}
             r == p + n
  <2>2. IsFiniteSet(R) /\ Cardinality(R) \in Nat /\ Cardinality(R) <= Cardinality(S) + 1
    BY SMTT(60), <1>2, <2>1
  <2> HIDE DEF R, r
  <2>3. /\ IsFiniteSet(R \cup {r})
        /\ Cardinality(R \cup {r}) = IF r \in R THEN Cardinality(R) ELSE Cardinality(R) + 1
    BY <2>2, FS_AddElement
  <2>4. Cardinality(R \cup {r}) \in Nat /\ Cardinality(R \cup {r}) <= Cardinality(S) + 2
    BY SMTT(60), <1>2, <2>2, <2>3
  <2> QED BY <2>2, <2>3, <2>4 DEF R, r
<1>5. IsFiniteSet(T) /\ Cardinality(T) <= Cardinality((S \cup {p}) \cup {p + n})
  BY <1>3, <1>4, FS_Subset
<1>6. Cardinality(T) \in Nat
  BY <1>5, FS_CardinalityType
<1> DEFINE c == Cardinality(S)
           d == Cardinality(T)
<1>7. c \in Nat /\ d \in Nat /\ d <= c + 2
  BY SMTT(60), <1>2, <1>4, <1>5, <1>6
<1> HIDE DEF c, d
<1>8. /\ (d + PER_PAGE - 1) \div PER_PAGE \in Nat
      /\ (d + PER_PAGE - 1) \div PER_PAGE <= (c + PER_PAGE - 1) \div PER_PAGE + 1
  BY <1>7, RoundUp
<1> QED BY <1>8 DEF PagesOfMap, c, d, S, T

-----------------------------------------------------------------------------
(* Steps that change no page.                                              *)

(* What an address of an object depends on. *)
LEMMA SameObject ==
  ASSUME NEW o, objects'[o] = objects[o]
  PROVE  First(o)' = First(o) /\ Address(o)' = Address(o)
BY DEF First, Address

(* The pages and what they are for are as before. *)
LEMMA SameSound ==
  ASSUME Sound, UNCHANGED pages
  PROVE  Sound'
BY DEF Sound, pages

(* Nothing is asked of a panic but that memory is as it was. *)
LEMMA PanicKeeps ==
  ASSUME IInv, pc' = "panicked", UNCHANGED <<input, pages, events, size, kernel_header, ph>>
  PROVE  IInv'
<1>1. Sound' /\ Counted'
  BY SameSound DEF IInv, Counted, input, size, Labels, Ended
<1>2. Vacant'
  BY DEF Vacant, Ended
<1>3. Placed' /\ Measured' /\ Located' /\ HandedOver'
  BY DEF Placed, Measured, Located, HandedOver, AfterMap, AfterStack, AfterFree, AfterReturn,
     AfterProcess, AfterFile, AfterPaging, AfterTables, AfterTemp, AfterHeader
<1> QED BY <1>1, <1>2, <1>3 DEF IInv

(* A map that grew: the firmware has acted since it was measured. *)
LEMMA GrewKeeps ==
  ASSUME IInv, GetTo("grew"), PagesOfMap > mmap_pages,
         pc \in {"paging_grown", "paging_map", "mmap_grown", "exit"}
  PROVE  IInv'
<1>1. Sound' /\ Counted'
  BY SameSound DEF IInv, GetTo, Goto, Counted, input, size, elfVars, Labels, Ended
<1>2. pc' = "grew" /\ events' = events /\ seen' = seen
  BY DEF GetTo, Goto, size
<1>3. Vacant'
  BY <1>2 DEF Vacant, Ended
<1>4. Placed' /\ Located' /\ HandedOver'
  BY <1>2 DEF Placed, Located, HandedOver, AfterMap, AfterStack, AfterFree, AfterReturn,
     AfterProcess, AfterFile, AfterPaging, AfterTables, AfterTemp, AfterHeader
<1>5. events # seen
  <2>1. mmap_pages \in Nat /\ PagesOfMap \in Nat
    BY SMTT(60), MapSizes DEF IInv, Counted
  <2> QED BY SMTT(60), <2>1 DEF IInv, Measured
<1>6. events > seen
  BY SMTT(60), <1>5 DEF IInv, Counted
<1>7. Measured'
  BY <1>2, <1>6 DEF Measured
<1> QED BY <1>1, <1>3, <1>4, <1>7 DEF IInv

(* A step that gets on to the next label, and changes at most the size of  *)
(* the map, the map itself and the header for the kernel.                  *)
LEMMA GetOnKeeps ==
  ASSUME IInv, UNCHANGED <<input, pages, events, kernel, ph>>,
         <<pc, pc'>> \in {<<"start", "header">>, <<"video", "paging_size">>,
                          <<"paging_size", "paging_allocate">>, <<"paging_grown", "paging_map">>,
                          <<"paging_map", "paging_tables">>, <<"mmap_size", "mmap_allocate">>,
                          <<"mmap_grown", "exit">>, <<"exit", "convert">>, <<"convert", "jump">>},
         mmap_pages' = mmap_pages \/ pc' \notin AfterMap
  PROVE  /\ Sound' /\ Vacant' /\ Placed' /\ Located'
         /\ pc' \in Labels /\ image' \in Images /\ ph' \in 1 .. (Len(image'.ph_list) + 1)
         /\ events' = events /\ objects' = objects /\ types' = types
<1> USE DEF AfterMap, AfterStack, AfterFree, AfterReturn, AfterProcess, AfterFile, AfterPaging,
            AfterTables, AfterTemp, AfterHeader, Ended
<1>1. Sound'
  BY SameSound DEF IInv
<1>2. /\ objects' = objects /\ types' = types /\ events' = events /\ image' = image /\ ph' = ph
      /\ kernel_elf_size' = kernel_elf_size /\ entry_point' = entry_point
  BY DEF input, pages, kernel
<1>3. Vacant'
  BY <1>2 DEF IInv, Vacant
<1>4. pc' \in Labels /\ image' \in Images /\ ph' \in 1 .. (Len(image'.ph_list) + 1)
  BY <1>2 DEF IInv, Counted, Labels
<1>5. Placed'
  BY <1>2 DEF IInv, Placed, Consecutive
<1>6. Located'
  BY <1>2, SameObject DEF IInv, Located
<1> QED BY <1>1, <1>2, <1>3, <1>4, <1>5, <1>6

(* handle_protocols *)
LEMMA ProtocolsKeep ==
  ASSUME IInv, handle_protocols
  PROVE  IInv'
<1>1. CASE GetTo("panicked")
  BY <1>1, PanicKeeps DEF GetTo, Goto, elfVars
<1>2. CASE GetTo("header")
  <2>1. pc = "start" /\ pc' = "header" /\ UNCHANGED <<input, pages, events, size, kernel_header, kernel, ph>>
    BY <1>2 DEF handle_protocols, GetTo, Goto, elfVars
  <2>2. /\ Sound' /\ Vacant' /\ Placed' /\ Located' /\ pc' \in Labels /\ image' \in Images
        /\ ph' \in 1 .. (Len(image'.ph_list) + 1) /\ events' = events
    BY <2>1, GetOnKeeps DEF size
  <2>3. Counted'
    BY <2>1, <2>2 DEF IInv, Counted, size
  <2>4. Measured' /\ HandedOver'
    BY <2>1 DEF Measured, HandedOver
  <2> QED BY <2>2, <2>3, <2>4 DEF IInv
<1> QED BY <1>1, <1>2 DEF handle_protocols

(* set_mode *)
LEMMA SetModeKeeps ==
  ASSUME IInv, set_mode
  PROVE  IInv'
<1>1. CASE GetTo("panicked")
  BY <1>1, PanicKeeps DEF GetTo, Goto, elfVars
<1>2. CASE /\ pc' = "paging_size"
           /\ kernel_header' = [kernel_header EXCEPT !.screen = best_mode(modes)]
           /\ UNCHANGED <<input, pages, events, size, mmap, kernel, elfVars>>
  <2>1. pc = "video" /\ pc' = "paging_size" /\ UNCHANGED <<input, pages, events, size, kernel, ph>>
    BY <1>2 DEF set_mode, elfVars
  <2>2. /\ Sound' /\ Vacant' /\ Placed' /\ Located' /\ pc' \in Labels /\ image' \in Images
        /\ ph' \in 1 .. (Len(image'.ph_list) + 1) /\ events' = events
    BY <2>1, GetOnKeeps DEF size
  <2>3. Counted'
    BY <1>2, <2>1, <2>2 DEF IInv, Counted, size
  <2>4. Measured' /\ HandedOver'
    BY <2>1 DEF Measured, HandedOver
  <2> QED BY <2>2, <2>3, <2>4 DEF IInv
<1> QED BY <1>1, <1>2 DEF set_mode, Goto

(* The map is measured. *)
LEMMA MapSizeKeeps ==
  ASSUME IInv, NEW from, NEW label, MapSize(from, label),
         <<from, label>> \in {<<"paging_size", "paging_allocate">>, <<"mmap_size", "mmap_allocate">>}
  PROVE  IInv'
<1>1. /\ pc = from /\ pc' = label
      /\ UNCHANGED <<input, pages, events, kernel_header, kernel, ph>>
      /\ mmap_pages' = PagesOfMap + 1 /\ seen' = events
  BY DEF MapSize, Goto, elfVars
<1>2. /\ Sound' /\ Vacant' /\ Placed' /\ Located' /\ pc' \in Labels /\ image' \in Images
      /\ ph' \in 1 .. (Len(image'.ph_list) + 1) /\ events' = events /\ types' = types
  BY <1>1, GetOnKeeps DEF AfterMap
<1>3. PagesOfMap \in Nat /\ PagesOfMap <= PAGES /\ PAGES \in Nat
  BY MapSizes, BootloaderAssumption
<1>4. Counted'
  BY SMTT(60), <1>1, <1>2, <1>3 DEF IInv, Counted
<1>5. Measured'
  BY <1>1, <1>2, SameMap DEF Measured
<1>6. HandedOver'
  BY <1>1 DEF HandedOver
<1> QED BY <1>2, <1>4, <1>5, <1>6 DEF IInv

(* The map has been measured again. *)
LEMMA MapGrownKeeps ==
  ASSUME IInv, NEW from, NEW label, MapGrown(from, label),
         <<from, label>> \in {<<"paging_grown", "paging_map">>, <<"mmap_grown", "exit">>}
  PROVE  IInv'
<1>1. CASE PagesOfMap > mmap_pages /\ GetTo("grew")
  BY <1>1, GrewKeeps DEF MapGrown
<1>2. CASE GetTo(label)
  <2>1. /\ pc = from /\ pc' = label
        /\ UNCHANGED <<input, pages, events, size, kernel_header, kernel, ph>>
    BY <1>2 DEF MapGrown, GetTo, Goto, elfVars
  <2>2. /\ Sound' /\ Vacant' /\ Placed' /\ Located' /\ pc' \in Labels /\ image' \in Images
        /\ ph' \in 1 .. (Len(image'.ph_list) + 1) /\ events' = events /\ types' = types
    BY <2>1, GetOnKeeps DEF size
  <2>3. Counted'
    BY <2>1, <2>2 DEF IInv, Counted, size
  <2>4. Measured'
    BY <2>1, <2>2, SameMap DEF IInv, Measured, size
  <2>5. HandedOver'
    BY <2>1 DEF HandedOver
  <2> QED BY <2>2, <2>3, <2>4, <2>5 DEF IInv
<1> QED BY <1>1, <1>2 DEF MapGrown

(* The map is retrieved. *)
LEMMA MapReadKeeps ==
  ASSUME IInv, NEW from, NEW label, MapRead(from, label),
         <<from, label>> \in {<<"paging_map", "paging_tables">>, <<"exit", "convert">>}
  PROVE  IInv'
<1>1. CASE PagesOfMap > mmap_pages /\ GetTo("grew")
  BY <1>1, GrewKeeps DEF MapRead
<1>2. CASE /\ PagesOfMap <= mmap_pages /\ mmap' = memory_map /\ Goto(label)
           /\ UNCHANGED <<input, pages, events, size, kernel_header, kernel, elfVars>>
  <2>1. /\ pc = from /\ pc' = label
        /\ UNCHANGED <<input, pages, events, size, kernel_header, kernel, ph>>
    BY <1>2 DEF MapRead, Goto, elfVars
  <2>2. /\ Sound' /\ Vacant' /\ Placed' /\ Located' /\ pc' \in Labels /\ image' \in Images
        /\ ph' \in 1 .. (Len(image'.ph_list) + 1) /\ events' = events /\ types' = types
    BY <2>1, GetOnKeeps DEF size
  <2>3. Counted'
    BY <2>1, <2>2 DEF IInv, Counted, size
  <2>4. Measured'
    BY <2>1 DEF Measured
  <2>5. HandedOver'
    BY <1>2, <2>1, <2>2, SameMap DEF HandedOver, size
  <2> QED BY <2>2, <2>3, <2>4, <2>5 DEF IInv
<1> QED BY <1>1, <1>2 DEF MapRead

(* The converted map. *)
LEMMA ConvertKeeps ==
  ASSUME IInv, convert
  PROVE  IInv'
<1>1. pc = "convert" /\ pc' = "jump" /\ UNCHANGED <<input, pages, events, size, mmap, kernel, ph>>
  BY DEF convert, Goto, elfVars
<1>2. /\ Sound' /\ Vacant' /\ Placed' /\ Located' /\ pc' \in Labels /\ image' \in Images
      /\ ph' \in 1 .. (Len(image'.ph_list) + 1) /\ events' = events /\ types' = types
      /\ objects' = objects
  BY <1>1, GetOnKeeps DEF size
<1> DEFINE segments == {[start |-> entry.phys_start, page_count |-> entry.page_count,
                         state |-> state(entry.ty)] : entry \in mmap}
           ptr == ptr_to_kernelspace((First("mmap") + mmap_pages) * PAGE_WORDS)
<1>3. kernel_header' = [kernel_header EXCEPT !.memory_map = ptr, !.segments = segments]
  BY DEF convert
<1>4. segments = segments' /\ ptr = ptr'
  BY <1>1, <1>2, SameObject DEF size
<1> HIDE DEF segments, ptr
<1>5. /\ DOMAIN kernel_header' = {"screen", "memory_map", "segments"}
      /\ kernel_header'.memory_map = ptr /\ kernel_header'.segments = segments
  BY <1>3 DEF IInv, Counted
<1>6. Counted'
  BY <1>1, <1>2, <1>5 DEF IInv, Counted, size
<1>7. Measured'
  BY <1>1 DEF Measured
<1>8. HandedOver'
  <2>1. mmap' = memory_map' /\ PagesOfMap' <= mmap_pages'
    BY <1>1, <1>2, SameMap DEF IInv, HandedOver, size
  <2>2. kernel_header'.memory_map = ptr' /\ kernel_header'.segments = segments'
    BY <1>4, <1>5
  <2> QED BY <1>1, <2>1, <2>2 DEF HandedOver, ptr, segments
<1> QED BY <1>2, <1>6, <1>7, <1>8 DEF IInv

-----------------------------------------------------------------------------
(* Steps that allocate or free pages.                                      *)

(* Conventional pages become those of an object. *)
LEMMA TakeIsSound ==
  ASSUME Sound, NEW o \in Objects, objects[o] = {},
         NEW block, block \subseteq Page, \A q \in block : types[q] = "CONVENTIONAL",
         objects' = [objects EXCEPT ![o] = block], SetTypes(block, "LOADER_DATA")
  PROVE  Sound'
<1>1. /\ types' \in [Page -> Types]
      /\ \A p \in Page : types'[p] = IF p \in block THEN "LOADER_DATA" ELSE types[p]
  BY DEF Sound, SetTypes, Types
<1>2. /\ objects' \in [Objects -> SUBSET Page]
      /\ objects'[o] = block
      /\ \A r \in Objects \ {o} : objects'[r] = objects[r]
  BY DEF Sound
<1>3. \A r \in Objects : \A p \in objects'[r] : types'[p] = "LOADER_DATA"
  BY <1>1, <1>2 DEF Sound
<1>4. \A r \in Objects : objects[r] \cap block = {}
  BY DEF Sound
<1>5. \A r, s \in Objects : r # s => objects'[r] \cap objects'[s] = {}
  BY SMTT(60), <1>2, <1>4 DEF Sound
<1>6. \A p \in Page : types'[p] = "LOADER_DATA" => \E r \in Objects : p \in objects'[r]
  <2> SUFFICES ASSUME NEW p \in Page, types'[p] = "LOADER_DATA", p \notin block
               PROVE  \E r \in Objects : p \in objects'[r]
    BY <1>2
  <2>1. PICK r \in Objects : p \in objects[r]
    BY <1>1 DEF Sound
  <2>2. r # o
    BY <2>1
  <2> QED BY <1>2, <2>1, <2>2
<1> QED BY <1>1, <1>2, <1>3, <1>5, <1>6 DEF Sound

(* An object's pages are conventional again. *)
LEMMA FreeIsSound ==
  ASSUME Sound, NEW o \in Objects, NEW label, Free(o, label)
  PROVE  /\ Sound' /\ objects'[o] = {} /\ pc' = label
         /\ \A r \in Objects \ {o} : objects'[r] = objects[r]
<1>1. /\ types' \in [Page -> Types]
      /\ \A p \in Page : types'[p] = IF p \in objects[o] THEN "CONVENTIONAL" ELSE types[p]
  BY DEF Sound, Free, SetTypes, Types, FREE_TYPES
<1>2. /\ objects' \in [Objects -> SUBSET Page]
      /\ objects'[o] = {} /\ pc' = label
      /\ \A r \in Objects \ {o} : objects'[r] = objects[r]
  BY DEF Sound, Free, Goto
<1>3. \A r \in Objects : \A p \in objects'[r] : types'[p] = "LOADER_DATA"
  BY <1>1, <1>2 DEF Sound
<1>4. \A r, s \in Objects : r # s => objects'[r] \cap objects'[s] = {}
  BY <1>2 DEF Sound
<1>5. \A p \in Page : types'[p] = "LOADER_DATA" => \E r \in Objects : p \in objects'[r]
  <2> SUFFICES ASSUME NEW p \in Page, types'[p] = "LOADER_DATA"
               PROVE  \E r \in Objects : p \in objects'[r]
    OBVIOUS
  <2>1. PICK r \in Objects : p \in objects[r]
    BY <1>1 DEF Sound
  <2>2. r # o
    BY <1>1, <2>1
  <2> QED BY <1>2, <2>1, <2>2
<1> QED BY <1>1, <1>2, <1>3, <1>4, <1>5 DEF Sound

(* allocate_pages() takes consecutive pages, or the bootloader panics. *)
LEMMA AllocateIs ==
  ASSUME Sound, NEW o \in Objects, objects[o] = {}, NEW n, NEW label, Allocate(o, n, label)
  PROVE  /\ Sound'
         /\ \A r \in Objects \ {o} : objects'[r] = objects[r]
         /\ \/ pc' = "panicked" /\ types' = types /\ objects' = objects
            \/ /\ pc' = label
               /\ \E p \in Page : /\ objects'[o] = p .. (p + n - 1)
                                  /\ SetTypes(p .. (p + n - 1), "LOADER_DATA")
<1>1. CASE pc' = "panicked" /\ UNCHANGED <<types, objects>>
  BY <1>1, SameSound DEF pages
<1>2. CASE \E p \in AnyPages(n) :
             /\ objects' = [objects EXCEPT ![o] = p .. (p + n - 1)]
             /\ SetTypes(p .. (p + n - 1), "LOADER_DATA")
             /\ Goto(label)
  <2>1. PICK p \in AnyPages(n) :
             /\ objects' = [objects EXCEPT ![o] = p .. (p + n - 1)]
             /\ SetTypes(p .. (p + n - 1), "LOADER_DATA")
             /\ Goto(label)
    BY <1>2
  <2> DEFINE block == p .. (p + n - 1)
  <2>2. p \in Page /\ block \subseteq Page /\ \A q \in block : types[q] = "CONVENTIONAL"
    BY DEF AnyPages, Usable
  <2>3. objects' = [objects EXCEPT ![o] = block] /\ SetTypes(block, "LOADER_DATA") /\ pc' = label
    BY <2>1 DEF Goto
  <2> HIDE DEF block
  <2>4. Sound'
    BY <2>2, <2>3, TakeIsSound
  <2>5. objects'[o] = block /\ \A r \in Objects \ {o} : objects'[r] = objects[r]
    BY <2>3 DEF Sound
  <2> QED BY <2>2, <2>3, <2>4, <2>5 DEF block
<1> QED BY <1>1, <1>2 DEF Allocate, Goto

(* A step that allocates an object. *)
LEMMA AllocateKeeps ==
  ASSUME IInv, NEW o \in Objects, NEW n, NEW label, Allocate(o, n, label),
         UNCHANGED <<input, events, size, mmap, kernel_header, entry_point, regs, ph>>,
         <<pc, o, label>> \in {<<"header", "header", "video">>,
                               <<"paging_allocate", "temp", "paging_grown">>,
                               <<"paging_tables", "tables", "paging_free">>,
                               <<"read_file", "file", "process">>,
                               <<"process", "process", "prepare">>,
                               <<"stack", "stack", "mmap_size">>,
                               <<"mmap_allocate", "mmap", "mmap_grown">>},
         o = "header" => n = 1,
         o = "temp" => n = mmap_pages,
         o = "process" => n = PagesFor(kernel_elf_size),
         o = "stack" => n = STACK_PAGES,
         o = "mmap" => n = mmap_pages * 2,
         kernel_elf_size' = IF o = "file" THEN get_size(image) ELSE kernel_elf_size
  PROVE  IInv'
<1> USE DEF AfterMap, AfterStack, AfterFree, AfterReturn, AfterProcess, AfterFile, AfterPaging,
            AfterTables, AfterTemp, AfterHeader, Ended
<1>1. objects[o] = {}
  BY DEF IInv, Vacant
<1>2. Sound /\ Counted /\ Vacant /\ Placed /\ Measured /\ Located /\ HandedOver
  BY DEF IInv
<1>3. /\ Sound'
      /\ \A r \in Objects \ {o} : objects'[r] = objects[r]
      /\ \/ pc' = "panicked" /\ types' = types /\ objects' = objects
         \/ /\ pc' = label
            /\ \E p \in Page : /\ objects'[o] = p .. (p + n - 1)
                               /\ SetTypes(p .. (p + n - 1), "LOADER_DATA")
  BY <1>1, <1>2, AllocateIs
<1>4. CASE pc' = "panicked" /\ types' = types /\ objects' = objects
  BY <1>4, PanicKeeps DEF pages
<1>5. ASSUME pc' = label, NEW p \in Page, objects'[o] = p .. (p + n - 1),
             SetTypes(p .. (p + n - 1), "LOADER_DATA")
      PROVE  IInv'
  <2>1. /\ image' = image /\ ph' = ph /\ kernel_header' = kernel_header /\ mmap_pages' = mmap_pages
        /\ events' = events /\ seen' = seen /\ mmap' = mmap
    BY DEF input, size
  <2>2. Counted'
    BY <1>2, <1>5, <2>1 DEF Counted, Labels
  <2>3. Vacant'
    BY <1>2, <1>3, <1>5 DEF Vacant, Objects
  <2>4. Placed'
    BY <1>2, <1>3, <1>5, <2>1 DEF Placed, Consecutive, Objects
  <2>5. Measured'
    <3>1. CASE o \in {"temp", "mmap"} /\ events = seen
      <4>1. n \in Nat /\ types \in [Page -> Types] /\ mmap_pages = PagesOfMap + 1
        BY SMTT(60), <1>2, <3>1 DEF Counted, Sound, Measured
      <4>2. PagesOfMap' \in Nat /\ PagesOfMap' <= PagesOfMap + 1
        BY <1>5, <4>1, Grows
      <4> QED BY <1>5, <2>1, <4>1, <4>2 DEF Measured
    <3>2. CASE ~ (o \in {"temp", "mmap"} /\ events = seen)
      BY <1>5, <2>1, <3>2 DEF Measured
    <3> QED BY <3>1, <3>2
  <2>6. Located'
    <3>1. o # "process" => Address("process")' = Address("process")
      BY <1>3, SameObject DEF Objects
    <3> QED BY <1>2, <1>5, <2>1, <3>1 DEF Located
  <2>7. HandedOver'
    BY <1>5 DEF HandedOver
  <2> QED BY <1>3, <2>2, <2>3, <2>4, <2>5, <2>6, <2>7 DEF IInv
<1> QED BY <1>3, <1>4, <1>5

(* A step that frees one. *)
LEMMA FreeKeeps ==
  ASSUME IInv, NEW o \in Objects, NEW label, Free(o, label),
         UNCHANGED <<input, events, size, mmap, kernel_header, kernel, ph>>,
         <<pc, o, label>> \in {<<"paging_free", "temp", "read_file">>, <<"free", "file", "stack">>}
  PROVE  IInv'
<1> USE DEF AfterMap, AfterStack, AfterFree, AfterReturn, AfterProcess, AfterFile, AfterPaging,
            AfterTables, AfterTemp, AfterHeader, Ended
<1>1. Sound /\ Counted /\ Vacant /\ Placed /\ Located
  BY DEF IInv
<1>2. /\ Sound' /\ objects'[o] = {} /\ pc' = label
      /\ \A r \in Objects \ {o} : objects'[r] = objects[r]
  BY <1>1, FreeIsSound
<1>3. /\ image' = image /\ ph' = ph /\ kernel_header' = kernel_header /\ mmap_pages' = mmap_pages
      /\ events' = events /\ seen' = seen /\ mmap' = mmap /\ kernel_elf_size' = kernel_elf_size
      /\ entry_point' = entry_point
  BY DEF input, size, kernel
<1>4. Counted'
  BY <1>1, <1>2, <1>3 DEF Counted, Labels
<1>5. Vacant'
  BY <1>1, <1>2 DEF Vacant, Objects
<1>6. Placed'
  BY <1>1, <1>2, <1>3 DEF Placed, Consecutive, Objects
<1>7. Measured' /\ HandedOver'
  BY <1>2 DEF Measured, HandedOver
<1>8. Located'
  <2>1. Address("process")' = Address("process")
    BY <1>2, SameObject DEF Objects
  <2> QED BY <1>1, <1>2, <1>3, <2>1 DEF Located
<1> QED BY <1>2, <1>4, <1>5, <1>6, <1>7, <1>8 DEF IInv

(* read_file() *)
LEMMA ReadFileKeeps ==
  ASSUME IInv, read_file
  PROVE  IInv'
<1>1. CASE GetTo("panicked")
  BY <1>1, PanicKeeps DEF GetTo, Goto, elfVars
<1>2. CASE ~ GetTo("panicked")
  <2> DEFINE n == PagesFor(Cardinality(DOMAIN image.words))
  <2>1. /\ pc = "read_file" /\ Allocate("file", n, "process")
        /\ kernel_elf_size' = get_size(image)
        /\ UNCHANGED <<input, events, size, mmap, kernel_header, entry_point, regs, ph>>
    BY <1>2 DEF read_file
  <2> HIDE DEF n
  <2>2. "file" \in Objects
    BY DEF Objects
  <2> QED BY <2>1, <2>2, AllocateKeeps
<1> QED BY <1>1, <1>2

-----------------------------------------------------------------------------
(* Loading the kernel, what the firmware does by itself, and the handover. *)

(* At most the header whose turn it is changes. *)
LEMMA SameKeeps ==
  ASSUME IInv, UNCHANGED <<pc, input, pages, events, size, mmap, kernel_header, kernel>>,
         ph' \in 1 .. (Len(image.ph_list) + 1)
  PROVE  IInv'
<1>1. /\ pc' = pc /\ image' = image /\ types' = types /\ objects' = objects /\ events' = events
      /\ mmap_pages' = mmap_pages /\ seen' = seen /\ mmap' = mmap /\ kernel_header' = kernel_header
      /\ kernel_elf_size' = kernel_elf_size /\ entry_point' = entry_point /\ regs' = regs
  BY DEF input, pages, size, kernel
<1>2. Sound' /\ Counted' /\ Vacant' /\ Placed'
  BY SMTT(60), <1>1, SameSound DEF IInv, Counted, Vacant, Placed, Consecutive, pages
<1>3. Measured'
  BY <1>1, SameMap DEF IInv, Measured
<1>4. \A o : Address(o)' = Address(o) /\ First(o)' = First(o)
  BY <1>1, SameObject
<1>5. Located'
  BY <1>1, <1>4 DEF IInv, Located
<1>6. HandedOver'
  BY <1>1, <1>4, SameMap DEF IInv, HandedOver
<1> QED BY <1>2, <1>3, <1>5, <1>6 DEF IInv

(* A step of elf::prepare() *)
LEMMA PrepareKeeps ==
  ASSUME IInv, prepare
  PROVE  IInv'
<1>1. Len(image.ph_list) \in Nat
  <2>1. image \in Images
    BY DEF IInv, Counted
  <2>2. image.ph_list \in Seq(SegmentHeader)
    BY <2>1, ImagesAssumption DEF Linked
  <2> QED BY SMTT(60), <2>2
<1>2. ph' \in 1 .. (Len(image.ph_list) + 1)
  <2>1. ph' = ph \/ (ph' = ph + 1 /\ ph <= Len(image.ph_list))
    BY DEF prepare, prepare_load, prepare_dynamic, prepare_other, relocate, AtSegment
  <2> QED BY SMTT(60), <1>1, <2>1 DEF IInv, Counted
<1>3. UNCHANGED <<pc, input, pages, events, size, mmap, kernel_header, kernel>>
  BY DEF prepare, rest, pages
<1> QED BY <1>2, <1>3, SameKeeps

(* prepare() returns the entry point. *)
LEMMA ReturnsKeep ==
  ASSUME IInv, prepare_returns
  PROVE  IInv'
<1> USE DEF AfterMap, AfterStack, AfterFree, AfterReturn, AfterProcess, AfterFile, AfterPaging,
            AfterTables, AfterTemp, AfterHeader, Ended
<1>1. /\ pc = "prepare" /\ pc' \in {"debug", "free"}
      /\ image' = image /\ types' = types /\ objects' = objects /\ events' = events
      /\ mmap_pages' = mmap_pages /\ seen' = seen /\ mmap' = mmap /\ kernel_header' = kernel_header
      /\ kernel_elf_size' = kernel_elf_size /\ ph' = ph
      /\ entry_point' = ptr_to_kernelspace(Address("process")) + image.entry_point
  BY DEF prepare_returns, Goto, input, pages, size, elfVars
<1>2. Sound' /\ Counted' /\ Vacant' /\ Placed'
  BY <1>1, SameSound DEF IInv, Counted, Vacant, Placed, Consecutive, pages, Labels
<1>3. Measured' /\ HandedOver'
  BY <1>1 DEF Measured, HandedOver
<1>4. Located'
  <2>1. Address("process")' = Address("process")
    BY <1>1, SameObject
  <2> QED BY <1>1, <2>1 DEF IInv, Located
<1> QED BY <1>2, <1>3, <1>4 DEF IInv

(* The page for the debugger. *)
LEMMA DebugKeeps ==
  ASSUME IInv, debug_data
  PROVE  IInv'
<1> USE DEF AfterMap, AfterStack, AfterFree, AfterReturn, AfterProcess, AfterFile, AfterPaging,
            AfterTables, AfterTemp, AfterHeader, Ended
<1>1. CASE GetTo("panicked")
  BY <1>1, PanicKeeps DEF GetTo, Goto, elfVars
<1>2. CASE ~ GetTo("panicked")
  <2>1. /\ pc = "debug" /\ pc' = "free" /\ types[1] = "CONVENTIONAL"
        /\ objects' = [objects EXCEPT !["debug"] = {1}] /\ SetTypes({1}, "LOADER_DATA")
        /\ image' = image /\ events' = events /\ ph' = ph
        /\ mmap_pages' = mmap_pages /\ seen' = seen /\ kernel_header' = kernel_header
        /\ kernel_elf_size' = kernel_elf_size /\ entry_point' = entry_point
    BY <1>2 DEF debug_data, Goto, rest, input, size, kernel
  <2>2. Sound /\ Counted /\ Vacant /\ Placed /\ Located
    BY DEF IInv
  <2>3. {1} \subseteq Page /\ "debug" \in Objects /\ objects["debug"] = {}
    BY SMTT(60), <2>1, <2>2, BootloaderAssumption DEF Page, Objects, Vacant
  <2>4. Sound'
    BY <2>1, <2>2, <2>3, TakeIsSound
  <2>5. \A r \in Objects \ {"debug"} : objects'[r] = objects[r]
    BY <2>1, <2>2 DEF Sound
  <2>6. Counted'
    BY <2>1, <2>2 DEF Counted, Labels
  <2>7. Vacant'
    BY <2>1, <2>2, <2>5 DEF Vacant, Objects
  <2>8. Placed'
    BY <2>1, <2>2, <2>5 DEF Placed, Consecutive, Objects
  <2>9. Measured' /\ HandedOver'
    BY <2>1 DEF Measured, HandedOver
  <2>10. Located'
    <3>1. Address("process")' = Address("process")
      BY <2>5, SameObject DEF Objects
    <3> QED BY <2>1, <2>2, <3>1 DEF Located
  <2> QED BY <2>4, <2>6, <2>7, <2>8, <2>9, <2>10 DEF IInv
<1> QED BY <1>1, <1>2

(* The firmware takes or returns a page, after which the map it had is not *)
(* the one that was measured.                                              *)
LEMMA FirmwareKeeps ==
  ASSUME IInv, Firmware
  PROVE  IInv'
<1>1. /\ pc' = pc /\ pc \notin {"convert", "jump", "kernel", "grew"}
      /\ events' = events + 1 /\ events < MAX_EVENTS
      /\ image' = image /\ objects' = objects
      /\ mmap_pages' = mmap_pages /\ seen' = seen /\ kernel_header' = kernel_header
      /\ kernel_elf_size' = kernel_elf_size /\ entry_point' = entry_point /\ ph' = ph
  BY DEF Firmware, input, size, kernel, elfVars
<1>2. Sound /\ Counted /\ Vacant /\ Placed /\ Located
  BY DEF IInv
<1>3. PICK p \in EventPages, from \in {"CONVENTIONAL", "BOOT_SERVICES_DATA"},
           type \in {"CONVENTIONAL", "BOOT_SERVICES_DATA"} :
        types[p] = from /\ SetTypes({p}, type)
  BY DEF Firmware
<1>4. /\ types' \in [Page -> Types]
      /\ \A q \in Page : types'[q] = IF q = p THEN type ELSE types[q]
  BY <1>2, <1>3 DEF Sound, SetTypes, Types, FREE_TYPES
<1>5. Sound'
  <2>1. \A o \in Objects : \A q \in objects[o] : q \in Page /\ q # p
    BY <1>2, <1>3 DEF Sound
  <2>2. \A o \in Objects : \A q \in objects'[o] : types'[q] = "LOADER_DATA"
    BY <1>1, <1>2, <1>4, <2>1 DEF Sound
  <2>3. \A q \in Page : types'[q] = "LOADER_DATA" => \E o \in Objects : q \in objects'[o]
    BY <1>1, <1>2, <1>4 DEF Sound
  <2> QED BY <1>1, <1>2, <1>4, <2>2, <2>3 DEF Sound
<1>6. events \in Nat /\ MAX_EVENTS \in Nat /\ seen \in Nat /\ seen <= events
  BY SMTT(60), <1>2, BootloaderAssumption DEF Counted
<1>7. Counted'
  BY SMTT(60), <1>1, <1>2, <1>6 DEF Counted
<1>8. Vacant' /\ Placed'
  BY SMTT(60), <1>1, <1>2 DEF Vacant, Placed, Consecutive
<1>9. Measured' /\ HandedOver'
  BY SMTT(60), <1>1, <1>6 DEF Measured, HandedOver
<1>10. Located'
  <2>1. Address("process")' = Address("process")
    BY <1>1, SameObject
  <2> QED BY <1>1, <1>2, <2>1 DEF Located
<1> QED BY <1>5, <1>7, <1>8, <1>9, <1>10 DEF IInv

(* goto_entrypoint() *)
LEMMA JumpKeeps ==
  ASSUME IInv, goto_entrypoint
  PROVE  IInv'
<1> USE DEF AfterMap, AfterStack, AfterFree, AfterReturn, AfterProcess, AfterFile, AfterPaging,
            AfterTables, AfterTemp, AfterHeader, Ended
<1>1. /\ pc = "jump" /\ pc' = "kernel"
      /\ image' = image /\ types' = types /\ objects' = objects /\ events' = events
      /\ mmap_pages' = mmap_pages /\ seen' = seen /\ mmap' = mmap /\ kernel_header' = kernel_header
      /\ kernel_elf_size' = kernel_elf_size /\ entry_point' = entry_point /\ ph' = ph
  BY DEF goto_entrypoint, Goto, input, pages, size, elfVars
<1>2. Sound' /\ Counted' /\ Vacant' /\ Placed'
  BY <1>1, SameSound DEF IInv, Counted, Vacant, Placed, Consecutive, pages, Labels
<1>3. Measured'
  BY <1>1 DEF Measured
<1>4. \A o : Address(o)' = Address(o) /\ First(o)' = First(o)
  BY <1>1, SameObject
<1>5. Located'
  BY <1>1, <1>4 DEF IInv, Located
<1>6. HandedOver'
  <2>1. regs' = [rip |-> entry_point',
                 rsp |-> ptr_to_kernelspace(Address("stack")') + STACK_PAGES * PAGE_WORDS,
                 rdi |-> ptr_to_kernelspace(Address("header")')]
    BY <1>1, <1>4 DEF goto_entrypoint
  <2> QED BY <1>1, <1>4, <2>1, SameMap DEF IInv, HandedOver
<1> QED BY <1>2, <1>3, <1>5, <1>6 DEF IInv

(* The first state. *)
LEMMA InitOK == Init => IInv
<1> SUFFICES ASSUME Init PROVE IInv
  OBVIOUS
<1> USE DEF AfterMap, AfterStack, AfterFree, AfterReturn, AfterProcess, AfterFile, AfterPaging,
            AfterTables, AfterTemp, AfterHeader, Ended
<1>1. Len(image.ph_list) \in Nat
  <2>1. image.ph_list \in Seq(SegmentHeader)
    BY ImagesAssumption DEF Init, Linked
  <2> QED BY SMTT(60), <2>1
<1>2. Sound
  BY BootloaderAssumption DEF Init, Sound
<1>3. Counted
  BY SMTT(60), <1>1, BootloaderAssumption DEF Init, Counted, Labels
<1>4. Vacant
  BY DEF Init, Vacant, Objects
<1>5. Placed /\ Measured /\ Located /\ HandedOver
  BY DEF Init, Placed, Measured, Located, HandedOver
<1> QED BY <1>2, <1>3, <1>4, <1>5 DEF IInv

(* Every step of efi_main() and of the firmware keeps the invariant. *)
LEMMA Invariance == IInv /\ [Next]_vars => IInv'
<1> SUFFICES ASSUME IInv, [Next]_vars PROVE IInv'
  OBVIOUS
<1> USE DEF Objects, rest, elfVars, kernel
<1>1. CASE UNCHANGED vars
  <2>1. /\ UNCHANGED <<pc, input, pages, events, size, mmap, kernel_header, kernel>>
        /\ ph' = ph
    BY <1>1 DEF vars
  <2>2. ph \in 1 .. (Len(image.ph_list) + 1)
    BY DEF IInv, Counted
  <2> QED BY <2>1, <2>2, SameKeeps
<1>2. CASE handle_protocols \/ set_mode \/ convert
  BY <1>2, ProtocolsKeep, SetModeKeeps, ConvertKeeps
<1>3. CASE paging_size \/ mmap_size
  BY <1>3, MapSizeKeeps DEF paging_size, mmap_size
<1>4. CASE paging_grown \/ mmap_grown
  BY <1>4, MapGrownKeeps DEF paging_grown, mmap_grown
<1>5. CASE paging_map \/ exit_boot_services
  BY <1>5, MapReadKeeps DEF paging_map, exit_boot_services
<1>6. CASE allocate_header
  BY <1>6, AllocateKeeps DEF allocate_header
<1>7. CASE paging_allocate
  BY <1>7, AllocateKeeps DEF paging_allocate
<1>8. CASE paging_tables
  BY <1>8, AllocateKeeps DEF paging_tables
<1>9. CASE allocate_process
  BY <1>9, AllocateKeeps DEF allocate_process
<1>10. CASE allocate_stack
  BY <1>10, AllocateKeeps DEF allocate_stack
<1>11. CASE mmap_allocate
  BY <1>11, AllocateKeeps DEF mmap_allocate
<1>12. CASE paging_free \/ free_file
  BY <1>12, FreeKeeps DEF paging_free, free_file
<1>13. CASE read_file \/ prepare \/ prepare_returns \/ debug_data \/ goto_entrypoint \/ Firmware
  BY <1>13, ReadFileKeeps, PrepareKeeps, ReturnsKeep, DebugKeeps, JumpKeeps, FirmwareKeeps
<1>14. CASE prepare_panics
  BY <1>14, PanicKeeps DEF prepare_panics, GetTo, Goto
<1> QED
  BY <1>1, <1>2, <1>3, <1>4, <1>5, <1>6, <1>7, <1>8, <1>9, <1>10, <1>11, <1>12, <1>13, <1>14
     DEF Next, efi_main, Done

(* The inductive invariant holds in every state that is reached. *)
LEMMA Inductive == Spec => []IInv
BY InitOK, Invariance, PTL DEF Spec

-----------------------------------------------------------------------------
(* The runs of pages and the registers.                                    *)

(* A descriptor is for the pages from its start on that have its type. *)
LEMMA RunIs ==
  ASSUME NEW p \in Page
  PROVE  /\ RunLength(p) \in Nat
         /\ p .. (p + RunLength(p) - 1)
              = {q \in p .. (PAGES - 1) : \A r \in p .. q : types[r] = types[p]}
<1> DEFINE S == {q \in p .. (PAGES - 1) : \A r \in p .. q : types[r] = types[p]}
           B == {q \in p .. PAGES : q \notin S}
<1>1. PAGES \in Nat /\ p \in Nat /\ p < PAGES
  BY SMTT(60), BootloaderAssumption DEF Page
<1>2. B \in SUBSET Nat /\ PAGES \in B
  BY SMTT(60), <1>1
<1>3. PICK m \in B : \A k \in B : m <= k
  <2> HIDE DEF B
  <2> QED BY <1>2, MinNat
<1>4. m \in Nat /\ p <= m /\ m <= PAGES /\ m \notin S
  BY SMTT(60), <1>1
<1>5. S = p .. (m - 1)
  <2>1. ASSUME NEW q \in p .. (m - 1) PROVE q \in S
    <3>1. q \in p .. PAGES /\ ~ (m <= q)
      BY SMTT(60), <1>1, <1>4
    <3> HIDE DEF S
    <3> QED BY <1>3, <3>1
  <2>2. ASSUME NEW q \in S, q >= m PROVE FALSE
    <3>1. q \in p .. (PAGES - 1) /\ \A r \in p .. q : types[r] = types[p]
      OBVIOUS
    <3>2. m \in p .. (PAGES - 1) /\ \A r \in p .. m : r \in p .. q
      BY SMTT(60), <1>1, <1>4, <2>2, <3>1
    <3>3. m \in S
      BY <3>1, <3>2
    <3> QED BY <1>4, <3>3
  <2>3. \A q \in S : q \in p .. (PAGES - 1)
    OBVIOUS
  <2> HIDE DEF S
  <2>4. \A q \in S : q \in p .. (m - 1)
    BY SMTT(60), <1>1, <1>4, <2>2, <2>3
  <2> QED BY <2>1, <2>4
<1>6. RunLength(p) = Cardinality(S)
  BY DEF RunLength
<1> HIDE DEF S
<1>7. Cardinality(p .. (m - 1)) = m - p
  <2>1. p \in Int /\ m - 1 \in Int
    BY SMTT(60), <1>1, <1>4
  <2>2. Cardinality(p .. (m - 1)) = IF p > m - 1 THEN 0 ELSE (m - 1) - p + 1
    BY <2>1, FS_Interval
  <2> QED BY SMTT(60), <1>1, <1>4, <2>2
<1>8. RunLength(p) = m - p
  BY <1>5, <1>6, <1>7
<1>9. RunLength(p) \in Nat /\ p + RunLength(p) - 1 = m - 1
  BY SMTT(60), <1>1, <1>4, <1>8
<1> QED BY <1>5, <1>9 DEF S

(* Every page that is no hole is in a run. *)
LEMMA RunOf ==
  ASSUME types \in [Page -> Types], NEW q \in Page, types[q] # "hole"
  PROVE  \E p \in RunStarts : types[p] = types[q] /\ q \in p .. (p + RunLength(p) - 1)
<1> DEFINE A == {p \in 0 .. q : \A r \in p .. q : types[r] = types[q]}
<1>1. PAGES \in Nat /\ q \in Nat /\ q < PAGES
  BY SMTT(60), BootloaderAssumption DEF Page
<1>2. A \in SUBSET Nat /\ q \in A
  BY SMTT(60), <1>1
<1>3. PICK p \in A : \A k \in A : p <= k
  <2> HIDE DEF A
  <2> QED BY <1>2, MinNat
<1>4. p \in 0 .. q /\ (\A r \in p .. q : types[r] = types[q]) /\ types[p] = types[q]
  BY SMTT(60), <1>1
<1>5. ASSUME p # 0, types[p - 1] = types[p] PROVE FALSE
  <2>1. p - 1 \in 0 .. q /\ \A r \in (p - 1) .. q : r = p - 1 \/ r \in p .. q
    BY SMTT(60), <1>1, <1>4, <1>5
  <2>2. p - 1 \in A
    BY <1>4, <1>5, <2>1
  <2>3. p <= p - 1
    <3> HIDE DEF A
    <3> QED BY <1>3, <2>2
  <2> QED BY SMTT(60), <1>4, <2>3
<1>6. p \in Page
  BY SMTT(60), <1>1, <1>4 DEF Page
<1>7. p \in RunStarts
  BY <1>4, <1>5, <1>6 DEF RunStarts
<1>8. q \in {s \in p .. (PAGES - 1) : \A r \in p .. s : types[r] = types[p]}
  BY SMTT(60), <1>1, <1>4
<1> QED BY <1>4, <1>6, <1>7, <1>8, RunIs

(* The values of a finite table have a bound. *)
LEMMA Bounded ==
  ASSUME NEW n \in Nat, NEW g \in [1 .. n -> Nat]
  PROVE  \E b \in Nat : \A k \in 1 .. n : g[k] <= b
<1> DEFINE Bad == {m \in 0 .. n : \A b \in Nat : \E k \in 1 .. m : g[k] > b}
<1>1. SUFFICES ASSUME Bad # {} PROVE FALSE
  <2>1. n \notin Bad
    BY <1>1
  <2>2. PICK b \in Nat : \A k \in 1 .. n : ~ (g[k] > b)
    BY SMTT(60), <2>1
  <2>3. \A k \in 1 .. n : g[k] \in Nat
    OBVIOUS
  <2>4. \A k \in 1 .. n : g[k] <= b
    BY SMTT(60), <2>2, <2>3
  <2> QED BY <2>4
<1>2. PICK m \in Bad : \A k \in Bad : m <= k
  <2>1. Bad \in SUBSET Nat
    BY SMTT(60)
  <2> HIDE DEF Bad
  <2> QED BY <1>1, <2>1, MinNat
<1>3. m \in 0 .. n /\ \A b \in Nat : \E k \in 1 .. m : g[k] > b
  OBVIOUS
<1>4. m # 0
  BY SMTT(60), <1>3
<1>5. m - 1 \in 0 .. n /\ m - 1 \notin Bad
  <2> HIDE DEF Bad
  <2>1. m \in Nat
    BY SMTT(60), <1>3
  <2> QED BY SMTT(60), <1>2, <1>3, <1>4, <2>1
<1>6. PICK b \in Nat : \A k \in 1 .. (m - 1) : ~ (g[k] > b)
  BY <1>5
<1> HIDE DEF Bad
<1>7. g[m] \in Nat /\ \A k \in 1 .. m : k = m \/ k \in 1 .. (m - 1)
  BY SMTT(60), <1>3, <1>4
<1>8. PICK c \in Nat : c >= b /\ c >= g[m]
  BY SMTT(60), <1>7, b + g[m] \in Nat
<1>9. \A k \in 1 .. m : ~ (g[k] > c)
  BY SMTT(60), <1>3, <1>6, <1>7, <1>8
<1> QED BY <1>3, <1>9

(* A bounded set of naturals has a largest element. *)
LEMMA MaxNat ==
  ASSUME NEW S \in SUBSET Nat, S # {}, NEW b \in Nat, \A x \in S : x <= b
  PROVE  Max(S) \in S /\ \A x \in S : Max(S) >= x
<1> DEFINE T == {y \in 0 .. b : b - y \in S}
<1>1. T \in SUBSET Nat /\ T # {}
  <2>1. PICK x \in S : TRUE
    OBVIOUS
  <2>2. b - x \in 0 .. b /\ b - (b - x) = x
    BY SMTT(60), <2>1
  <2>3. b - x \in T
    BY <2>1, <2>2
  <2>4. \A y \in T : y \in Nat
    BY SMTT(60)
  <2> HIDE DEF T
  <2> QED BY <2>3, <2>4
<1>2. PICK m \in T : \A k \in T : m <= k
  <2> HIDE DEF T
  <2> QED BY <1>1, MinNat
<1>3. b - m \in S /\ m \in 0 .. b
  OBVIOUS
<1>4. ASSUME NEW x \in S PROVE b - m >= x
  <2>1. b - x \in 0 .. b /\ b - (b - x) = x
    BY SMTT(60)
  <2>2. b - x \in T
    BY <2>1
  <2>3. m <= b - x
    <3> HIDE DEF T
    <3> QED BY <1>2, <2>2
  <2> QED BY SMTT(60), <1>3, <2>3
<1>5. \E z \in S : \A x \in S : z >= x
  BY <1>3, <1>4
<1> QED BY <1>5 DEF Max

(* The size of an image covers its LOAD segments. *)
LEMMA SizeIsNat ==
  ASSUME NEW im \in Images
  PROVE  /\ get_size(im) \in Nat
         /\ \A n \in DOMAIN im.ph_list : im.ph_list[n].seg_type = "LOAD" =>
              im.ph_list[n].virt_addr + im.ph_list[n].virt_size <= get_size(im)
<1> DEFINE L == im.ph_list
           g == [k \in 1 .. Len(L) |-> L[k].virt_addr + L[k].virt_size]
           loads == {t \in Range(L) : t.seg_type = "LOAD"}
           S == {0} \cup {s.virt_addr + s.virt_size : s \in loads}
<1>1. L \in Seq(SegmentHeader)
  BY ImagesAssumption DEF Linked
<1> HIDE DEF L
<1>2. /\ Len(L) \in Nat /\ DOMAIN L = 1 .. Len(L)
      /\ \A k \in 1 .. Len(L) : L[k].virt_addr \in Nat /\ L[k].virt_size \in Nat
  <2>1. Len(L) \in Nat /\ DOMAIN L = 1 .. Len(L) /\ \A k \in 1 .. Len(L) : L[k] \in SegmentHeader
    BY SMTT(60), <1>1
  <2>2. \A s \in SegmentHeader : s.virt_addr \in Nat /\ s.virt_size \in Nat
    BY DEF SegmentHeader
  <2> QED BY <2>1, <2>2
<1>3. g \in [1 .. Len(L) -> Nat]
  BY SMTT(60), <1>2
<1>4. PICK b \in Nat : \A k \in 1 .. Len(L) : g[k] <= b
  <2> HIDE DEF g
  <2> QED BY <1>2, <1>3, Bounded
<1>5. \A s \in loads : \E k \in 1 .. Len(L) : s = L[k]
  BY <1>2 DEF Range
<1>6. \A s \in loads : s.virt_addr + s.virt_size \in Nat /\ s.virt_addr + s.virt_size <= b
  <2> SUFFICES ASSUME NEW s \in loads
               PROVE  s.virt_addr + s.virt_size \in Nat /\ s.virt_addr + s.virt_size <= b
    OBVIOUS
  <2>1. PICK k \in 1 .. Len(L) : s = L[k]
    BY <1>5
  <2>2. g[k] = s.virt_addr + s.virt_size /\ g[k] \in Nat /\ g[k] <= b
    BY SMTT(60), <1>2, <1>4, <2>1
  <2> QED BY <2>2
<1> HIDE DEF loads
<1>7. S \in SUBSET Nat /\ S # {} /\ \A x \in S : x <= b
  BY SMTT(60), <1>6
<1>8. get_size(im) = Max(S)
  BY DEF get_size, L, S, loads
<1> HIDE DEF S
<1>9. Max(S) \in S /\ \A x \in S : Max(S) >= x
  BY <1>7, MaxNat
<1>10. \A s \in loads : s.virt_addr + s.virt_size \in S
  BY DEF S
<1>11. ASSUME NEW n \in DOMAIN L, L[n].seg_type = "LOAD"
       PROVE  L[n].virt_addr + L[n].virt_size <= Max(S)
  <2>1. L[n] \in loads
    BY <1>11 DEF loads, Range
  <2> DEFINE x == L[n].virt_addr + L[n].virt_size
  <2>2. x \in S /\ x \in Nat
    BY <1>6, <1>10, <2>1
  <2> HIDE DEF x
  <2>3. Max(S) >= x /\ Max(S) \in Nat
    BY <1>7, <1>9, <2>2
  <2>4. x <= Max(S)
    BY SMTT(60), <2>2, <2>3
  <2> QED BY <2>4 DEF x
<1> QED BY <1>7, <1>8, <1>9, <1>11 DEF L

(* The first page of an object. *)
LEMMA FirstIs ==
  ASSUME NEW o, NEW p \in Nat, NEW n \in Nat, n >= 1, objects[o] = p .. (p + n - 1)
  PROVE  First(o) = p
<1> DEFINE S == p .. (p + n - 1)
<1>1. p \in S /\ \A y \in S : p <= y
  BY SMTT(60)
<1>2. \A x \in S : (\A y \in S : x <= y) => x = p
  BY SMTT(60), <1>1
<1> HIDE DEF S
<1>3. Min(S) = p
  BY <1>1, <1>2 DEF Min
<1> QED BY <1>3 DEF First, S

(* The page of an address in the kernel's half. *)
LEMMA PageIs ==
  ASSUME NEW p \in Nat, NEW a \in Nat
  PROVE  /\ PageOf(HIGH_MEM_BASE + p * PAGE_WORDS + a) = p + a \div PAGE_WORDS
         /\ a \div PAGE_WORDS \in Nat
<1> DEFINE d == PAGE_WORDS
           h == HIGH_MEM_BASE
<1>1. d \in Nat /\ d >= 1 /\ h \in Nat
  BY SMTT(60), BootloaderAssumption
<1> HIDE DEF d, h
<1>2. p * d \in Nat
  BY SMTT(60), <1>1
<1> DEFINE x == p * d
<1>3. x \in Nat
  BY <1>2
<1> HIDE DEF x
<1>4. (h + x + a) - h = a + x
  BY SMTT(60), <1>1, <1>3
<1>5. (a + p * d) \div d = a \div d + p
  BY <1>1, DivAdd
<1>6. a \div d \in Nat
  BY <1>1, DivMod
<1>7. PageOf(h + x + a) = a \div d + p
  BY <1>4, <1>5 DEF PageOf, x, d, h
<1> QED BY SMTT(60), <1>6, <1>7 DEF x, d, h

-----------------------------------------------------------------------------
(* The theorems.                                                           *)

(***************************************************************************)
(* The bootloader's objects are pages the firmware has set apart for it,   *)
(* and no two share a page, whatever pages the firmware picks for an       *)
(* allocation of efi_main(), paging::init() and read_file(), and takes     *)
(* between them.                                                           *)
(***************************************************************************)
THEOREM ObjectsApart == Spec => []BootloaderTypeOK
<1>1. IInv => BootloaderTypeOK
  BY DEF IInv, Sound, Counted, BootloaderTypeOK
<1> QED BY <1>1, Inductive, PTL

(***************************************************************************)
(* "Ensure that the buffer allocation didn't grow the memory map too much  *)
(* (should never happen)": an allocation adds two descriptors at most, and *)
(* two fit in the page that is added to the size.                          *)
(***************************************************************************)
THEOREM GrowthIsCovered == Spec => []GrownOnlyByFirmware
<1>1. IInv => GrownOnlyByFirmware
  BY DEF IInv, Measured, GrownOnlyByFirmware
<1> QED BY <1>1, Inductive, PTL

(* What is free in the map that the kernel gets. *)
LEMMA FreeIs ==
  ASSUME IInv, pc = "kernel"
  PROVE  FreePages = {q \in Page : types[q] \in FREE_TYPES}
<1>1. /\ types \in [Page -> Types] /\ PAGES \in Nat
      /\ mmap = memory_map
      /\ kernel_header.segments =
           {[start |-> entry.phys_start, page_count |-> entry.page_count,
             state |-> state(entry.ty)] : entry \in mmap}
  BY BootloaderAssumption DEF IInv, Sound, HandedOver
<1>2. ASSUME NEW q \in FreePages PROVE q \in Page /\ types[q] \in FREE_TYPES
  <2>1. PICK s \in kernel_header.segments : s.state = "Free" /\ q \in Pages(s)
    BY DEF FreePages
  <2>2. PICK p \in RunStarts : s = [start |-> p, page_count |-> RunLength(p),
                                    state |-> state(types[p])]
    <3>1. PICK e \in mmap : s = [start |-> e.phys_start, page_count |-> e.page_count,
                                 state |-> state(e.ty)]
      BY <1>1, <2>1
    <3>2. PICK p \in RunStarts : e = [phys_start |-> p, page_count |-> RunLength(p), ty |-> types[p]]
      BY <1>1, <3>1 DEF memory_map
    <3> QED BY <3>1, <3>2
  <2>3. p \in Page /\ types[p] \in FREE_TYPES /\ q \in p .. (p + RunLength(p) - 1)
    BY <2>1, <2>2 DEF state, Pages, RunStarts
  <2>4. q \in p .. (PAGES - 1) /\ \A r \in p .. q : types[r] = types[p]
    BY <2>3, RunIs
  <2>5. q \in Page /\ types[q] = types[p]
    BY SMTT(60), <1>1, <2>3, <2>4 DEF Page
  <2> QED BY <2>3, <2>5
<1>3. ASSUME NEW q \in Page, types[q] \in FREE_TYPES PROVE q \in FreePages
  <2>1. PICK p \in RunStarts : types[p] = types[q] /\ q \in p .. (p + RunLength(p) - 1)
    BY <1>1, <1>3, RunOf DEF FREE_TYPES
  <2> DEFINE s == [start |-> p, page_count |-> RunLength(p), state |-> state(types[p])]
  <2>2. s \in kernel_header.segments
    <3> DEFINE e == [phys_start |-> p, page_count |-> RunLength(p), ty |-> types[p]]
    <3>1. e \in mmap
      BY <1>1 DEF memory_map
    <3>2. s = [start |-> e.phys_start, page_count |-> e.page_count, state |-> state(e.ty)]
      OBVIOUS
    <3> HIDE DEF e, s
    <3> QED BY <1>1, <3>1, <3>2
  <2>3. s.state = "Free" /\ q \in Pages(s)
    BY <1>3, <2>1 DEF state, Pages
  <2> HIDE DEF s
  <2> QED BY <2>2, <2>3 DEF FreePages
<1> QED BY <1>2, <1>3

(* The entry point is in a page of the image. *)
LEMMA RipIs ==
  ASSUME IInv, pc = "kernel"
  PROVE  PageOf(regs.rip) \in objects["process"]
<1> USE DEF AfterMap, AfterStack, AfterFree, AfterReturn, AfterProcess, AfterFile
<1>1. /\ kernel_elf_size = get_size(image) /\ regs.rip = entry_point
      /\ entry_point = ptr_to_kernelspace(Address("process")) + image.entry_point
      /\ image \in Images
  BY SMTT(60) DEF IInv, Located, HandedOver, Counted
<1> DEFINE e == image.entry_point
           m == get_size(image)
           n == PagesFor(m)
           d == PAGE_WORDS
<1>2. m \in Nat /\ e \in 0 .. (m - 1)
  <2>1. image.entry_point \in 0 .. (get_size(image) - 1)
    BY <1>1, ImagesAssumption
  <2> QED BY <1>1, <2>1, SizeIsNat
<1>3. PICK p \in Page : objects["process"] = p .. (p + n - 1)
  BY <1>1 DEF IInv, Placed, Consecutive
<1>4. d \in Nat /\ d >= 1 /\ p \in Nat /\ HIGH_MEM_BASE \in Nat
  BY SMTT(60), BootloaderAssumption DEF Page
<1>5. n = (m + d - 1) \div d
  BY DEF PagesFor
<1> HIDE DEF e, m, n, d
<1>6. e \in Nat /\ e < m
  BY SMTT(60), <1>2
<1>7. e \div d \in Nat /\ n \in Nat /\ e \div d < n
  <2> DEFINE x == e + d
             y == m + d - 1
  <2>1. x \in Nat /\ y \in Nat /\ x <= y
    BY SMTT(60), <1>2, <1>4, <1>6
  <2>2. x \div d = e \div d + 1 /\ e \div d \in Nat
    <3>1. ASSUME NEW a \in Nat PROVE (e + a * d) \div d = e \div d + a
      BY <1>4, <1>6, DivAdd
    <3>2. \E a \in Nat : a = 1 /\ x = e + a * d
      BY SMTT(60), <1>4, <1>6
    <3>3. x \div d = e \div d + 1
      <4> HIDE DEF x
      <4> QED BY <3>1, <3>2
    <3>4. e \div d \in Nat
      BY <1>4, <1>6, DivMod
    <3> QED BY <3>3, <3>4
  <2> HIDE DEF x, y
  <2>3. y \div d \in Nat /\ x \div d <= y \div d
    BY <1>4, <2>1, DivMono
  <2>4. n = y \div d
    BY <1>5 DEF y
  <2> QED BY SMTT(60), <2>2, <2>3, <2>4
<1>8. First("process") = p
  <2>1. n >= 1
    BY SMTT(60), <1>7
  <2> QED BY <1>3, <1>4, <1>7, <2>1, FirstIs
<1>9. regs.rip = HIGH_MEM_BASE + p * d + e
  <2>1. p * d \in Nat
    BY SMTT(60), <1>4
  <2>2. regs.rip = (p * d + HIGH_MEM_BASE) + e
    BY <1>1, <1>8 DEF ptr_to_kernelspace, Address, e, d
  <2> DEFINE x == p * d
  <2>3. x \in Nat /\ regs.rip = (x + HIGH_MEM_BASE) + e
    BY <2>1, <2>2
  <2> HIDE DEF x
  <2>4. regs.rip = HIGH_MEM_BASE + x + e
    BY SMTT(60), <1>4, <1>6, <2>3
  <2> QED BY <2>4 DEF x
<1>10. PageOf(regs.rip) = p + e \div d
  BY <1>4, <1>6, <1>9, PageIs DEF d
<1> QED BY SMTT(60), <1>3, <1>4, <1>7, <1>10

(* The stack grows down from the end of its last page, and rdi is the      *)
(* page of the header.                                                     *)
LEMMA RspRdiAre ==
  ASSUME IInv, pc = "kernel"
  PROVE  PageOf(regs.rsp - 1) \in objects["stack"] /\ PageOf(regs.rdi) \in objects["header"]
<1> USE DEF AfterMap, AfterStack, AfterFree, AfterReturn, AfterProcess, AfterFile, AfterPaging,
            AfterTables, AfterTemp, AfterHeader
<1>1. /\ regs.rsp = ptr_to_kernelspace(Address("stack")) + STACK_PAGES * PAGE_WORDS
      /\ regs.rdi = ptr_to_kernelspace(Address("header"))
  BY SMTT(60) DEF IInv, HandedOver
<1> DEFINE d == PAGE_WORDS
           n == STACK_PAGES
           h == HIGH_MEM_BASE
           one == 1
<1>2. PICK p \in Page : objects["stack"] = p .. (p + n - 1)
  BY DEF IInv, Placed, Consecutive
<1>3. PICK q \in Page : objects["header"] = q .. (q + one - 1)
  BY DEF IInv, Placed, Consecutive
<1>4. /\ d \in Nat /\ d >= 1 /\ n \in Nat /\ n >= 1 /\ h \in Nat
      /\ p \in Nat /\ q \in Nat /\ one \in Nat /\ one = 1 /\ one >= 1
  BY SMTT(60), BootloaderAssumption DEF Page
<1> HIDE DEF d, n, h, one
<1>5. First("stack") = p /\ First("header") = q
  BY <1>2, <1>3, <1>4, FirstIs
<1>6. PageOf(regs.rdi) = q
  <2> DEFINE x == q * d
  <2>1. x \in Nat /\ regs.rdi = x + h
    BY SMTT(60), <1>1, <1>4, <1>5 DEF ptr_to_kernelspace, Address, d, h
  <2> HIDE DEF x
  <2> DEFINE zero == 0
  <2>2. zero \in Nat /\ zero = 0 /\ zero < d
    BY SMTT(60), <1>4
  <2>3. regs.rdi = h + x + zero
    BY SMTT(60), <1>4, <2>1
  <2> HIDE DEF zero
  <2>4. PageOf(h + q * d + zero) = q + zero \div d
    BY <1>4, <2>2, PageIs DEF d, h
  <2>5. zero \div d = 0
    BY SMTT(60), <1>4, <2>2
  <2>6. PageOf(regs.rdi) = q + zero \div d
    BY <2>3, <2>4 DEF x
  <2> QED BY SMTT(60), <1>4, <2>5, <2>6
<1>7. PageOf(regs.rsp - 1) = p + (n - 1)
  <2> DEFINE x == p * d
             y == n * d
             a == y - 1
             k == n - 1
             z == k * d
             r == d - 1
  <2>1. x \in Nat /\ y \in Nat /\ z \in Nat /\ y = z + d /\ k \in Nat /\ r \in Nat /\ r < d
    BY SMTT(60), <1>4
  <2>2. regs.rsp = (x + h) + y
    BY <1>1, <1>5 DEF ptr_to_kernelspace, Address, d, h, n
  <2> HIDE DEF x, y, z
  <2>3. a \in Nat /\ a = z + r /\ regs.rsp - 1 = h + x + a
    BY SMTT(60), <1>4, <2>1, <2>2
  <2> HIDE DEF a, r, k
  <2>4. PageOf(h + p * d + a) = p + a \div d
    BY <1>4, <2>3, PageIs DEF d, h
  <2>5. (k * d + r) \div d = k
    BY <1>4, <2>1, DivUnique
  <2>6. PageOf(regs.rsp - 1) = p + k
    BY <2>3, <2>4, <2>5 DEF x, z
  <2> QED BY <2>6 DEF k
<1>8. p + (n - 1) \in p .. (p + n - 1) /\ q \in q .. (q + one - 1)
  BY SMTT(60), <1>4
<1> QED BY <1>2, <1>3, <1>6, <1>7, <1>8

(***************************************************************************)
(* The map that efi_main() converts for the kernel says that nothing of    *)
(* what the kernel still uses is free, and goto_entrypoint() starts it     *)
(* with registers that point there: whatever the memory of the machine is, *)
(* wherever the firmware puts an object, whatever image is loaded.         *)
(***************************************************************************)
THEOREM KernelKeepsItsMemory == Spec => []KernelMemoryKept
<1>1. IInv => KernelMemoryKept
  <2> SUFFICES ASSUME IInv, pc = "kernel"
               PROVE  /\ KernelPages \cap FreePages = {}
                      /\ PageOf(regs.rip) \in objects["process"]
                      /\ PageOf(regs.rsp - 1) \in objects["stack"]
                      /\ PageOf(regs.rdi) \in objects["header"]
    BY DEF KernelMemoryKept
  <2>1. ASSUME NEW q \in KernelPages PROVE types[q] = "LOADER_DATA"
    BY SMTT(60) DEF KernelPages, IInv, Sound
  <2>2. KernelPages \cap FreePages = {}
    BY <2>1, FreeIs DEF FREE_TYPES
  <2> QED BY <2>2, RipIs, RspRdiAre
<1> QED BY <1>1, Inductive, PTL

(***************************************************************************)
(* And all other memory of the machine that is no hole and not reserved is *)
(* free for the kernel: free_file() and the end of paging::init() leave    *)
(* nothing behind.                                                         *)
(***************************************************************************)
THEOREM NoMemoryIsLost == Spec => []NothingWithheld
<1>1. IInv => NothingWithheld
  <2> SUFFICES ASSUME IInv, pc = "kernel", NEW q \in Page, types[q] \notin {"RESERVED", "hole"},
                      q \notin KernelPages
               PROVE  q \in FreePages
    BY DEF NothingWithheld
  <2>1. types[q] \in Types
    BY DEF IInv, Sound
  <2>2. types[q] # "LOADER_DATA"
    <3> SUFFICES ASSUME types[q] = "LOADER_DATA" PROVE FALSE
      OBVIOUS
    <3>1. PICK o \in Objects : q \in objects[o]
      BY DEF IInv, Sound
    <3>2. objects["temp"] = {} /\ objects["file"] = {}
      BY DEF IInv, Vacant, AfterMap, AfterStack, AfterFree, AfterReturn, AfterProcess, AfterFile,
         AfterPaging, AfterTables, AfterTemp, Ended
    <3> QED BY <3>1, <3>2 DEF KernelPages
  <2>3. types[q] \in FREE_TYPES
    BY <2>1, <2>2 DEF Types
  <2> QED BY <2>3, FreeIs
<1> QED BY <1>1, Inductive, PTL

(* The map has a descriptor for every run, and no more. *)
LEMMA Descriptors ==
  /\ Cardinality(memory_map) \in Nat
  /\ Cardinality(memory_map) <= Cardinality(RunStarts)
<1> DEFINE f == [p \in RunStarts |-> [phys_start |-> p, page_count |-> RunLength(p), ty |-> types[p]]]
<1>1. f \in Surjection(RunStarts, memory_map)
  BY DEF memory_map, Surjection
<1>2. IsFiniteSet(RunStarts)
  BY Runs
<1> HIDE DEF f
<1>3. IsFiniteSet(memory_map) /\ Cardinality(memory_map) <= Cardinality(RunStarts)
  BY <1>1, <1>2, FS_Surjection
<1> QED BY <1>3, FS_CardinalityType

(***************************************************************************)
(* The second half of the buffer holds the converted map, and it is behind *)
(* all of the firmware's map that efi_main() converts it from.             *)
(***************************************************************************)
THEOREM MapFitsInBuffer == Spec => []MapInBuffer
<1>1. IInv => MapInBuffer
  <2> SUFFICES ASSUME IInv, pc = "kernel" PROVE MapInBuffer
    BY DEF MapInBuffer
  <2> DEFINE c == Cardinality(mmap)
             r == Cardinality(RunStarts)
             k == PER_PAGE
             length == (c + k - 1) \div k
             start == PageOf(kernel_header.memory_map)
             n == mmap_pages
             f == First("mmap")
  <2>1. /\ mmap = memory_map /\ PagesOfMap <= n /\ n \in Nat
        /\ kernel_header.memory_map = ptr_to_kernelspace((f + n) * PAGE_WORDS)
    BY SMTT(60) DEF IInv, HandedOver, Counted
  <2>2. PICK p \in Page : objects["mmap"] = p .. (p + n * 2 - 1)
    BY DEF IInv, Placed, Consecutive, AfterMap
  <2>3. /\ k \in Nat /\ k >= 2 /\ c \in Nat /\ r \in Nat /\ c <= r /\ p \in Nat
    BY SMTT(60), <2>1, Descriptors, Runs, BootloaderAssumption DEF Page
  <2>4. PagesOfMap = (r + k - 1) \div k
    BY DEF PagesOfMap
  <2>5. length \in Nat /\ length <= PagesOfMap /\ PagesOfMap \in Nat
    <3> DEFINE x == c + k - 1
               y == r + k - 1
    <3> HIDE DEF c, r, k
    <3>1. x \in Nat /\ y \in Nat /\ x <= y /\ k >= 1
      BY SMTT(60), <2>3
    <3> HIDE DEF x, y
    <3>2. x \div k \in Nat /\ y \div k \in Nat /\ x \div k <= y \div k
      BY <2>3, <3>1, DivMono
    <3> QED BY <2>4, <3>2 DEF x, y
  <2>6. length <= n
    <3> HIDE DEF length, n
    <3> QED BY SMTT(60), <2>1, <2>5
  <2>7. n >= 1
    <3>1. objects["header"] # {} /\ \A q \in objects["header"] : q \in Page /\ types[q] # "hole"
      <4>1. PICK q \in Page : objects["header"] = q .. (q + 1 - 1)
        BY DEF IInv, Placed, Consecutive, AfterMap, AfterStack, AfterFree, AfterReturn,
           AfterProcess, AfterFile, AfterPaging, AfterTables, AfterTemp, AfterHeader
      <4>2. q \in Nat
        BY SMTT(60), BootloaderAssumption DEF Page
      <4>3. q \in objects["header"]
        BY SMTT(60), <4>1, <4>2
      <4> QED BY <4>3 DEF IInv, Sound, Objects
    <3>2. RunStarts # {}
      BY <3>1, RunOf DEF IInv, Sound
    <3>3. r # 0
      BY <3>2, Runs, FS_EmptySet
    <3> DEFINE y == r + k - 1
    <3> HIDE DEF c, r, k
    <3>4. y \in Nat /\ y >= k /\ k >= 1
      BY SMTT(60), <2>3, <3>3
    <3> HIDE DEF y
    <3>5. y \div k \in Nat /\ y % k \in Nat /\ y % k < k /\ y = (y \div k) * k + (y % k)
      BY <2>3, <3>4, DivMod
    <3>6. y \div k # 0
      <4> DEFINE u == y \div k
                 v == y % k
      <4> HIDE DEF u, v
      <4>1. u \in Nat /\ v \in Nat /\ v < k /\ y = u * k + v
        BY <3>5 DEF u, v
      <4>2. u # 0
        BY SMTT(60), <2>3, <3>4, <4>1
      <4> QED BY <4>2 DEF u
    <3>7. PagesOfMap \in Nat /\ PagesOfMap # 0
      BY <2>4, <3>5, <3>6 DEF y
    <3> QED BY SMTT(60), <2>1, <3>7
  <2>8. f = p
    <3> DEFINE w == n * 2
    <3>1. w \in Nat /\ w >= 1 /\ objects["mmap"] = p .. (p + w - 1)
      BY SMTT(60), <2>1, <2>2, <2>7
    <3> HIDE DEF w
    <3> QED BY <2>3, <3>1, FirstIs
  <2>9. start = p + n
    <3> DEFINE d == PAGE_WORDS
               h == HIGH_MEM_BASE
               s == p + n
               x == s * d
               zero == 0
    <3>1. d \in Nat /\ d >= 1 /\ h \in Nat /\ s \in Nat /\ zero \in Nat
      BY SMTT(60), <2>1, <2>3, BootloaderAssumption
    <3>2. kernel_header.memory_map = x + h
      BY <2>1, <2>8 DEF ptr_to_kernelspace
    <3> HIDE DEF d, h, s
    <3>3. x \in Nat
      BY SMTT(60), <3>1
    <3> HIDE DEF x
    <3>4. kernel_header.memory_map = h + x + zero
      BY SMTT(60), <3>1, <3>2, <3>3
    <3>5. zero \div d = 0
      BY SMTT(60), <3>1
    <3> HIDE DEF zero
    <3>6. PageOf(h + s * d + zero) = s + zero \div d
      BY <3>1, PageIs DEF d, h
    <3>7. start = s + zero \div d
      BY <3>4, <3>6 DEF x
    <3>8. start = s
      BY SMTT(60), <3>1, <3>5, <3>7
    <3> QED BY <3>8 DEF s
  <2>10. MapInBuffer <=> /\ Words(start, length) \subseteq objects["mmap"]
                         /\ Words(f, length) \cap Words(start, length) = {}
    BY DEF MapInBuffer
  <2> HIDE DEF length, start, n, f
  <2>11. Words(start, length) \subseteq objects["mmap"]
    BY SMTT(60), <2>1, <2>2, <2>3, <2>5, <2>6, <2>9 DEF Words
  <2>12. Words(f, length) \cap Words(start, length) = {}
    BY SMTT(60), <2>1, <2>3, <2>5, <2>6, <2>8, <2>9 DEF Words
  <2> QED BY <2>10, <2>11, <2>12
<1> QED BY <1>1, Inductive, PTL

-----------------------------------------------------------------------------
(* Kernel images.                                                          *)

(* The headers of an image. *)
LEMMA HeadersAre ==
  ASSUME NEW im \in Images
  PROVE  /\ Len(im.ph_list) \in Nat /\ DOMAIN im.ph_list = 1 .. Len(im.ph_list)
         /\ \A n \in DOMAIN im.ph_list :
              /\ n \in Nat /\ n >= 1
              /\ im.ph_list[n].virt_addr \in Nat /\ im.ph_list[n].virt_size \in Nat
              /\ im.ph_list[n].data_offset \in Nat /\ im.ph_list[n].data_size \in Nat
<1> DEFINE L == im.ph_list
<1>1. L \in Seq(SegmentHeader)
  BY ImagesAssumption DEF Linked
<1> HIDE DEF L
<1>2. Len(L) \in Nat /\ DOMAIN L = 1 .. Len(L) /\ \A k \in 1 .. Len(L) : L[k] \in SegmentHeader
  BY SMTT(60), <1>1
<1>3. \A s \in SegmentHeader : /\ s.virt_addr \in Nat /\ s.virt_size \in Nat
                               /\ s.data_offset \in Nat /\ s.data_size \in Nat
  BY DEF SegmentHeader
<1>4. \A n \in 1 .. Len(L) : n \in Nat /\ n >= 1
  BY SMTT(60), <1>2
<1> QED BY <1>2, <1>3, <1>4 DEF L

(* The words of the file. *)
LEMMA FileIs ==
  ASSUME NEW im \in Images
  PROVE  /\ Cardinality(DOMAIN im.words) \in Nat
         /\ \A w : w \in DOMAIN im.words <=> w \in Nat /\ w < Cardinality(DOMAIN im.words)
         /\ \A w \in DOMAIN im.words : im.words[w] \in Nat
<1> DEFINE D == DOMAIN im.words
           c == Cardinality(D)
<1>1. IsFiniteSet(D) /\ D = Words(0, c) /\ \A w \in D : im.words[w] \in Nat
  BY ImagesAssumption DEF Linked
<1> HIDE DEF D
<1>2. c \in Nat
  BY <1>1, FS_CardinalityType
<1> HIDE DEF c
<1>3. \A w : w \in Words(0, c) <=> w \in Nat /\ w < c
  BY SMTT(60), <1>2 DEF Words
<1>4. \A w : w \in D <=> w \in Nat /\ w < c
  BY <1>1, <1>3
<1> QED BY <1>1, <1>2, <1>4 DEF D, c

(* An address that a LOAD segment covers. *)
LEMMA CoveredIs ==
  ASSUME NEW im \in Images, NEW n \in DOMAIN im.ph_list, NEW a, Covers(im.ph_list[n], a)
  PROVE  /\ a \in Nat /\ a < get_size(im) /\ a \in Words(0, get_size(im))
         /\ a < im.ph_list[n].virt_addr + im.ph_list[n].data_size =>
              im.ph_list[n].data_offset + (a - im.ph_list[n].virt_addr) \in DOMAIN im.words
         /\ FileWord(im, im.ph_list[n], a) \in Nat
         /\ \A m \in DOMAIN im.ph_list : Covers(im.ph_list[m], a) => m = n
<1> DEFINE s == im.ph_list[n]
           v == s.virt_addr
           z == s.virt_size
           o == s.data_offset
           q == s.data_size
           g == get_size(im)
<1>1. /\ v \in Nat /\ z \in Nat /\ o \in Nat /\ q \in Nat /\ g \in Nat /\ v + z <= g
      /\ a \in v .. (v + z - 1) /\ s.seg_type = "LOAD"
  BY HeadersAre, SizeIsNat DEF Covers, Words
<1>2. q <= z /\ Words(o, q) \subseteq DOMAIN im.words
  BY <1>1, ImagesAssumption DEF Linked
<1>3. \A m \in DOMAIN im.ph_list : m # n /\ im.ph_list[m].seg_type = "LOAD" =>
        Words(v, z) \cap Words(im.ph_list[m].virt_addr, im.ph_list[m].virt_size) = {}
  BY <1>1, ImagesAssumption DEF Linked
<1>4. \A m \in DOMAIN im.ph_list : Covers(im.ph_list[m], a) => m = n
  BY <1>1, <1>3 DEF Covers, Words
<1>5. FileWord(im, s, a) = IF a < v + q THEN im.words[o + (a - v)] ELSE 0
  BY DEF FileWord
<1> HIDE DEF s, v, z, o, q, g
<1>6. a \in Nat /\ a < g /\ a \in Words(0, g)
  BY SMTT(60), <1>1 DEF Words
<1>7. ASSUME a < v + q PROVE o + (a - v) \in Words(o, q)
  BY SMTT(60), <1>1, <1>7 DEF Words
<1>8. a < v + q => o + (a - v) \in DOMAIN im.words
  BY <1>2, <1>7
<1>9. FileWord(im, s, a) \in Nat
  <2>1. CASE a < v + q
    BY <1>5, <1>8, <2>1, FileIs
  <2>2. CASE ~ (a < v + q)
    BY SMTT(60), <1>5, <2>2
  <2> QED BY <2>1, <2>2
<1> QED BY <1>4, <1>6, <1>8, <1>9 DEF s, v, z, o, q, g

(* The words of the image before it is relocated. *)
LEMMA LoadedIs ==
  ASSUME NEW im \in Images
  PROVE  /\ DOMAIN Loaded(im) = Words(0, get_size(im))
         /\ \A a \in Words(0, get_size(im)) : Loaded(im)[a] \in Nat
         /\ \A a : \A n \in DOMAIN im.ph_list : Covers(im.ph_list[n], a) =>
              /\ a \in Words(0, get_size(im)) /\ a \in Nat
              /\ Loaded(im)[a] = FileWord(im, im.ph_list[n], a)
<1> DEFINE D == Words(0, get_size(im))
           P(a) == \E n \in DOMAIN im.ph_list : Covers(im.ph_list[n], a)
           N(a) == CHOOSE n \in DOMAIN im.ph_list : Covers(im.ph_list[n], a)
<1>1. Loaded(im) = [a \in D |-> IF P(a) THEN FileWord(im, im.ph_list[N(a)], a) ELSE 0]
  BY DEF Loaded
<1>2. \A a : P(a) => N(a) \in DOMAIN im.ph_list /\ Covers(im.ph_list[N(a)], a)
  OBVIOUS
<1>3. \A a : \A n \in DOMAIN im.ph_list : Covers(im.ph_list[n], a) =>
        P(a) /\ N(a) = n /\ a \in D /\ a \in Nat /\ FileWord(im, im.ph_list[n], a) \in Nat
  BY <1>2, CoveredIs
<1> HIDE DEF D, P, N
<1>4. DOMAIN Loaded(im) = D
  BY <1>1
<1>5. \A a \in D : Loaded(im)[a] = IF P(a) THEN FileWord(im, im.ph_list[N(a)], a) ELSE 0
  BY <1>1
<1>6. \A a \in D : Loaded(im)[a] \in Nat
  <2> SUFFICES ASSUME NEW a \in D PROVE Loaded(im)[a] \in Nat
    OBVIOUS
  <2>1. CASE P(a)
    BY <1>2, <1>3, <1>5, <2>1
  <2>2. CASE ~ P(a)
    BY SMTT(60), <1>5, <2>2
  <2> QED BY <2>1, <2>2
<1>7. \A a : \A n \in DOMAIN im.ph_list : Covers(im.ph_list[n], a) =>
        a \in D /\ a \in Nat /\ Loaded(im)[a] = FileWord(im, im.ph_list[n], a)
  BY <1>3, <1>5
<1> QED BY <1>4, <1>6, <1>7 DEF D

(* Entry e of a table has tag 0, and a value that is in front of it. *)
EndsAt(g, u, e) == e \in Nat /\ DOMAIN g \subseteq Nat /\ g[u + 2 * e] = 0

InTable(g, u, e, value) == \E k \in Nat : k < e /\ value = g[u + 2 * k + 1]

(* The value of a tag is one of a table's values in front of tag 0, or 0. *)
LEMMA TableValue ==
  ASSUME NEW g, NEW u, NEW e, NEW tag, EndsAt(g, u, e)
  PROVE  DynamicValue(g, u, tag) = 0 \/ InTable(g, u, e, DynamicValue(g, u, tag))
<1>0. e \in Nat /\ DOMAIN g \subseteq Nat /\ g[u + 2 * e] = 0
  BY DEF EndsAt
<1> USE <1>0
<1> DEFINE G == {k \in DOMAIN g : /\ \A j \in 0 .. k : g[u + 2 * j] # 0
                                  /\ g[u + 2 * k] = tag}
<1>1. DynamicValue(g, u, tag) = IF G = {} THEN 0 ELSE g[u + 2 * Max(G) + 1]
  BY DEF DynamicValue
<1>2. \A k \in Nat : ~ (k < e) => e \in 0 .. k
  BY SMTT(60)
<1>3. \A k \in G : k \in Nat /\ k < e
  BY <1>2
<1> HIDE DEF G
<1>4. CASE G = {}
  BY <1>1, <1>4
<1>5. CASE G # {}
  <2>1. \A k \in Nat : k < e => k <= e
    BY SMTT(60)
  <2>2. G \in SUBSET Nat /\ \A k \in G : k <= e
    BY <1>3, <2>1
  <2>3. Max(G) \in G
    BY <1>5, <2>2, MaxNat
  <2>4. Max(G) \in Nat /\ Max(G) < e /\ DynamicValue(g, u, tag) = g[u + 2 * Max(G) + 1]
    BY <1>1, <1>3, <1>5, <2>3
  <2> QED BY <2>4 DEF InTable
<1> QED BY <1>4, <1>5

(* Two tables with the same entries up to entry e, which has tag 0. *)
SameEntries(f, g, t, u, e) ==
  /\ e \in Nat /\ DOMAIN f \subseteq Nat /\ DOMAIN g \subseteq Nat
  /\ \A k \in Nat : k < e => k \in DOMAIN f /\ k \in DOMAIN g
  /\ \A k \in Nat : k <= e => f[t + 2 * k] = g[u + 2 * k]
  /\ \A k \in Nat : k < e => f[t + 2 * k + 1] = g[u + 2 * k + 1]
  /\ g[u + 2 * e] = 0

(* They say the same. *)
LEMMA SameTable ==
  ASSUME NEW f, NEW g, NEW t, NEW u, NEW e, NEW tag, SameEntries(f, g, t, u, e)
  PROVE  DynamicValue(f, t, tag) = DynamicValue(g, u, tag)
<1>0. /\ e \in Nat /\ DOMAIN f \subseteq Nat /\ DOMAIN g \subseteq Nat
      /\ \A k \in Nat : k < e => k \in DOMAIN f /\ k \in DOMAIN g
      /\ \A k \in Nat : k <= e => f[t + 2 * k] = g[u + 2 * k]
      /\ \A k \in Nat : k < e => f[t + 2 * k + 1] = g[u + 2 * k + 1]
      /\ g[u + 2 * e] = 0
  BY DEF SameEntries
<1> USE <1>0
<1> DEFINE F == {k \in DOMAIN f : /\ \A j \in 0 .. k : f[t + 2 * j] # 0
                                  /\ f[t + 2 * k] = tag}
           G == {k \in DOMAIN g : /\ \A j \in 0 .. k : g[u + 2 * j] # 0
                                  /\ g[u + 2 * k] = tag}
<1>1. DynamicValue(f, t, tag) = IF F = {} THEN 0 ELSE f[t + 2 * Max(F) + 1]
  BY DEF DynamicValue
<1>2. DynamicValue(g, u, tag) = IF G = {} THEN 0 ELSE g[u + 2 * Max(G) + 1]
  BY DEF DynamicValue
<1>3. \A k \in Nat : ~ (k < e) => e \in 0 .. k
  BY SMTT(60)
<1>4. \A k \in Nat : k < e => \A j \in 0 .. k : j \in Nat /\ j <= e
  BY SMTT(60)
<1>5. e <= e /\ \A k \in Nat : k < e => k <= e
  BY SMTT(60)
<1>6. f[t + 2 * e] = 0
  BY <1>5
<1>7. \A k \in F : k \in Nat /\ k < e
  BY <1>3, <1>6
<1>8. \A k \in G : k \in Nat /\ k < e
  BY <1>3
<1>9. \A k : k \in F <=> k \in G
  <2>1. ASSUME NEW k \in F PROVE k \in G
    <3>1. k \in Nat /\ k < e
      BY <1>7
    <3>2. k \in DOMAIN g /\ f[t + 2 * k] = g[u + 2 * k]
      BY <1>5, <3>1
    <3>3. \A j \in 0 .. k : f[t + 2 * j] = g[u + 2 * j]
      BY <1>4, <3>1
    <3> QED BY <3>2, <3>3
  <2>2. ASSUME NEW k \in G PROVE k \in F
    <3>1. k \in Nat /\ k < e
      BY <1>8
    <3>2. k \in DOMAIN f /\ f[t + 2 * k] = g[u + 2 * k]
      BY <1>5, <3>1
    <3>3. \A j \in 0 .. k : f[t + 2 * j] = g[u + 2 * j]
      BY <1>4, <3>1
    <3> QED BY <3>2, <3>3
  <2> HIDE DEF F, G
  <2> QED BY <2>1, <2>2
<1> HIDE DEF F, G
<1>10. F = G
  BY <1>9
<1>11. CASE G = {}
  BY <1>1, <1>2, <1>10, <1>11
<1>12. CASE G # {}
  <2>1. G \in SUBSET Nat /\ \A k \in G : k <= e
    BY <1>5, <1>8
  <2>2. Max(G) \in G
    BY <1>12, <2>1, MaxNat
  <2>3. Max(G) \in Nat /\ Max(G) < e
    BY <1>8, <2>2
  <2>4. f[t + 2 * Max(G) + 1] = g[u + 2 * Max(G) + 1]
    BY <2>3
  <2> QED BY <1>1, <1>2, <1>10, <1>12, <2>3, <2>4
<1> QED BY <1>11, <1>12

(* The headers that write the word at an address. *)
Writers(im, a) ==
  {n \in DOMAIN im.ph_list :
     LET s == im.ph_list[n]
     IN  \/ Covers(s, a)
         \/ s.seg_type = "DYNAMIC" /\ \E r \in Relocations(im, s) : r.addr = a}

(* What header n writes there. *)
Value(im, base, n, a) ==
  LET s == im.ph_list[n]
  IN  IF s.seg_type = "LOAD" THEN FileWord(im, s, a)
      ELSE base + (CHOOSE r \in Relocations(im, s) : r.addr = a).addend

(* The relocations of an image, by the headers they belong to. *)
LEMMA RelocationsAre ==
  ASSUME NEW im \in Images
  PROVE  /\ \A n \in DOMAIN im.ph_list : im.ph_list[n].seg_type = "DYNAMIC" =>
              \A r \in Relocations(im, im.ph_list[n]) :
                /\ r \in AllRelocations(im)
                /\ \E m \in DOMAIN im.ph_list : m < n /\ Covers(im.ph_list[m], r.addr)
         /\ \A r \in AllRelocations(im) : \E n \in DOMAIN im.ph_list :
              im.ph_list[n].seg_type = "DYNAMIC" /\ r \in Relocations(im, im.ph_list[n])
         /\ \A r, q \in AllRelocations(im) : q.addr = r.addr => q = r
<1> DEFINE L == im.ph_list
           U == AllRelocations(im)
<1>1. \A r : r \in U <=>
        \E n \in DOMAIN L : L[n].seg_type = "DYNAMIC" /\ r \in Relocations(im, L[n])
  BY DEF AllRelocations, Range
<1>2. \A r, q \in U : q.addr = r.addr => q = r
  BY ImagesAssumption DEF Linked
<1>3. ASSUME NEW n \in DOMAIN L, L[n].seg_type = "DYNAMIC", NEW r \in Relocations(im, L[n])
      PROVE  \E m \in DOMAIN L : m < n /\ Covers(L[m], r.addr)
  <2>1. PICK m \in 1 .. (n - 1) : Covers(L[m], r.addr)
    BY <1>3, ImagesAssumption DEF Linked
  <2>2. Len(L) \in Nat /\ DOMAIN L = 1 .. Len(L)
    BY HeadersAre
  <2> HIDE DEF L
  <2>3. m \in DOMAIN L /\ m < n
    BY SMTT(60), <2>2
  <2> QED BY <2>1, <2>3
<1> QED BY <1>1, <1>2, <1>3

(* The last header to write a word leaves it as it is to be. *)
LEMMA LastIsExpected ==
  ASSUME NEW im \in Images, NEW a, NEW base, NEW n \in Writers(im, a),
         \A m \in Writers(im, a) : ~ (m > n)
  PROVE  Value(im, base, n, a) = Expected(im, base, a)
<1> DEFINE s == im.ph_list[n]
           U == AllRelocations(im)
<1>1. n \in DOMAIN im.ph_list
  BY DEF Writers
<1>2. CASE Covers(s, a)
  <2>1. ~ \E r \in U : r.addr = a
    <3> SUFFICES ASSUME NEW r \in U, r.addr = a PROVE FALSE
      OBVIOUS
    <3>1. PICK d \in DOMAIN im.ph_list :
            im.ph_list[d].seg_type = "DYNAMIC" /\ r \in Relocations(im, im.ph_list[d])
      BY RelocationsAre
    <3>2. PICK m \in DOMAIN im.ph_list : m < d /\ Covers(im.ph_list[m], a)
      BY <3>1, RelocationsAre
    <3>3. m = n
      BY <1>1, <1>2, <3>2, CoveredIs
    <3>4. d \in Writers(im, a)
      BY <3>1 DEF Writers
    <3>5. n \in Nat /\ d \in Nat
      BY <1>1, HeadersAre
    <3> QED BY SMTT(60), <3>2, <3>3, <3>4, <3>5
  <2>2. Value(im, base, n, a) = FileWord(im, s, a)
    BY <1>2 DEF Value, Covers
  <2>3. Loaded(im)[a] = FileWord(im, s, a)
    BY <1>1, <1>2, LoadedIs
  <2> QED BY <2>1, <2>2, <2>3 DEF Expected
<1>3. CASE ~ Covers(s, a)
  <2>1. s.seg_type = "DYNAMIC" /\ \E r \in Relocations(im, s) : r.addr = a
    BY <1>3 DEF Writers
  <2> DEFINE q == CHOOSE q \in Relocations(im, s) : q.addr = a
             r == CHOOSE r \in U : r.addr = a
  <2>2. q \in Relocations(im, s) /\ q.addr = a
    BY <2>1
  <2>3. q \in U
    BY <1>1, <2>1, <2>2, RelocationsAre
  <2>4. r \in U /\ r.addr = a
    BY <2>2, <2>3
  <2>5. q = r
    <3> HIDE DEF q, r
    <3> QED BY <2>2, <2>3, <2>4, RelocationsAre
  <2>6. Value(im, base, n, a) = base + q.addend
    BY <2>1 DEF Value
  <2>7. Expected(im, base, a) = base + r.addend
    BY <2>2, <2>3 DEF Expected
  <2> HIDE DEF q, r
  <2> QED BY <2>5, <2>6, <2>7
<1> QED BY <1>2, <1>3

(* A word is that of one LOAD segment in front of header n, and no other   *)
(* header up to n changes it.                                              *)
Holds(im, n, a, base, m) ==
  /\ m < n /\ m \in Writers(im, a) /\ a \in Nat /\ a \in Words(0, get_size(im))
  /\ Value(im, base, m, a) = Loaded(im)[a]
  /\ \A d \in DOMAIN im.ph_list : d <= n /\ d \in Writers(im, a) => d = m

(* A settled word is. *)
LEMMA SettledIs ==
  ASSUME NEW im \in Images, NEW n \in DOMAIN im.ph_list, NEW a, Settled(im, n, a), NEW base
  PROVE  \E m \in DOMAIN im.ph_list : Holds(im, n, a, base, m)
<1>1. n \in Nat /\ n >= 1 /\ DOMAIN im.ph_list = 1 .. Len(im.ph_list) /\ Len(im.ph_list) \in Nat
  BY HeadersAre
<1>2. PICK m \in 1 .. (n - 1) : Covers(im.ph_list[m], a)
  BY DEF Settled
<1>3. m \in DOMAIN im.ph_list /\ m < n
  BY SMTT(60), <1>1
<1>4. m \in Writers(im, a)
  BY <1>2, <1>3 DEF Writers
<1>5. a \in Nat /\ a \in Words(0, get_size(im)) /\ Loaded(im)[a] = FileWord(im, im.ph_list[m], a)
  BY <1>2, <1>3, LoadedIs
<1>6. Value(im, base, m, a) = Loaded(im)[a]
  BY <1>2, <1>5 DEF Value, Covers
<1>7. ASSUME NEW d \in DOMAIN im.ph_list, d <= n, d \in Writers(im, a) PROVE d = m
  <2>1. d \in 1 .. n
    BY SMTT(60), <1>1, <1>7
  <2>2. ~ (im.ph_list[d].seg_type = "DYNAMIC"
             /\ \E r \in Relocations(im, im.ph_list[d]) : r.addr = a)
    BY <2>1 DEF Settled
  <2>3. Covers(im.ph_list[d], a)
    BY <1>7, <2>2 DEF Writers
  <2> QED BY <1>2, <1>3, <2>3, CoveredIs
<1> QED BY <1>3, <1>4, <1>5, <1>6, <1>7 DEF Holds

(* The dynamic table and the relocation table of a DYNAMIC segment. *)
LEMMA TablesAre ==
  ASSUME NEW im \in Images, NEW n \in DOMAIN im.ph_list, im.ph_list[n].seg_type = "DYNAMIC"
  PROVE  /\ RelaStart(im, im.ph_list[n]) \in Nat /\ RelaCount(im, im.ph_list[n]) \in Nat
         /\ \E e \in Nat : /\ e < get_size(im)
                           /\ \A i \in Nat : i <= 2 * e => Settled(im, n, im.ph_list[n].virt_addr + i)
                           /\ Loaded(im)[im.ph_list[n].virt_addr + 2 * e] = 0
         /\ \A i \in Nat : i < 3 * RelaCount(im, im.ph_list[n]) =>
              Settled(im, n, RelaStart(im, im.ph_list[n]) + i)
<1> DEFINE s == im.ph_list[n]
           v == s.virt_addr
           z == get_size(im)
           L == Loaded(im)
<1>1. v \in Nat /\ z \in Nat
  BY HeadersAre, SizeIsNat
<1>2. /\ \E end \in Words(0, z) : /\ \A a \in Words(v, 2 * end + 1) : Settled(im, n, a)
                                  /\ L[v + 2 * end] = 0
      /\ \A a \in Words(RelaStart(im, s), 3 * RelaCount(im, s)) : Settled(im, n, a)
  BY ImagesAssumption DEF Linked
<1>3. PICK e \in Words(0, z) : /\ \A a \in Words(v, 2 * e + 1) : Settled(im, n, a)
                               /\ L[v + 2 * e] = 0
  BY <1>2
<1>4. DOMAIN L = Words(0, z) /\ \A a \in Words(0, z) : L[a] \in Nat
  BY LoadedIs
<1>5. \A a : Settled(im, n, a) => a \in Words(0, z)
  BY SettledIs DEF Holds
<1> HIDE DEF v, z, L, s
<1>6. e \in Nat /\ e < z
  BY SMTT(60), <1>1, <1>3 DEF Words
<1>7. \A i \in Nat : i <= 2 * e => v + i \in Words(v, 2 * e + 1)
  BY SMTT(60), <1>1, <1>6 DEF Words
<1>8. \A i \in Nat : i <= 2 * e => Settled(im, n, v + i)
  BY <1>3, <1>7
<1>9. ASSUME NEW tag PROVE DynamicValue(L, v, tag) \in Nat
  <2>1. DOMAIN L \subseteq Nat
    BY SMTT(60), <1>1, <1>4 DEF Words
  <2>2. EndsAt(L, v, e)
    BY <1>3, <1>6, <2>1 DEF EndsAt
  <2>3. DynamicValue(L, v, tag) = 0 \/ InTable(L, v, e, DynamicValue(L, v, tag))
    BY <2>2, TableValue
  <2>4. CASE DynamicValue(L, v, tag) = 0
    BY SMTT(60), <2>4
  <2>5. ASSUME NEW k \in Nat, k < e, DynamicValue(L, v, tag) = L[v + 2 * k + 1]
        PROVE  DynamicValue(L, v, tag) \in Nat
    <3>1. 2 * k + 1 \in Nat /\ 2 * k + 1 <= 2 * e /\ v + 2 * k + 1 = v + (2 * k + 1)
      BY SMTT(60), <1>1, <1>6, <2>5
    <3>2. v + 2 * k + 1 \in Words(0, z)
      BY <1>5, <1>8, <3>1
    <3> QED BY <1>4, <2>5, <3>2
  <2> QED BY <2>3, <2>4, <2>5 DEF InTable
<1>10. RelaStart(im, s) = DynamicValue(L, v, DE_TAG_RELA)
  BY DEF RelaStart, s, L, v
<1>11. RelaCount(im, s) = DynamicValue(L, v, DE_TAG_RELASZ) \div 3
  BY DEF RelaCount, s, L, v
<1> DEFINE p == RelaStart(im, s)
           c == RelaCount(im, s)
           x == DynamicValue(L, v, DE_TAG_RELASZ)
<1>12. p \in Nat /\ x \in Nat /\ c = x \div 3
  BY <1>9, <1>10, <1>11
<1> HIDE DEF p, c, x
<1>13. c \in Nat
  BY SMTT(60), <1>12
<1>14. \A i \in Nat : i < 3 * c => p + i \in Words(p, 3 * c)
  BY SMTT(60), <1>12, <1>13 DEF Words
<1>15. \A i \in Nat : i < 3 * c => Settled(im, n, p + i)
  BY <1>2, <1>14 DEF p, c
<1> QED BY <1>3, <1>6, <1>8, <1>12, <1>13, <1>15 DEF s, v, z, L, p, c

(* Header n has given the word at an address a value, by now. *)
Written(n, a) ==
  /\ n \in Writers(image, a) /\ n < ph
  /\ rela.left > 0 /\ n = ph - 1 =>
       LET s == image.ph_list[n]
       IN  \E k \in Words(0, RelaCount(image, s) - rela.left) :
             Loaded(image)[RelaStart(image, s) + 3 * k] = a

(* The last one that has decides what is in the buffer. *)
Filled ==
  \A a \in Words(0, get_size(image)), n \in DOMAIN image.ph_list :
    /\ Written(n, a)
    /\ \A m \in DOMAIN image.ph_list : m > n => ~Written(m, a)
    => memory[Address("process") + a]
         = Value(image, ptr_to_kernelspace(Address("process")), n, a)

(* The relocations that are left are the last ones of the table. *)
Relocating ==
  rela.left > 0 =>
    /\ ph > 1 /\ image.ph_list[ph - 1].seg_type = "DYNAMIC"
    /\ LET s == image.ph_list[ph - 1]
       IN  /\ rela.left <= RelaCount(image, s)
           /\ rela.entry = Address("process") + RelaStart(image, s)
                             + 3 * (RelaCount(image, s) - rela.left)

(* The raw file is in a buffer of its own. *)
FileRead ==
  /\ Consecutive("file", PagesFor(Cardinality(DOMAIN image.words)))
  /\ \A w \in DOMAIN image.words : memory[Address("file") + w] = image.words[w]

(* All of memory can be written. *)
Mapped == memory = [w \in Words(0, PAGES * PAGE_WORDS) |-> memory[w]]

(* What is at 0x1000 in debug builds. *)
Debugged ==
  objects["debug"] # {} =>
    memory[PAGE_WORDS] = get_text_addr(image, ptr_to_kernelspace(Address("process")))

(* The inductive invariant of prepare(). *)
EInv ==
  /\ Mapped
  /\ rela \in [entry : Nat, left : Nat]
  /\ pc \notin AfterProcess \cup Ended => ph = 1 /\ rela.left = 0
  /\ pc \in {"process", "prepare"} => FileRead
  /\ pc \in AfterProcess => Relocating /\ Filled
  /\ pc \in AfterReturn => Prepared(image) /\ Debugged

-----------------------------------------------------------------------------
(* Words of an object.                                                     *)

(* A buffer for m words has the page of each. *)
LEMMA PagesHold ==
  ASSUME NEW m \in Nat, NEW a \in Nat, a < m
  PROVE  /\ a \div PAGE_WORDS \in Nat /\ PagesFor(m) \in Nat
         /\ a \div PAGE_WORDS < PagesFor(m)
<1> DEFINE d == PAGE_WORDS
           x == a + d
           y == m + d - 1
<1>1. d \in Nat /\ d >= 1
  BY SMTT(60), BootloaderAssumption
<1>2. PagesFor(m) = y \div d
  BY DEF PagesFor
<1> HIDE DEF d
<1>3. x \in Nat /\ y \in Nat /\ x <= y
  BY SMTT(60), <1>1
<1>4. x \div d = a \div d + 1 /\ a \div d \in Nat
  <2>1. ASSUME NEW k \in Nat PROVE (a + k * d) \div d = a \div d + k
    BY <1>1, DivAdd
  <2>2. \E k \in Nat : k = 1 /\ x = a + k * d
    BY SMTT(60), <1>1
  <2>3. x \div d = a \div d + 1
    <3> HIDE DEF x
    <3> QED BY <2>1, <2>2
  <2>4. a \div d \in Nat
    BY <1>1, DivMod
  <2> QED BY <2>3, <2>4
<1> HIDE DEF x, y
<1>5. y \div d \in Nat /\ x \div d <= y \div d
  BY <1>1, <1>3, DivMono
<1> QED BY SMTT(60), <1>2, <1>4, <1>5 DEF d

(* A block of n pages. *)
Spans(block, n) == \E p \in Page : block = p .. (p + n - 1)

(* So each word of it is in memory, and in one of its pages. *)
LEMMA WordOf ==
  ASSUME NEW m \in Nat, NEW block, block \subseteq Page, Spans(block, PagesFor(m)),
         NEW a \in Nat, a < m
  PROVE  /\ Min(block) * PAGE_WORDS \in Nat
         /\ (Min(block) * PAGE_WORDS + a) \div PAGE_WORDS \in block
         /\ Min(block) * PAGE_WORDS + a \in Words(0, PAGES * PAGE_WORDS)
<1> DEFINE d == PAGE_WORDS
           n == PagesFor(m)
           q == a \div d
<1>1. PICK p \in Page : block = p .. (p + n - 1)
  BY DEF Spans
<1>2. d \in Nat /\ d >= 1 /\ p \in Nat /\ PAGES \in Nat
  BY SMTT(60), BootloaderAssumption DEF Page
<1>3. q \in Nat /\ n \in Nat /\ q < n
  BY PagesHold
<1> HIDE DEF n
<1>4. n >= 1
  BY SMTT(60), <1>3
<1>5. Min(block) = p
  <2>1. p \in block /\ \A y \in block : p <= y
    BY SMTT(60), <1>1, <1>2, <1>3, <1>4
  <2>2. \A x \in block : (\A y \in block : x <= y) => x = p
    BY SMTT(60), <1>1, <1>2, <1>3, <2>1
  <2> QED BY <2>1, <2>2 DEF Min
<1> DEFINE x == p * d
           w == x + a
<1> HIDE DEF d
<1>6. x \in Nat
  BY SMTT(60), <1>2
<1>7. (a + p * d) \div d = q + p
  BY <1>2, DivAdd
<1>8. w = a + p * d
  <2> HIDE DEF x
  <2>1. w = a + x
    BY SMTT(60), <1>6
  <2> QED BY <2>1 DEF x
<1> HIDE DEF x, q
<1>9. w \in Nat /\ w \div d = q + p
  BY SMTT(60), <1>6, <1>7, <1>8
<1>10. q + p \in block /\ q + p \in Nat
  BY SMTT(60), <1>1, <1>2, <1>3
<1>11. q + p \in Page
  BY <1>10
<1>12. q + p < PAGES
  BY SMTT(60), <1>2, <1>11 DEF Page
<1> HIDE DEF w
<1>13. w < PAGES * d
  <2>1. w = (w \div d) * d + (w % d) /\ w % d < d /\ w % d \in Nat
    BY <1>2, <1>9, DivMod
  <2> DEFINE k == q + p
             r == w % d
  <2>2. k \in Nat /\ k < PAGES /\ r \in Nat /\ r < d /\ w = k * d + r
    BY <1>9, <1>10, <1>12, <2>1
  <2> HIDE DEF k, r
  <2>3. PICK e \in Nat : PAGES = k + 1 + e
    BY SMTT(60), <1>2, <2>2, PAGES - k - 1 \in Nat
  <2>4. PAGES * d = k * d + d + e * d /\ e * d \in Nat /\ k * d \in Nat
    BY SMTT(60), <1>2, <2>2, <2>3
  <2> QED BY SMTT(60), <1>2, <2>2, <2>4
<1>14. PAGES * d \in Nat
  BY SMTT(60), <1>2
<1> DEFINE t == PAGES * d
<1>15. w \in Words(0, t)
  <2>1. t \in Nat /\ w < t
    BY <1>13, <1>14
  <2> HIDE DEF t
  <2> QED BY SMTT(60), <1>9, <2>1 DEF Words
<1> QED BY <1>5, <1>6, <1>9, <1>10, <1>15 DEF d, w, x

(* The same of an object. *)
LEMMA WordIn ==
  ASSUME NEW o, NEW m \in Nat, Consecutive(o, PagesFor(m)), objects[o] \subseteq Page,
         NEW a \in Nat, a < m
  PROVE  /\ Address(o) \in Nat
         /\ (Address(o) + a) \div PAGE_WORDS \in objects[o]
         /\ Address(o) + a \in Words(0, PAGES * PAGE_WORDS)
BY WordOf DEF Consecutive, Spans, Address, First

(* The buffer of the kernel. *)
LEMMA BufferIs ==
  ASSUME IInv, pc \in AfterProcess
  PROVE  /\ image \in Images /\ get_size(image) \in Nat
         /\ \A a \in Words(0, get_size(image)) :
              /\ a \in Nat /\ Address("process") \in Nat
              /\ (Address("process") + a) \div PAGE_WORDS \in objects["process"]
              /\ Address("process") + a \in Words(0, PAGES * PAGE_WORDS)
<1>1. image \in Images
  BY DEF IInv, Counted
<1>2. kernel_elf_size = get_size(image)
  BY DEF IInv, Located, AfterFile
<1>3. get_size(image) \in Nat
  BY <1>1, SizeIsNat
<1>4. Consecutive("process", PagesFor(get_size(image)))
  BY <1>2 DEF IInv, Placed
<1>5. objects["process"] \subseteq Page
  BY DEF IInv, Sound, Objects
<1> DEFINE m == get_size(image)
<1> HIDE DEF m
<1>6. \A a \in Words(0, m) : a \in Nat /\ a < m
  BY SMTT(60), <1>3 DEF Words, m
<1> QED BY <1>1, <1>3, <1>4, <1>5, <1>6, WordIn DEF m

(* The buffer of the raw file, which is another. *)
LEMMA FileBufferIs ==
  ASSUME IInv, FileRead, NEW w \in DOMAIN image.words
  PROVE  /\ Address("file") \in Nat /\ w \in Nat
         /\ (Address("file") + w) \div PAGE_WORDS \in objects["file"]
         /\ Address("file") + w \in Words(0, PAGES * PAGE_WORDS)
         /\ memory[Address("file") + w] = image.words[w]
<1>1. image \in Images
  BY DEF IInv, Counted
<1> DEFINE m == Cardinality(DOMAIN image.words)
<1>2. m \in Nat /\ w \in Nat /\ w < m
  BY <1>1, FileIs
<1>3. Consecutive("file", PagesFor(m)) /\ memory[Address("file") + w] = image.words[w]
  BY DEF FileRead
<1>4. objects["file"] \subseteq Page
  BY DEF IInv, Sound, Objects
<1> HIDE DEF m
<1> QED BY <1>2, <1>3, <1>4, WordIn

(* The buffers share no word. *)
LEMMA BuffersApart ==
  ASSUME IInv, pc \in AfterProcess, FileRead, NEW w \in DOMAIN image.words,
         NEW a \in Words(0, get_size(image))
  PROVE  Address("file") + w # Address("process") + a
<1>1. (Address("file") + w) \div PAGE_WORDS \in objects["file"]
  BY FileBufferIs
<1>2. (Address("process") + a) \div PAGE_WORDS \in objects["process"]
  BY BufferIs
<1>3. objects["file"] \cap objects["process"] = {}
  BY DEF IInv, Sound, Objects
<1> QED BY <1>1, <1>2, <1>3

(* In its turn, and while its relocations are done, a settled word of a    *)
(* header is that of the image.                                            *)
LEMMA TableWord ==
  ASSUME IInv, Filled, rela \in [entry : Nat, left : Nat],
         NEW n \in DOMAIN image.ph_list, NEW a, Settled(image, n, a),
         (n = ph /\ rela.left = 0) \/ n = ph - 1
  PROVE  /\ memory[Address("process") + a] = Loaded(image)[a]
         /\ a \in Nat /\ a \in Words(0, get_size(image))
<1> DEFINE base == ptr_to_kernelspace(Address("process"))
<1>1. image \in Images /\ ph \in 1 .. (Len(image.ph_list) + 1)
  BY DEF IInv, Counted
<1>2. /\ Len(image.ph_list) \in Nat /\ DOMAIN image.ph_list = 1 .. Len(image.ph_list)
      /\ \A d \in DOMAIN image.ph_list : d \in Nat
  BY <1>1, HeadersAre
<1> HIDE DEF base
<1>3. PICK m \in DOMAIN image.ph_list : Holds(image, n, a, base, m)
  BY <1>1, SettledIs
<1> USE DEF Holds
<1>4. m < ph /\ (rela.left > 0 => m # ph - 1) /\ ph \in Nat
  <2> DEFINE c == Len(image.ph_list)
             l == rela.left
  <2>1. m \in Nat /\ n \in Nat /\ c \in Nat /\ ph \in 1 .. (c + 1) /\ l \in Nat /\ m < n
    BY <1>1, <1>2, <1>3
  <2>2. (n = ph /\ l = 0) \/ n = ph - 1
    OBVIOUS
  <2> HIDE DEF c, l
  <2>3. m < ph /\ (l > 0 => m # ph - 1) /\ ph \in Nat
    BY SMTT(60), <2>1, <2>2
  <2> QED BY <2>3 DEF l
<1>5. Written(m, a)
  BY <1>3, <1>4 DEF Written
<1>6. \A d \in DOMAIN image.ph_list : d < ph => d <= n
  BY SMTT(60), <1>1, <1>2
<1>7. \A d \in DOMAIN image.ph_list : d > m => d # m
  BY SMTT(60), <1>2
<1>8. \A d \in DOMAIN image.ph_list : d > m => ~ Written(d, a)
  BY <1>3, <1>6, <1>7 DEF Written
<1>9. memory[Address("process") + a] = Value(image, base, m, a)
  BY <1>3, <1>5, <1>8 DEF Filled, base
<1> QED BY <1>3, <1>9

-----------------------------------------------------------------------------
(* The steps of prepare().                                                 *)

(* The header whose turn it is. *)
LEMMA TurnIs ==
  ASSUME IInv, ph <= Len(image.ph_list)
  PROVE  /\ ph \in DOMAIN image.ph_list /\ ph \in Nat /\ image \in Images
         /\ \A n \in DOMAIN image.ph_list : n < ph + 1 <=> n < ph \/ n = ph
         /\ ph + 1 - 1 = ph
<1>1. image \in Images /\ ph \in 1 .. (Len(image.ph_list) + 1)
  BY DEF IInv, Counted
<1> DEFINE c == Len(image.ph_list)
<1>2. c \in Nat /\ DOMAIN image.ph_list = 1 .. c /\ ph \in 1 .. (c + 1) /\ ph <= c
  BY <1>1, HeadersAre
<1> HIDE DEF c
<1>3. ph \in 1 .. c /\ ph \in Nat /\ ph + 1 - 1 = ph
  BY SMTT(60), <1>2
<1>4. \A n \in 1 .. c : n < ph + 1 <=> n < ph \/ n = ph
  BY SMTT(60), <1>2, <1>3
<1> QED BY <1>1, <1>2, <1>3, <1>4

(* A header that gives no word a value, or whose relocations are all left, *)
(* changes nothing of what has been written.                               *)
LEMMA StillFilled ==
  ASSUME IInv, Filled, ph <= Len(image.ph_list), rela.left = 0, ph' = ph + 1,
         \A n, a : n = ph => ~ Written(n, a)', UNCHANGED <<image, objects, memory>>
  PROVE  Filled'
<1>1. /\ ph \in DOMAIN image.ph_list /\ ph \in Nat
      /\ \A n \in DOMAIN image.ph_list : n < ph + 1 <=> n < ph \/ n = ph
      /\ ph + 1 - 1 = ph
  BY TurnIs
<1>2. ~ (rela.left > 0)
  BY SMTT(60)
<1>3. \A n \in DOMAIN image.ph_list : n < ph => n # ph
  BY SMTT(60), <1>1
<1>4. ~ (ph < ph)
  BY SMTT(60), <1>1
<1>5. ASSUME NEW n \in DOMAIN image.ph_list, NEW a PROVE Written(n, a)' <=> Written(n, a)
  BY SMTT(60), <1>1, <1>2, <1>3, <1>4 DEF Written
<1>6. Address("process")' = Address("process")
  BY SameObject
<1> QED BY <1>5, <1>6 DEF Filled

(* prepare_load copies the segment's data to its place, and fills it up. *)
LEMMA LoadIs ==
  ASSUME IInv, pc = "prepare", Mapped, FileRead,
         prepare_load(image, Address("file"), Address("process"))
  PROVE  LET s == image.ph_list[ph]
         IN  /\ Mapped' /\ s.seg_type = "LOAD"
             /\ \A a \in Words(0, get_size(image)) :
                  memory'[Address("process") + a] =
                    IF Covers(s, a) THEN FileWord(image, s, a) ELSE memory[Address("process") + a]
             /\ \A w \in Words(0, PAGES * PAGE_WORDS) : memory'[w] # memory[w] =>
                  \E a \in Words(0, get_size(image)) : w = Address("process") + a
<1> DEFINE s == image.ph_list[ph]
           v == s.virt_addr
           z == s.virt_size
           o == s.data_offset
           q == s.data_size
           g == get_size(image)
           P == Address("process")
           F == Address("file")
           D == Words(0, PAGES * PAGE_WORDS)
<1>1. /\ ph \in DOMAIN image.ph_list /\ image \in Images /\ s.seg_type = "LOAD"
  BY TurnIs DEF prepare_load, AtSegment, Segment
<1>2. /\ v \in Nat /\ z \in Nat /\ o \in Nat /\ q \in Nat /\ g \in Nat /\ v + z <= g
  BY <1>1, HeadersAre, SizeIsNat
<1>3. q <= z
  BY <1>1, ImagesAssumption DEF Linked
<1>4. DOMAIN memory = D
  BY DEF Mapped
<1>5. memory' = [w \in D |->
                   IF w \in Words(P + v, q) THEN memory[(F + o) + (w - (P + v))]
                   ELSE IF w \in Words((P + v) + q, z - q) THEN 0
                   ELSE memory[w]]
  BY <1>4 DEF prepare_load, Segment
<1>6. \A a : Covers(s, a) <=> a \in v .. (v + z - 1)
  BY <1>1 DEF Covers, Words
<1>7. \A a : FileWord(image, s, a) = IF a < v + q THEN image.words[o + (a - v)] ELSE 0
  BY DEF FileWord
<1>8. \A a : Covers(s, a) /\ a < v + q =>
               /\ o + (a - v) \in DOMAIN image.words
               /\ memory[F + (o + (a - v))] = image.words[o + (a - v)]
               /\ F \in Nat
  BY <1>1, CoveredIs, FileBufferIs
<1>9. \A a \in Words(0, g) : a \in Nat /\ P \in Nat /\ P + a \in D
  BY BufferIs DEF AfterProcess
<1>10. Mapped'
  BY <1>5 DEF Mapped
<1> HIDE DEF s, v, z, o, q, g, P, F, D
<1>11. ASSUME NEW a \in Words(0, g)
       PROVE  memory'[P + a] = IF Covers(s, a) THEN FileWord(image, s, a) ELSE memory[P + a]
  <2>1. a \in Nat /\ P \in Nat /\ P + a \in D
    BY <1>9
  <2>2. P + a \in Words(P + v, q) <=> a \in v .. (v + q - 1)
    BY SMTT(60), <1>2, <2>1 DEF Words
  <2>3. P + a \in Words((P + v) + q, z - q) <=> a \in (v + q) .. (v + z - 1)
    BY SMTT(60), <1>2, <2>1 DEF Words
  <2>4. memory'[P + a] = IF a \in v .. (v + q - 1) THEN memory[(F + o) + ((P + a) - (P + v))]
                         ELSE IF a \in (v + q) .. (v + z - 1) THEN 0 ELSE memory[P + a]
    BY <1>5, <2>1, <2>2, <2>3
  <2>5. CASE a \in v .. (v + q - 1)
    <3>1. a \in v .. (v + z - 1) /\ a < v + q
      BY SMTT(60), <1>2, <1>3, <2>1, <2>5
    <3>2. /\ memory[F + (o + (a - v))] = image.words[o + (a - v)] /\ F \in Nat
          /\ Covers(s, a) /\ FileWord(image, s, a) = image.words[o + (a - v)]
      BY <1>6, <1>7, <1>8, <3>1
    <3>3. (F + o) + ((P + a) - (P + v)) = F + (o + (a - v))
      BY SMTT(60), <1>2, <2>1, <3>2
    <3> QED BY <2>4, <2>5, <3>2, <3>3
  <2>6. CASE a \in (v + q) .. (v + z - 1)
    <3>1. a \in v .. (v + z - 1) /\ ~ (a < v + q) /\ a \notin v .. (v + q - 1)
      BY SMTT(60), <1>2, <1>3, <2>1, <2>6
    <3> QED BY <1>6, <1>7, <2>4, <2>6, <3>1
  <2>7. CASE a \notin v .. (v + q - 1) /\ a \notin (v + q) .. (v + z - 1)
    <3>1. a \notin v .. (v + z - 1)
      BY SMTT(60), <1>2, <1>3, <2>1, <2>7
    <3> QED BY <1>6, <2>4, <2>7, <3>1
  <2> QED BY <2>5, <2>6, <2>7
<1>12. ASSUME NEW w \in D, memory'[w] # memory[w]
       PROVE  \E a \in Words(0, g) : w = P + a
  <2>1. w \in Words(P + v, q) \/ w \in Words((P + v) + q, z - q)
    BY <1>5, <1>12
  <2>2. P \in Nat
    <3>1. image.entry_point \in 0 .. (g - 1)
      BY <1>1, ImagesAssumption DEF g
    <3>2. image.entry_point \in Words(0, g)
      BY SMTT(60), <1>2, <3>1 DEF Words
    <3> QED BY <1>9, <3>2
  <2>3. w \in Int /\ w - P \in Words(0, g) /\ w = P + (w - P)
    BY SMTT(60), <1>2, <1>3, <2>1, <2>2 DEF Words
  <2> QED BY <2>3
<1> QED BY <1>1, <1>10, <1>11, <1>12 DEF s, g, P, D

(* So the buffer has the segment, in the place of what an earlier header   *)
(* had there.                                                              *)
LEMMA LoadFills ==
  ASSUME IInv, pc = "prepare", Mapped, FileRead, Filled,
         prepare_load(image, Address("file"), Address("process")), UNCHANGED <<image, objects>>
  PROVE  Filled' /\ Relocating'
<1> DEFINE s == image.ph_list[ph]
           P == Address("process")
           base == ptr_to_kernelspace(P)
<1>1. /\ ph' = ph + 1 /\ rela' = rela /\ rela.left = 0 /\ ph <= Len(image.ph_list)
  BY DEF prepare_load, AtSegment
<1>2. /\ ph \in DOMAIN image.ph_list /\ ph \in Nat /\ image \in Images
      /\ \A n \in DOMAIN image.ph_list : n < ph + 1 <=> n < ph \/ n = ph
  BY <1>1, TurnIs
<1>3. /\ s.seg_type = "LOAD"
      /\ \A a \in Words(0, get_size(image)) :
           memory'[P + a] = IF Covers(s, a) THEN FileWord(image, s, a) ELSE memory[P + a]
  BY LoadIs
<1>4. P' = P /\ base' = base
  BY SameObject
<1>5. ~ (rela.left > 0)
  BY SMTT(60), <1>1
<1>6. Relocating'
  BY <1>1, <1>5 DEF Relocating
<1>7. \A a : ph \in Writers(image, a) <=> Covers(s, a)
  BY <1>2, <1>3 DEF Writers
<1> HIDE DEF P, base
<1>8. \A n \in DOMAIN image.ph_list : \A a :
        /\ Written(n, a) <=> n \in Writers(image, a) /\ n < ph
        /\ Written(n, a)' <=> n \in Writers(image, a) /\ (n < ph \/ n = ph)
  BY <1>1, <1>2, <1>5 DEF Written
<1>9. \A n \in DOMAIN image.ph_list : n \in Nat
  BY <1>2, HeadersAre
<1>10. ASSUME NEW a \in Words(0, get_size(image)), NEW n \in DOMAIN image.ph_list,
              Written(n, a)', \A m \in DOMAIN image.ph_list : m > n => ~ Written(m, a)'
       PROVE  memory'[P + a] = Value(image, base, n, a)
  <2>1. CASE Covers(s, a)
    <3>1. \A m \in DOMAIN image.ph_list : m = ph => Written(m, a)'
      BY <1>7, <1>8, <2>1
    <3>2. ~ (ph > n) /\ (n < ph \/ n = ph)
      BY <1>2, <1>8, <1>10, <3>1
    <3>3. n = ph
      BY SMTT(60), <1>2, <1>9, <3>2
    <3>4. Value(image, base, n, a) = FileWord(image, s, a)
      BY <1>3, <3>3 DEF Value
    <3> QED BY <1>3, <2>1, <3>4
  <2>2. CASE ~ Covers(s, a)
    <3>1. n # ph /\ Written(n, a)
      BY <1>2, <1>7, <1>8, <1>10, <2>2
    <3>2. \A m \in DOMAIN image.ph_list : m > n => ~ Written(m, a)
      BY <1>8, <1>10
    <3>3. memory[P + a] = Value(image, base, n, a)
      BY <3>1, <3>2 DEF Filled, P, base
    <3> QED BY <1>3, <2>2, <3>3
  <2> QED BY <2>1, <2>2
<1> QED BY <1>4, <1>6, <1>10 DEF Filled, P, base

(* A segment of another type is passed over. *)
LEMMA OtherFills ==
  ASSUME IInv, Filled, prepare_other(image), UNCHANGED <<image, objects>>
  PROVE  Filled' /\ Relocating'
<1>1. /\ ph' = ph + 1 /\ rela' = rela /\ rela.left = 0 /\ ph <= Len(image.ph_list)
      /\ image.ph_list[ph].seg_type \notin {"LOAD", "DYNAMIC"} /\ memory' = memory
  BY DEF prepare_other, Segment
<1>2. \A n, a : n = ph => ~ Written(n, a)'
  BY <1>1 DEF Written, Writers, Covers
<1>3. ~ (rela.left > 0)
  BY SMTT(60), <1>1
<1> QED BY <1>1, <1>2, <1>3, StillFilled DEF Relocating

(* The words that a DYNAMIC segment relocates. *)
LEMMA RelocatedIs ==
  ASSUME NEW im \in Images, NEW n \in DOMAIN im.ph_list, im.ph_list[n].seg_type = "DYNAMIC", NEW a
  PROVE  n \in Writers(im, a) <=>
           \E k \in Words(0, RelaCount(im, im.ph_list[n])) :
             Loaded(im)[RelaStart(im, im.ph_list[n]) + 3 * k] = a
<1> DEFINE s == im.ph_list[n]
           L == Loaded(im)
           R == RelaStart(im, s)
           D == Words(0, RelaCount(im, s))
<1>1. Relocations(im, s) = {[addr |-> L[R + 3 * k], addend |-> L[R + 3 * k + 2]] : k \in D}
  BY DEF Relocations
<1>2. n \in Writers(im, a) <=> \E r \in Relocations(im, s) : r.addr = a
  BY DEF Writers, Covers
<1> HIDE DEF s, L, R, D
<1>3. (\E r \in Relocations(im, s) : r.addr = a) <=> \E k \in D : L[R + 3 * k] = a
  <2> DEFINE q(k) == [addr |-> L[R + 3 * k], addend |-> L[R + 3 * k + 2]]
  <2>1. \A k : q(k).addr = L[R + 3 * k]
    OBVIOUS
  <2>2. Relocations(im, s) = {q(k) : k \in D}
    BY <1>1
  <2> HIDE DEF q
  <2> QED BY <2>1, <2>2
<1> QED BY <1>2, <1>3 DEF s, L, R, D

(* What has been relocated: the front of the table. *)
LEMMA RelocatedByNow ==
  ASSUME NEW im \in Images, NEW n \in DOMAIN im.ph_list, im.ph_list[n].seg_type = "DYNAMIC",
         image = im, ph = n + 1, rela \in [entry : Nat, left : Nat],
         rela.left <= RelaCount(im, im.ph_list[n]), NEW a
  PROVE  Written(n, a) <=>
           \E k \in Words(0, RelaCount(im, im.ph_list[n]) - rela.left) :
             Loaded(im)[RelaStart(im, im.ph_list[n]) + 3 * k] = a
<1> DEFINE s == im.ph_list[n]
           c == RelaCount(im, s)
           l == rela.left
           P(k) == Loaded(im)[RelaStart(im, s) + 3 * k] = a
<1>1. c \in Nat /\ l \in Nat /\ l <= c /\ n \in Nat
  BY TablesAre, HeadersAre
<1>2. n \in Writers(im, a) <=> \E k \in Words(0, c) : P(k)
  BY SMTT(60), RelocatedIs
<1>3. n < ph /\ n = ph - 1
  BY SMTT(60), <1>1
<1>4. Written(n, a) <=> /\ n \in Writers(im, a)
                        /\ l > 0 => \E k \in Words(0, c - l) : P(k)
  BY <1>3 DEF Written
<1> HIDE DEF s, c, l, P
<1>5. l > 0 => Words(0, c - l) \subseteq Words(0, c)
  BY SMTT(60), <1>1 DEF Words
<1>6. ~ (l > 0) => Words(0, c - l) = Words(0, c)
  BY SMTT(60), <1>1 DEF Words
<1>7. Written(n, a) <=> \E k \in Words(0, c - l) : P(k)
  BY <1>2, <1>4, <1>5, <1>6
<1> QED BY <1>7 DEF s, c, l, P

(* prepare_dynamic finds in the buffer what the image says. *)
LEMMA DynamicIs ==
  ASSUME IInv, pc = "prepare", Mapped, Filled, rela \in [entry : Nat, left : Nat],
         prepare_dynamic(image, Address("process"))
  PROVE  LET s == image.ph_list[ph]
         IN  /\ s.seg_type = "DYNAMIC" /\ ph \in DOMAIN image.ph_list /\ image \in Images
             /\ Address("process") \in Nat
             /\ rela' = [entry |-> Address("process") + RelaStart(image, s),
                         left |-> RelaCount(image, s)]
             /\ RelaStart(image, s) \in Nat /\ RelaCount(image, s) \in Nat
<1> DEFINE n == ph
           s == image.ph_list[n]
           v == s.virt_addr
           g == get_size(image)
           P == Address("process")
           L == Loaded(image)
           t == PAGES * PAGE_WORDS
<1>1. /\ n \in DOMAIN image.ph_list /\ image \in Images /\ s.seg_type = "DYNAMIC" /\ rela.left = 0
  BY TurnIs DEF prepare_dynamic, AtSegment, Segment
<1>2. v \in Nat /\ g \in Nat /\ t \in Nat
  <2>1. t \in Nat
    BY SMTT(60), BootloaderAssumption
  <2> QED BY <1>1, <2>1, HeadersAre, SizeIsNat
<1>3. /\ RelaStart(image, s) \in Nat /\ RelaCount(image, s) \in Nat
      /\ \E e \in Nat : /\ e < g
                        /\ \A i \in Nat : i <= 2 * e => Settled(image, n, v + i)
                        /\ L[v + 2 * e] = 0
  BY <1>1, TablesAre
<1>4. PICK e \in Nat : /\ e < g
                       /\ \A i \in Nat : i <= 2 * e => Settled(image, n, v + i)
                       /\ L[v + 2 * e] = 0
  BY <1>3
<1>5. DOMAIN memory = Words(0, t)
  BY DEF Mapped
<1>6. \A a \in Words(0, g) : a \in Nat /\ P \in Nat /\ P + a \in Words(0, t)
  BY BufferIs DEF AfterProcess
<1>7. \A i \in Nat : i <= 2 * e => memory[P + (v + i)] = L[v + i] /\ v + i \in Words(0, g)
  BY <1>1, <1>4, TableWord
<1>8. /\ RelaStart(image, s) = DynamicValue(L, v, DE_TAG_RELA)
      /\ RelaCount(image, s) = DynamicValue(L, v, DE_TAG_RELASZ) \div 3
  BY DEF RelaStart, RelaCount
<1>9. rela' = [entry |-> P + DynamicValue(memory, P + v, DE_TAG_RELA),
               left |-> DynamicValue(memory, P + v, DE_TAG_RELASZ) \div 3]
  BY DEF prepare_dynamic, Segment
<1>10. DOMAIN L = Words(0, g)
  BY <1>1, LoadedIs
<1> HIDE DEF v, g, P, L, t
<1>11. e \in Words(0, g)
  BY SMTT(60), <1>2, <1>4 DEF Words
<1>12. P \in Nat /\ P + e \in Words(0, t)
  BY <1>6, <1>11
<1>13. \A k \in Nat : k < e => k \in Words(0, t) /\ k \in Words(0, g)
  BY SMTT(60), <1>2, <1>4, <1>12 DEF Words
<1>14. Words(0, t) \subseteq Nat /\ Words(0, g) \subseteq Nat
  BY SMTT(60), <1>2 DEF Words
<1>15. ASSUME NEW k \in Nat, k <= e PROVE memory[(P + v) + 2 * k] = L[v + 2 * k]
  <2>1. 2 * k \in Nat /\ 2 * k <= 2 * e /\ (P + v) + 2 * k = P + (v + 2 * k)
    BY SMTT(60), <1>2, <1>12, <1>15
  <2> QED BY <1>7, <2>1
<1>16. ASSUME NEW k \in Nat, k < e PROVE memory[(P + v) + 2 * k + 1] = L[v + 2 * k + 1]
  <2>1. /\ 2 * k + 1 \in Nat /\ 2 * k + 1 <= 2 * e
        /\ (P + v) + 2 * k + 1 = P + (v + (2 * k + 1)) /\ v + 2 * k + 1 = v + (2 * k + 1)
    BY SMTT(60), <1>2, <1>12, <1>16
  <2> QED BY SMTT(60), <1>7, <2>1
<1>17. ASSUME NEW tag PROVE DynamicValue(memory, P + v, tag) = DynamicValue(L, v, tag)
  <2> DEFINE u == P + v
  <2>1. \A k \in Nat : k <= e => memory[u + 2 * k] = L[v + 2 * k]
    BY <1>15
  <2>2. \A k \in Nat : k < e => memory[u + 2 * k + 1] = L[v + 2 * k + 1]
    BY <1>16
  <2>3. DOMAIN memory \subseteq Nat /\ DOMAIN L \subseteq Nat
    BY <1>5, <1>10, <1>14
  <2>4. \A k \in Nat : k < e => k \in DOMAIN memory /\ k \in DOMAIN L
    BY <1>5, <1>10, <1>13
  <2>5. L[v + 2 * e] = 0
    BY <1>4
  <2> HIDE DEF u
  <2>6. SameEntries(memory, L, u, v, e)
    BY <1>2, <2>1, <2>2, <2>3, <2>4, <2>5 DEF SameEntries
  <2>7. DynamicValue(memory, u, tag) = DynamicValue(L, v, tag)
    BY SMTT(60), <2>6, SameTable
  <2> QED BY <2>7 DEF u
<1> QED BY <1>1, <1>3, <1>8, <1>9, <1>12, <1>17 DEF P

(* Nothing is relocated yet. *)
LEMMA DynamicFills ==
  ASSUME IInv, pc = "prepare", Mapped, Filled, rela \in [entry : Nat, left : Nat],
         prepare_dynamic(image, Address("process")), UNCHANGED <<image, objects>>
  PROVE  Filled' /\ Relocating' /\ rela' \in [entry : Nat, left : Nat]
<1> DEFINE s == image.ph_list[ph]
           P == Address("process")
           R == RelaStart(image, s)
           c == RelaCount(image, s)
<1>1. /\ s.seg_type = "DYNAMIC" /\ ph \in DOMAIN image.ph_list /\ image \in Images /\ P \in Nat
      /\ rela' = [entry |-> P + R, left |-> c] /\ R \in Nat /\ c \in Nat
  BY DynamicIs
<1>2. /\ ph' = ph + 1 /\ memory' = memory /\ rela.left = 0 /\ ph <= Len(image.ph_list)
  BY DEF prepare_dynamic, AtSegment
<1>3. P' = P
  BY SameObject
<1>4. ph \in Nat /\ ph + 1 - 1 = ph /\ ph >= 1
  BY <1>1, <1>2, TurnIs, HeadersAre
<1> HIDE DEF P, R, c
<1>5. rela' \in [entry : Nat, left : Nat] /\ rela'.left = c /\ rela'.entry = P + R
  <2>1. P + R \in Nat
    BY SMTT(60), <1>1
  <2> QED BY <1>1, <2>1
<1>6. ASSUME NEW n, n = ph, NEW a PROVE ~ Written(n, a)'
  <2>1. n \in DOMAIN image.ph_list /\ image' = image /\ ph' = n + 1
    BY <1>1, <1>2, <1>6
  <2>2. image.ph_list[n].seg_type = "DYNAMIC" /\ RelaCount(image, image.ph_list[n]) = c
    BY <1>1, <1>6 DEF c
  <2>3. c <= c /\ Words(0, c - c) = {}
    BY SMTT(60), <1>1 DEF Words
  <2>4. n \in Writers(image, a) <=>
          \E k \in Words(0, c) : Loaded(image)[RelaStart(image, image.ph_list[n]) + 3 * k] = a
    BY SMTT(60), ZenonT(60), <1>1, <2>1, <2>2, RelocatedIs
  <2>5. c = 0 => Words(0, c) = {}
    BY SMTT(60), <1>1 DEF Words
  <2>6. c = 0 \/ c > 0
    BY SMTT(60), <1>1
  <2>7. n = (n + 1) - 1
    BY <1>4, <1>6
  <2>8. Written(n, a)' => /\ n \in Writers(image, a)
                          /\ c > 0 => \E k \in Words(0, c - c) :
                               Loaded(image)[RelaStart(image, image.ph_list[n]) + 3 * k] = a
    BY <1>5, <2>1, <2>2, <2>7 DEF Written
  <2> QED BY <2>3, <2>4, <2>5, <2>6, <2>8
<1>7. Filled'
  BY <1>2, <1>6, StillFilled
<1>8. Relocating'
  <2>1. c <= c /\ P + R = P + R + 3 * (c - c) /\ ph + 1 > 1
    BY SMTT(60), <1>1, <1>4
  <2>2. image'.ph_list[ph' - 1] = s
    BY <1>2, <1>4
  <2>3. /\ ph' > 1 /\ s.seg_type = "DYNAMIC" /\ rela'.left <= c
        /\ rela'.entry = P' + R + 3 * (c - rela'.left)
    BY <1>1, <1>2, <1>3, <1>5, <2>1
  <2> HIDE DEF s
  <2> QED BY <2>2, <2>3 DEF Relocating, R, c, P
<1> QED BY <1>5, <1>7, <1>8

(* relocate reads the next entry of the image's table, and it is of a word *)
(* of the image.                                                           *)
LEMMA RelocateIs ==
  ASSUME IInv, pc = "prepare", Mapped, Filled, Relocating, rela \in [entry : Nat, left : Nat],
         relocate(Address("process"), ptr_to_kernelspace(Address("process")))
  PROVE  LET P == Address("process")
             n == ph - 1
             s == image.ph_list[n]
             k == RelaCount(image, s) - rela.left
             A == Loaded(image)[RelaStart(image, s) + 3 * k]
             B == Loaded(image)[RelaStart(image, s) + 3 * k + 2]
         IN  /\ image \in Images /\ n \in DOMAIN image.ph_list /\ ph = n + 1
             /\ s.seg_type = "DYNAMIC" /\ P \in Nat
             /\ RelaStart(image, s) \in Nat /\ RelaCount(image, s) \in Nat
             /\ rela.left \in Nat /\ rela.left > 0 /\ rela.left <= RelaCount(image, s)
             /\ rela.entry = P + RelaStart(image, s) + 3 * k
             /\ A \in Words(0, get_size(image)) /\ n \in Writers(image, A)
             /\ P + A \in Words(0, PAGES * PAGE_WORDS)
             /\ memory' = [memory EXCEPT ![P + A] = ptr_to_kernelspace(P) + B]
             /\ Value(image, ptr_to_kernelspace(P), n, A) = ptr_to_kernelspace(P) + B
<1> DEFINE P == Address("process")
           n == ph - 1
           s == image.ph_list[n]
           l == rela.left
           c == RelaCount(image, s)
           R == RelaStart(image, s)
           L == Loaded(image)
           k == c - l
           A == L[R + 3 * k]
           B == L[R + 3 * k + 2]
           base == ptr_to_kernelspace(P)
           r == [addr |-> A, addend |-> B]
<1>1. /\ image \in Images /\ ph \in 1 .. (Len(image.ph_list) + 1)
      /\ Len(image.ph_list) \in Nat /\ DOMAIN image.ph_list = 1 .. Len(image.ph_list)
  BY HeadersAre DEF IInv, Counted
<1>2. l > 0 /\ l \in Nat
  BY DEF relocate
<1>3. ph > 1 /\ s.seg_type = "DYNAMIC" /\ l <= c /\ rela.entry = P + R + 3 * k
  BY <1>2 DEF Relocating
<1>4. n \in DOMAIN image.ph_list /\ ph = n + 1
  BY SMTT(60), <1>1, <1>3
<1> HIDE DEF n
<1>5. R \in Nat /\ c \in Nat /\ \A i \in Nat : i < 3 * c => Settled(image, n, R + i)
  BY <1>1, <1>3, <1>4, TablesAre
<1>6. \A i \in Nat : i < 3 * c => memory[P + (R + i)] = L[R + i]
  BY <1>1, <1>4, <1>5, TableWord DEF n
<1>7. P \in Nat
  <2>1. image.entry_point \in 0 .. (get_size(image) - 1)
    BY <1>1, ImagesAssumption
  <2>2. image.entry_point \in Words(0, get_size(image))
    <3> DEFINE z == get_size(image)
    <3>1. z \in Nat
      BY <1>1, SizeIsNat
    <3> HIDE DEF z
    <3>2. 0 .. (z - 1) = Words(0, z)
      BY SMTT(60), <3>1 DEF Words
    <3> QED BY <2>1, <3>2 DEF z
  <2> QED BY <2>2, BufferIs DEF AfterProcess
<1>8. memory' = [memory EXCEPT ![P + memory[rela.entry]] = base + memory[rela.entry + 2]]
  BY DEF relocate
<1>9. Relocations(image, s) = {[addr |-> L[R + 3 * j], addend |-> L[R + 3 * j + 2]] : j \in Words(0, c)}
  BY DEF Relocations
<1>10. \A q \in Relocations(image, s) :
         /\ \E m \in DOMAIN image.ph_list : Covers(image.ph_list[m], q.addr)
         /\ \A t \in Relocations(image, s) : t.addr = q.addr => t = q
  <2>1. ASSUME NEW im \in Images, NEW d \in DOMAIN im.ph_list, im.ph_list[d].seg_type = "DYNAMIC",
               NEW q \in Relocations(im, im.ph_list[d])
        PROVE  /\ \E m \in DOMAIN im.ph_list : Covers(im.ph_list[m], q.addr)
               /\ \A t \in Relocations(im, im.ph_list[d]) : t.addr = q.addr => t = q
    BY <2>1, RelocationsAre
  <2> QED BY <1>1, <1>3, <1>4, <2>1
<1>11. Value(image, base, n, A) = base + (CHOOSE q \in Relocations(image, s) : q.addr = A).addend
  BY <1>3 DEF Value
<1> HIDE DEF P, s, c, R, L, l, base
<1>12. k \in Nat /\ k \in Words(0, c)
  BY SMTT(60), <1>2, <1>3, <1>5 DEF Words
<1>13. memory[rela.entry] = A /\ memory[rela.entry + 2] = B
  <2> HIDE DEF k
  <2>1. k < c
    BY SMTT(60), <1>5, <1>12 DEF Words
  <2>2. /\ 3 * k \in Nat /\ 3 * k < 3 * c /\ 3 * k + 2 \in Nat /\ 3 * k + 2 < 3 * c
        /\ P + R + 3 * k = P + (R + 3 * k) /\ P + R + 3 * k + 2 = P + (R + (3 * k + 2))
        /\ R + 3 * k + 2 = R + (3 * k + 2)
    BY SMTT(60), <1>5, <1>7, <1>12, <2>1
  <2>3. memory[P + R + 3 * k] = A
    BY <1>6, <2>2
  <2>4. memory[P + R + 3 * k + 2] = B
    BY SMTT(60), <1>6, <2>2
  <2> QED BY <1>3, <2>3, <2>4 DEF k
<1> HIDE DEF k
<1>14. r \in Relocations(image, s) /\ r.addr = A /\ r.addend = B
  BY <1>9, <1>12
<1> HIDE DEF A, B, r
<1>15. A \in Words(0, get_size(image))
  BY <1>1, <1>10, <1>14, LoadedIs
<1>16. P + A \in Words(0, PAGES * PAGE_WORDS)
  BY <1>15, BufferIs DEF AfterProcess, P
<1>17. n \in Writers(image, A)
  BY <1>3, <1>4, <1>14 DEF Writers, s
<1>18. Value(image, base, n, A) = base + B
  <2> DEFINE q == CHOOSE q \in Relocations(image, s) : q.addr = A
  <2>1. q \in Relocations(image, s) /\ q.addr = A
    BY <1>14
  <2> HIDE DEF q
  <2>2. q = r
    BY <1>10, <1>14, <2>1
  <2>3. q.addend = B
    BY <1>14, <2>2
  <2> QED BY <1>11, <2>3 DEF q
<1>19. memory' = [memory EXCEPT ![P + A] = base + B]
  BY <1>8, <1>13
<1> QED BY <1>1, <1>2, <1>3, <1>4, <1>5, <1>7, <1>15, <1>16, <1>17, <1>18, <1>19
        DEF P, n, s, l, c, R, L, k, A, B, base

(* One more word is relocated, and the next entry is the next of the table. *)
LEMMA RelocateFills ==
  ASSUME IInv, pc = "prepare", Mapped, Filled, Relocating, rela \in [entry : Nat, left : Nat],
         relocate(Address("process"), ptr_to_kernelspace(Address("process"))),
         UNCHANGED <<image, objects>>
  PROVE  /\ Filled' /\ Relocating' /\ rela' \in [entry : Nat, left : Nat]
         /\ Mapped'
         /\ \A w \in Words(0, PAGES * PAGE_WORDS) : memory'[w] # memory[w] =>
              \E a \in Words(0, get_size(image)) : w = Address("process") + a
<1> DEFINE P == Address("process")
           d == ph - 1
           s == image.ph_list[d]
           l == rela.left
           c == RelaCount(image, s)
           R == RelaStart(image, s)
           L == Loaded(image)
           k == c - l
           A == L[R + 3 * k]
           B == L[R + 3 * k + 2]
           base == ptr_to_kernelspace(P)
           D == Words(0, PAGES * PAGE_WORDS)
<1>1. /\ image \in Images /\ d \in DOMAIN image.ph_list /\ ph = d + 1
      /\ s.seg_type = "DYNAMIC" /\ P \in Nat /\ R \in Nat /\ c \in Nat
      /\ l \in Nat /\ l > 0 /\ l <= c
      /\ rela.entry = P + R + 3 * k
      /\ A \in Words(0, get_size(image)) /\ d \in Writers(image, A)
      /\ P + A \in D
      /\ memory' = [memory EXCEPT ![P + A] = base + B]
      /\ Value(image, base, d, A) = base + B
  BY RelocateIs
<1>2. ph' = ph /\ rela' = [entry |-> rela.entry + 3, left |-> l - 1] /\ image' = image
  BY DEF relocate
<1>3. P' = P /\ base' = base
  BY SameObject
<1>4. memory = [w \in D |-> memory[w]]
  BY DEF Mapped
<1>5. \A a \in Words(0, get_size(image)) : a \in Nat
  BY BufferIs DEF AfterProcess
<1>6. \A n \in DOMAIN image.ph_list : n \in Nat
  BY <1>1, HeadersAre
<1> DEFINE Q(a, e) == \E j \in Words(0, e) : L[R + 3 * j] = a
<1>7. \A a : Written(d, a) <=> Q(a, c - l)
  <2> HIDE DEF d
  <2>1. rela.left <= RelaCount(image, image.ph_list[d])
    BY <1>1
  <2> QED BY <1>1, <2>1, RelocatedByNow
<1>8. rela' \in [entry : Nat, left : Nat] /\ rela'.left = l - 1 /\ rela'.entry = rela.entry + 3
  <2>1. l - 1 \in Nat
    <3>1. c \in Nat /\ l \in Nat /\ l > 0 /\ l <= c
      BY <1>1
    <3> HIDE DEF c, l
    <3> QED BY <3>1, OneLess
  <2>2. rela.entry + 3 \in Nat
    <3>1. rela.entry \in Nat
      OBVIOUS
    <3> QED BY SMTT(60), <3>1
  <2> QED BY <1>2, <2>1, <2>2
<1> HIDE DEF P, l, k, base, D
<1>9. \A n, a : n = d => (Written(n, a)' <=> Q(a, c - (l - 1)))
  <2> SUFFICES ASSUME NEW n, n = d, NEW a PROVE Written(n, a)' <=> Q(a, c - (l - 1))
    OBVIOUS
  <2>1. /\ n \in DOMAIN image.ph_list /\ image.ph_list[n].seg_type = "DYNAMIC" /\ ph' = n + 1
        /\ RelaCount(image, image.ph_list[n]) = c /\ RelaStart(image, image.ph_list[n]) = R
    BY <1>1, <1>2
  <2>0. c \in Nat /\ l \in Nat /\ l > 0 /\ l <= c
    BY <1>1
  <2> HIDE DEF c, R, s, d
  <2>2. l - 1 <= c /\ l - 1 \in Nat
    BY <2>0, OneLess
  <2>3. n \in Writers(image, a) <=> \E j \in Words(0, c) : L[R + 3 * j] = a
    BY SMTT(60), ZenonT(60), <1>1, <2>1, RelocatedIs
  <2>4. n < n + 1 /\ (n + 1) - 1 = n
    BY <1>6, <2>1, OneMore
  <2>5. Written(n, a)' <=> /\ n \in Writers(image, a)
                           /\ l - 1 > 0 => \E j \in Words(0, c - (l - 1)) : L[R + 3 * j] = a
    BY <1>2, <1>8, <2>1, <2>4 DEF Written
  <2>6. l - 1 > 0 => Words(0, c - (l - 1)) \subseteq Words(0, c)
    BY SMTT(60), <2>0, <2>2 DEF Words
  <2>7. ~ (l - 1 > 0) => Words(0, c - (l - 1)) = Words(0, c)
    BY SMTT(60), <2>0, <2>2 DEF Words
  <2> QED BY <2>3, <2>5, <2>6, <2>7
<1>10. \A a : Q(a, c - (l - 1)) <=> Q(a, c - l) \/ a = A
  <2>0. c \in Nat /\ l \in Nat /\ l > 0 /\ l <= c /\ k = c - l
    BY <1>1 DEF k
  <2> HIDE DEF c, R, L
  <2>1. k \in Nat /\ c - l = k /\ c - (l - 1) = k + 1
    BY <2>0, OneLess
  <2>2. \A j : j \in Words(0, k + 1) <=> j \in Words(0, k) \/ j = k
    BY SMTT(60), <2>1 DEF Words
  <2> QED BY <2>1, <2>2
<1>11. \A n \in DOMAIN image.ph_list : \A a : n # d => (Written(n, a)' <=> Written(n, a))
  BY <1>2 DEF Written
<1> HIDE DEF A, B, Q, c, R, L, s
<1>12. \A w \in D : memory'[w] = IF w = P + A THEN base + B ELSE memory[w]
  BY <1>1, <1>4
<1>13. Mapped'
  BY <1>1, <1>4 DEF Mapped, D
<1>14. ASSUME NEW a \in Words(0, get_size(image)), NEW n \in DOMAIN image.ph_list,
              Written(n, a)', \A m \in DOMAIN image.ph_list : m > n => ~ Written(m, a)'
       PROVE  memory'[P + a] = Value(image, base, n, a)
  <2>1. CASE a = A
    <3>1. \A m : m = d => Written(m, a)'
      BY <1>9, <1>10, <2>1
    <3>2. ~ (d > n)
      BY <1>1, <1>14, <3>1
    <3>3. n < ph
      BY <1>2, <1>14 DEF Written
    <3>4. n = d
      <4>1. d \in Nat /\ n \in Nat /\ ph = d + 1
        BY <1>1, <1>6
      <4> HIDE DEF d
      <4> QED BY SMTT(60), <3>2, <3>3, <4>1
    <3> HIDE DEF d
    <3> QED BY <1>1, <1>12, <2>1, <3>4
  <2>2. CASE a # A
    <3>1. \A m \in DOMAIN image.ph_list : Written(m, a)' <=> Written(m, a)
      BY <1>7, <1>9, <1>10, <1>11, <2>2
    <3>2. memory[P + a] = Value(image, base, n, a)
      BY <1>14, <3>1 DEF Filled, P, base
    <3>3. P + a # P + A
      BY SMTT(60), <1>1, <1>5, <2>2
    <3>4. P + a \in D
      BY BufferIs DEF AfterProcess, P, D
    <3> QED BY <1>12, <3>2, <3>3, <3>4
  <2> QED BY <2>1, <2>2
<1>15. Filled'
  BY <1>2, <1>3, <1>14 DEF Filled, P, base
<1>16. Relocating'
  <2>1. /\ rela'.left > 0 => ph > 1 /\ s.seg_type = "DYNAMIC"
        /\ rela'.left <= c /\ rela'.entry = P + R + 3 * (c - rela'.left)
    <3>1. l > 0
      BY <1>1
    <3>2. ph > 1
      BY <3>1 DEF Relocating, l
    <3>3. l - 1 <= c /\ (P + R + 3 * k) + 3 = P + R + 3 * (c - (l - 1))
      BY SMTT(60), <1>1 DEF k
    <3> QED BY <1>1, <1>8, <3>2, <3>3
  <2> QED BY <1>2, <1>3, <2>1 DEF Relocating, P, R, c, s, d
<1>17. \A w \in D : memory'[w] # memory[w] => \E a \in Words(0, get_size(image)) : w = P + a
  BY <1>1, <1>12
<1> QED BY <1>8, <1>13, <1>15, <1>16, <1>17 DEF P, D

-----------------------------------------------------------------------------
(* The other steps.                                                        *)

(* A step that leaves memory alone and gets past no stage of prepare(). *)
LEMMA QuietKeeps ==
  ASSUME EInv, UNCHANGED <<memory, ph, rela, image>>,
         pc' \notin AfterProcess \cup Ended => pc \notin AfterProcess \cup Ended,
         pc' \in {"process", "prepare"} => pc' = pc /\ objects'["file"] = objects["file"],
         pc' \in AfterProcess => pc \in AfterProcess /\ objects'["process"] = objects["process"],
         pc' \in AfterReturn => pc \in AfterReturn /\ objects'["debug"] = objects["debug"]
  PROVE  EInv'
<1>1. /\ memory' = memory /\ ph' = ph /\ rela' = rela /\ image' = image
  OBVIOUS
<1>2. /\ Mapped' /\ rela' \in [entry : Nat, left : Nat]
      /\ pc' \notin AfterProcess \cup Ended => ph' = 1 /\ rela'.left = 0
  BY <1>1 DEF EInv, Mapped
<1>3. pc' \in {"process", "prepare"} => FileRead'
  <2> SUFFICES ASSUME pc' \in {"process", "prepare"} PROVE FileRead'
    OBVIOUS
  <2>1. Address("file")' = Address("file")
    BY SameObject
  <2> QED BY <1>1, <2>1 DEF EInv, FileRead, Consecutive
<1>4. pc' \in AfterProcess => Relocating' /\ Filled'
  <2> SUFFICES ASSUME pc' \in AfterProcess PROVE Relocating' /\ Filled'
    OBVIOUS
  <2>1. Address("process")' = Address("process") /\ Relocating /\ Filled
    BY SameObject DEF EInv
  <2>2. \A n, a : Written(n, a)' <=> Written(n, a)
    BY <1>1 DEF Written
  <2>3. Filled'
    BY <1>1, <2>1, <2>2 DEF Filled
  <2>4. Relocating'
    BY <1>1, <2>1 DEF Relocating
  <2> QED BY <2>3, <2>4
<1>5. pc' \in AfterReturn => Prepared(image)' /\ Debugged'
  <2> SUFFICES ASSUME pc' \in AfterReturn PROVE Prepared(image)' /\ Debugged'
    OBVIOUS
  <2>1. pc' \in AfterProcess
    BY DEF AfterProcess
  <2>2. Address("process")' = Address("process") /\ Prepared(image) /\ Debugged
    BY <2>1, SameObject DEF EInv
  <2> QED BY <1>1, <2>2 DEF Prepared, Debugged
<1> QED BY <1>2, <1>3, <1>4, <1>5 DEF EInv

(* A panic. *)
LEMMA EndKeeps ==
  ASSUME EInv, pc' \in Ended, UNCHANGED <<memory, ph, rela, image>>
  PROVE  EInv'
<1>1. pc' \notin AfterProcess /\ pc' \notin {"process", "prepare"} /\ pc' \notin AfterReturn
  BY DEF Ended, AfterProcess, AfterReturn, AfterFree, AfterStack, AfterMap
<1> QED BY <1>1, QuietKeeps

(* A step to the next label. *)
LEMMA GotoKeeps ==
  ASSUME EInv, UNCHANGED <<memory, ph, rela, image, objects>>,
         <<pc, pc'>> \in {<<"start", "header">>, <<"video", "paging_size">>,
                          <<"paging_size", "paging_allocate">>, <<"paging_grown", "paging_map">>,
                          <<"paging_map", "paging_tables">>, <<"mmap_size", "mmap_allocate">>,
                          <<"mmap_grown", "exit">>, <<"exit", "convert">>, <<"convert", "jump">>,
                          <<"jump", "kernel">>}
  PROVE  EInv'
<1>1. /\ pc' \notin AfterProcess \cup Ended => pc \notin AfterProcess \cup Ended
      /\ pc' \notin {"process", "prepare"}
      /\ pc' \in AfterProcess => pc \in AfterProcess
      /\ pc' \in AfterReturn => pc \in AfterReturn
  BY DEF Ended, AfterProcess, AfterReturn, AfterFree, AfterStack, AfterMap
<1> QED BY <1>1, QuietKeeps

(* An allocation or a release of pages that prepare() has nothing to do    *)
(* with.                                                                   *)
LEMMA PagesKeep ==
  ASSUME EInv, UNCHANGED <<memory, ph, rela, image>>, NEW o \in Objects,
         \A r \in Objects \ {o} : objects'[r] = objects[r],
         <<pc, o, pc'>> \in {<<"header", "header", "video">>,
                             <<"paging_allocate", "temp", "paging_grown">>,
                             <<"paging_tables", "tables", "paging_free">>,
                             <<"paging_free", "temp", "read_file">>,
                             <<"free", "file", "stack">>,
                             <<"stack", "stack", "mmap_size">>,
                             <<"mmap_allocate", "mmap", "mmap_grown">>}
  PROVE  EInv'
<1>1. /\ pc' \notin AfterProcess \cup Ended => pc \notin AfterProcess \cup Ended
      /\ pc' \notin {"process", "prepare"}
      /\ pc' \in AfterProcess => pc \in AfterProcess
      /\ pc' \in AfterReturn => pc \in AfterReturn
  BY DEF Ended, AfterProcess, AfterReturn, AfterFree, AfterStack, AfterMap
<1>2. objects'["process"] = objects["process"] /\ objects'["debug"] = objects["debug"]
  BY DEF Objects
<1> QED BY <1>1, <1>2, QuietKeeps

(* Such an allocation, which may fail. *)
LEMMA AllocationKeeps ==
  ASSUME IInv, EInv, UNCHANGED <<memory, ph, rela, image>>, NEW o \in Objects, NEW n, NEW label,
         Allocate(o, n, label),
         <<pc, o, label>> \in {<<"header", "header", "video">>,
                               <<"paging_allocate", "temp", "paging_grown">>,
                               <<"paging_tables", "tables", "paging_free">>,
                               <<"stack", "stack", "mmap_size">>,
                               <<"mmap_allocate", "mmap", "mmap_grown">>}
  PROVE  EInv'
<1>1. objects[o] = {}
  BY DEF IInv, Vacant, AfterMap, AfterStack, AfterFree, AfterReturn, AfterProcess, AfterFile,
     AfterPaging, AfterTables, AfterTemp, AfterHeader, Ended
<1>2. /\ \A r \in Objects \ {o} : objects'[r] = objects[r]
      /\ pc' = "panicked" \/ pc' = label
  BY <1>1, AllocateIs DEF IInv
<1>3. CASE pc' = "panicked"
  BY <1>3, EndKeeps DEF Ended
<1>4. CASE pc' = label
  BY <1>2, <1>4, PagesKeep
<1> QED BY <1>2, <1>3, <1>4

(* read_file() reads the file into its buffer. *)
LEMMA FileIsRead ==
  ASSUME IInv, IInv', EInv, read_file
  PROVE  EInv'
<1>1. CASE pc' = "panicked"
  <2>1. memory' = memory /\ ph' = ph /\ rela' = rela /\ image' = image
    BY <1>1 DEF read_file, GetTo, elfVars, input
  <2> QED BY <1>1, <2>1, EndKeeps DEF Ended
<1>2. CASE pc' # "panicked"
  <2> DEFINE m == Cardinality(DOMAIN image.words)
             F == Address("file")'
             D == Words(0, PAGES * PAGE_WORDS)
  <2>1. /\ pc = "read_file" /\ Allocate("file", PagesFor(m), "process")
        /\ ph' = ph /\ rela' = rela /\ image' = image
        /\ memory' = [w \in DOMAIN memory |->
                        IF w \in Words(Min(objects'["file"]) * PAGE_WORDS, m)
                        THEN image.words[w - Min(objects'["file"]) * PAGE_WORDS]
                        ELSE memory[w]]
    BY <1>2 DEF read_file, GetTo, Goto, input
  <2>2. F = Min(objects'["file"]) * PAGE_WORDS
    BY DEF Address, First
  <2>3. DOMAIN memory = D /\ image \in Images
    BY DEF EInv, Mapped, IInv, Counted
  <2>4. memory' = [w \in D |-> IF w \in Words(F, m) THEN image.words[w - F] ELSE memory[w]]
    BY <2>1, <2>2, <2>3
  <2>5. "file" \in Objects /\ objects["file"] = {}
    BY <2>1 DEF IInv, Vacant, Objects, AfterMap, AfterStack, AfterFree, AfterReturn, AfterProcess,
       AfterFile, Ended
  <2>6. pc' = "process" /\ \E p \in Page : objects'["file"] = p .. (p + PagesFor(m) - 1)
    BY <1>2, <2>1, <2>5, AllocateIs DEF IInv
  <2>7. Consecutive("file", PagesFor(m))' /\ objects'["file"] \subseteq Page
    BY <2>1, <2>6 DEF Consecutive, IInv, Sound, Objects
  <2>8. m \in Nat /\ \A w : w \in DOMAIN image.words <=> w \in Nat /\ w < m
    BY <2>3, FileIs
  <2>9. Mapped'
    BY <2>4 DEF Mapped
  <2> HIDE DEF m
  <2>10. \A w \in Nat : w < m => F \in Nat /\ F + w \in D
    <3> DEFINE block == objects'["file"]
    <3>1. Spans(block, PagesFor(m)) /\ block \subseteq Page
      BY <2>6, <2>7 DEF Spans
    <3>2. F = Min(block) * PAGE_WORDS /\ m \in Nat
      BY <2>2, <2>8
    <3> HIDE DEF block, F
    <3>3. ASSUME NEW a \in Nat, a < m PROVE F \in Nat /\ F + a \in D
      BY <3>1, <3>2, <3>3, WordOf
    <3> QED BY <3>3
  <2> HIDE DEF F, D
  <2>11. \A w \in Nat : w < m => F + w \in Words(F, m) /\ (F + w) - F = w
    BY SMTT(60), <2>8, <2>10 DEF Words
  <2>12. \A w \in DOMAIN image.words : memory'[F + w] = image.words[w]
    BY <2>4, <2>8, <2>10, <2>11
  <2>13. FileRead'
    BY <2>1, <2>7, <2>12 DEF FileRead, F, m
  <2>14. pc \notin AfterProcess \cup Ended /\ pc' \notin AfterProcess /\ pc' \notin AfterReturn
    BY <2>1, <2>6 DEF Ended, AfterProcess, AfterReturn, AfterFree, AfterStack, AfterMap
  <2>15. ph' = 1 /\ rela'.left = 0 /\ rela' \in [entry : Nat, left : Nat]
    BY <2>1, <2>14 DEF EInv
  <2> QED BY <2>9, <2>13, <2>14, <2>15 DEF EInv
<1> QED BY <1>1, <1>2

(* The buffer for the kernel: nothing has been written to it. *)
LEMMA BufferKeeps ==
  ASSUME IInv, EInv, allocate_process
  PROVE  EInv'
<1>1. /\ pc = "process" /\ Allocate("process", PagesFor(kernel_elf_size), "prepare")
      /\ memory' = memory /\ ph' = ph /\ rela' = rela /\ image' = image
  BY DEF allocate_process, rest, elfVars, input
<1>2. "process" \in Objects /\ objects["process"] = {}
  BY <1>1 DEF IInv, Vacant, Objects, AfterMap, AfterStack, AfterFree, AfterReturn, AfterProcess,
     Ended
<1>3. /\ \A r \in Objects \ {"process"} : objects'[r] = objects[r]
      /\ pc' = "panicked" \/ pc' = "prepare"
  BY <1>1, <1>2, AllocateIs DEF IInv
<1>4. CASE pc' = "panicked"
  BY <1>1, <1>4, EndKeeps DEF Ended
<1>5. CASE pc' = "prepare"
  <2>1. pc \notin AfterProcess \cup Ended /\ pc' \in AfterProcess /\ pc' \notin AfterReturn
    BY <1>1, <1>5 DEF Ended, AfterProcess, AfterReturn, AfterFree, AfterStack, AfterMap
  <2>2. ph' = 1 /\ rela'.left = 0 /\ rela' \in [entry : Nat, left : Nat] /\ Mapped' /\ FileRead
    BY <1>1, <2>1 DEF EInv, Mapped
  <2>3. objects'["file"] = objects["file"]
    BY <1>3 DEF Objects
  <2>4. Address("file")' = Address("file")
    BY <2>3, SameObject
  <2>5. FileRead'
    BY <1>1, <2>2, <2>3, <2>4 DEF FileRead, Consecutive
  <2>6. ~ (rela'.left > 0)
    BY SMTT(60), <2>2
  <2>7. Relocating'
    BY <2>6 DEF Relocating
  <2>8. image' \in Images
    BY <1>1 DEF IInv, Counted
  <2>9. \A n \in DOMAIN image'.ph_list : ~ (n < 1)
    <3>1. \A n \in DOMAIN image'.ph_list : n \in Nat /\ n >= 1
      BY <2>8, HeadersAre
    <3> QED BY SMTT(60), <3>1
  <2>10. \A n \in DOMAIN image'.ph_list : \A a : ~ Written(n, a)'
    BY <2>2, <2>9 DEF Written
  <2>11. Filled'
    BY <2>10 DEF Filled
  <2> QED BY <2>1, <2>2, <2>5, <2>7, <2>11 DEF EInv
<1> QED BY <1>3, <1>4, <1>5

(* A step of prepare() stays in the kernel's buffer. *)
LEMMA PrepareFills ==
  ASSUME IInv, EInv, prepare
  PROVE  /\ EInv'
         /\ \A w \in DOMAIN memory : memory'[w] # memory[w] => w \in KernelWords
<1> DEFINE D == Words(0, PAGES * PAGE_WORDS)
           F == Address("file")
           P == Address("process")
           Inside == \A w \in D : memory'[w] # memory[w] =>
                       \E a \in Words(0, get_size(image)) : w = P + a
<1>1. /\ pc = "prepare" /\ pc' = pc /\ image' = image /\ objects' = objects
      /\ \/ prepare_load(image, F, P)
         \/ prepare_dynamic(image, P)
         \/ prepare_other(image)
         \/ relocate(P, ptr_to_kernelspace(P))
  BY DEF prepare, rest, input
<1>2. /\ Mapped /\ FileRead /\ Relocating /\ Filled /\ rela \in [entry : Nat, left : Nat]
      /\ DOMAIN memory = D
  BY <1>1 DEF EInv, Mapped, AfterProcess
<1>3. pc \in AfterProcess /\ pc \notin AfterReturn
  BY <1>1 DEF AfterProcess, AfterReturn, AfterFree, AfterStack, AfterMap
<1>4. Mapped' /\ Filled' /\ Relocating' /\ rela' \in [entry : Nat, left : Nat] /\ Inside
  <2>1. CASE prepare_load(image, F, P)
    <3>1. rela' = rela
      BY <2>1 DEF prepare_load
    <3> QED BY <1>1, <1>2, <2>1, <3>1, LoadIs, LoadFills
  <2>2. CASE prepare_dynamic(image, P)
    <3>1. memory' = memory
      BY <2>2 DEF prepare_dynamic
    <3> QED BY <1>1, <1>2, <2>2, <3>1, DynamicFills DEF Mapped
  <2>3. CASE prepare_other(image)
    <3>1. memory' = memory /\ rela' = rela
      BY <2>3 DEF prepare_other
    <3> QED BY <1>1, <1>2, <2>3, <3>1, OtherFills DEF Mapped
  <2>4. CASE relocate(P, ptr_to_kernelspace(P))
    BY <1>1, <1>2, <2>4, RelocateFills
  <2> QED BY <1>1, <2>1, <2>2, <2>3, <2>4
<1>5. \A w \in DOMAIN memory : memory'[w] # memory[w] => w \in KernelWords
  <2> DEFINE z == get_size(image)
  <2>1. /\ z \in Nat
        /\ \A a \in Words(0, z) : P \in Nat /\ (P + a) \div PAGE_WORDS \in objects["process"]
    BY <1>3, SizeIsNat, BufferIs DEF IInv, Counted
  <2>2. DOMAIN memory = D /\ \A w \in D : memory'[w] # memory[w] =>
                               \E a \in Words(0, z) : w = P + a
    BY <1>2, <1>4
  <2> HIDE DEF z, P, D
  <2>3. \A a \in Words(0, z) : P + a \in Words(P, z)
    BY SMTT(60), <2>1 DEF Words
  <2> QED BY <2>1, <2>2, <2>3 DEF KernelWords, P, z
<1>6. FileRead'
  <2>1. F' = F
    BY <1>1, SameObject
  <2>2. ASSUME NEW w \in DOMAIN image.words PROVE memory'[F + w] = image.words[w]
    <3>1. F + w \in D /\ memory[F + w] = image.words[w]
      BY <1>2, FileBufferIs
    <3>2. \A a \in Words(0, get_size(image)) : F + w # P + a
      BY <1>2, <1>3, BuffersApart
    <3> QED BY <1>4, <3>1, <3>2
  <2> HIDE DEF F
  <2>3. \A w \in DOMAIN image.words : memory'[F + w] = image.words[w]
    BY <2>2
  <2> QED BY <1>1, <1>2, <2>1, <2>3 DEF FileRead, Consecutive, F
<1> QED BY <1>1, <1>3, <1>4, <1>5, <1>6 DEF EInv

(* prepare() returns when all headers have had their turn. *)
LEMMA ReturnsFilled ==
  ASSUME IInv, EInv, prepare_returns
  PROVE  EInv'
<1>1. /\ pc = "prepare" /\ pc' \in {"debug", "free"} /\ Prepared(image)
      /\ memory' = memory /\ ph' = ph /\ rela' = rela /\ image' = image /\ objects' = objects
  BY DEF prepare_returns, Goto, input, pages, elfVars
<1>2. /\ pc \in AfterProcess /\ pc' \in AfterProcess /\ pc' \notin {"process", "prepare"}
  BY <1>1 DEF AfterProcess, AfterReturn, AfterFree, AfterStack, AfterMap
<1>3. Mapped' /\ rela' \in [entry : Nat, left : Nat]
  BY <1>1 DEF EInv, Mapped
<1>4. Address("process")' = Address("process") /\ Relocating /\ Filled
  BY <1>1, <1>2, SameObject DEF EInv
<1>5. \A n, a : Written(n, a)' <=> Written(n, a)
  BY <1>1 DEF Written
<1>6. Filled' /\ Relocating' /\ Prepared(image)'
  BY <1>1, <1>4, <1>5 DEF Filled, Relocating, Prepared
<1>7. objects["debug"] = {}
  BY <1>1 DEF IInv, Vacant, AfterFree, AfterStack, AfterMap, Ended
<1>8. Debugged'
  BY <1>1, <1>7 DEF Debugged
<1> QED BY <1>2, <1>3, <1>6, <1>8 DEF EInv

(* The page at 0x1000 is not the image's. *)
LEMMA DebugFilled ==
  ASSUME IInv, EInv, debug_data
  PROVE  EInv'
<1>1. CASE GetTo("panicked")
  BY <1>1, EndKeeps DEF GetTo, Goto, elfVars, input, Ended
<1>2. CASE ~ GetTo("panicked")
  <2> DEFINE P == Address("process")
             text == get_text_addr(image, ptr_to_kernelspace(P))
             D == Words(0, PAGES * PAGE_WORDS)
             d == PAGE_WORDS
  <2>1. /\ pc = "debug" /\ pc' = "free" /\ types[1] = "CONVENTIONAL"
        /\ objects' = [objects EXCEPT !["debug"] = {1}]
        /\ memory' = [memory EXCEPT ![d] = text]
        /\ image' = image /\ ph' = ph /\ rela' = rela
    BY <1>2 DEF debug_data, Goto, rest, input
  <2>2. pc \in AfterReturn /\ pc \in AfterProcess /\ pc' \in AfterReturn /\ pc' \in AfterProcess
    BY <2>1 DEF AfterProcess, AfterReturn
  <2>3. /\ memory = [w \in D |-> memory[w]] /\ rela \in [entry : Nat, left : Nat]
        /\ Relocating /\ Filled /\ Prepared(image)
    BY <2>2 DEF EInv, Mapped
  <2>4. objects'["process"] = objects["process"]
    BY <2>1 DEF IInv, Sound, Objects
  <2>5. P' = P
    BY <2>4, SameObject
  <2>6. d \in D /\ d \div PAGE_WORDS = 1
    <3> DEFINE n == PAGES
    <3>1. n \in Nat /\ n >= 2 /\ d \in Nat /\ d >= 1
      BY SMTT(60), BootloaderAssumption
    <3>2. D = Words(0, n * d)
      OBVIOUS
    <3> HIDE DEF n, d, D
    <3>3. PICK e \in Nat : n = 2 + e
      BY SMTT(60), <3>1, n - 2 \in Nat
    <3>4. n * d = 2 * d + e * d /\ e * d \in Nat
      BY SMTT(60), <3>1, <3>3
    <3>5. d \in Words(0, n * d)
      BY SMTT(60), <3>1, <3>4 DEF Words
    <3>6. d \div d = 1
      <4>1. \A k \in Nat : (k * d) \div d = k
        BY <3>1, DivOfMultiple
      <4>2. 1 \in Nat /\ 1 * d = d
        BY SMTT(60), <3>1
      <4> QED BY <4>1, <4>2
    <3> QED BY <3>2, <3>5, <3>6 DEF d
  <2>7. 1 \notin objects["process"]
    BY <2>1 DEF IInv, Sound, Objects
  <2> HIDE DEF P, text, D
  <2>8. \A w \in D : memory'[w] = IF w = d THEN text ELSE memory[w]
    BY <2>1, <2>3
  <2>9. Mapped'
    BY <2>1, <2>3 DEF Mapped, D
  <2>10. \A a \in Words(0, get_size(image)) : memory'[P + a] = memory[P + a]
    <3>1. \A a \in Words(0, get_size(image)) :
            P + a \in D /\ (P + a) \div PAGE_WORDS \in objects["process"]
      BY <2>2, BufferIs DEF P, D
    <3> HIDE DEF d
    <3>2. \A a \in Words(0, get_size(image)) : P + a # d
      BY <2>6, <2>7, <3>1
    <3> QED BY <2>8, <3>1, <3>2
  <2>11. \A n, a : Written(n, a)' <=> Written(n, a)
    BY <2>1 DEF Written
  <2>12. Filled'
    BY SMTT(60), ZenonT(60), <2>1, <2>3, <2>5, <2>10, <2>11 DEF Filled, P
  <2>13. Relocating' /\ Prepared(image)' /\ rela' \in [entry : Nat, left : Nat]
    BY <2>1, <2>3, <2>5 DEF Relocating, Prepared, P
  <2>14. Debugged'
    <3>1. memory'[d] = text
      BY <2>6, <2>8
    <3> QED BY <2>1, <2>5, <3>1 DEF Debugged, text, P
  <2>15. pc' \notin {"process", "prepare"}
    BY <2>1
  <2> QED BY <2>2, <2>9, <2>12, <2>13, <2>14, <2>15 DEF EInv
<1> QED BY <1>1, <1>2

(* Every step of efi_main() and of the firmware keeps it. *)
LEMMA ElfInvariance == IInv /\ IInv' /\ EInv /\ [Next]_vars => EInv'
<1> SUFFICES ASSUME IInv, IInv', EInv, [Next]_vars PROVE EInv'
  OBVIOUS
<1> USE DEF Objects, rest, elfVars, input, pages, Goto
<1>1. CASE UNCHANGED vars
  <2>1. UNCHANGED <<memory, ph, rela, image, objects, pc>>
    BY <1>1 DEF vars
  <2> QED BY <2>1, QuietKeeps
<1>2. CASE handle_protocols \/ set_mode \/ convert \/ goto_entrypoint
  <2>1. UNCHANGED <<memory, ph, rela, image, objects>>
    BY <1>2 DEF handle_protocols, set_mode, convert, goto_entrypoint, GetTo
  <2>2. \/ pc' = "panicked"
        \/ <<pc, pc'>> \in {<<"start", "header">>, <<"video", "paging_size">>, <<"convert", "jump">>,
                            <<"jump", "kernel">>}
    BY <1>2 DEF handle_protocols, set_mode, convert, goto_entrypoint, GetTo
  <2> QED BY <2>1, <2>2, GotoKeeps, EndKeeps DEF Ended
<1>3. CASE paging_size \/ mmap_size
  <2>1. /\ UNCHANGED <<memory, ph, rela, image, objects>>
        /\ <<pc, pc'>> \in {<<"paging_size", "paging_allocate">>, <<"mmap_size", "mmap_allocate">>}
    BY <1>3 DEF paging_size, mmap_size, MapSize
  <2> QED BY <2>1, GotoKeeps
<1>4. CASE paging_grown \/ mmap_grown
  <2>1. /\ UNCHANGED <<memory, ph, rela, image, objects>>
        /\ \/ pc' = "grew"
           \/ <<pc, pc'>> \in {<<"paging_grown", "paging_map">>, <<"mmap_grown", "exit">>}
    BY <1>4 DEF paging_grown, mmap_grown, MapGrown, GetTo
  <2> QED BY <2>1, GotoKeeps, EndKeeps DEF Ended
<1>5. CASE paging_map \/ exit_boot_services
  <2>1. /\ UNCHANGED <<memory, ph, rela, image, objects>>
        /\ \/ pc' = "grew"
           \/ <<pc, pc'>> \in {<<"paging_map", "paging_tables">>, <<"exit", "convert">>}
    BY <1>5 DEF paging_map, exit_boot_services, MapRead, GetTo
  <2> QED BY <2>1, GotoKeeps, EndKeeps DEF Ended
<1>6. CASE allocate_header \/ paging_allocate \/ paging_tables
  BY <1>6, AllocationKeeps DEF allocate_header, paging_allocate, paging_tables
<1>7. CASE allocate_stack \/ mmap_allocate
  BY <1>7, AllocationKeeps DEF allocate_stack, mmap_allocate
<1>8. CASE paging_free \/ free_file
  <2>1. PICK o \in {"temp", "file"}, label \in {"read_file", "stack"} :
          /\ <<pc, o, label>> \in {<<"paging_free", "temp", "read_file">>, <<"free", "file", "stack">>}
          /\ Free(o, label) /\ UNCHANGED <<memory, ph, rela, image>>
    BY <1>8 DEF paging_free, free_file
  <2>2. pc' = label /\ \A r \in Objects \ {o} : objects'[r] = objects[r]
    BY <2>1, FreeIsSound DEF IInv
  <2>3. o \in Objects
    BY <2>1
  <2> QED BY <2>1, <2>2, <2>3, PagesKeep
<1>9. CASE read_file \/ allocate_process \/ prepare \/ prepare_returns \/ debug_data
  BY <1>9, FileIsRead, BufferKeeps, PrepareFills, ReturnsFilled, DebugFilled
<1>10. CASE prepare_panics
  BY <1>10, EndKeeps DEF prepare_panics, GetTo, Ended
<1>11. CASE Firmware
  <2>1. UNCHANGED <<memory, ph, rela, image, objects, pc>>
    BY <1>11 DEF Firmware
  <2> QED BY <2>1, QuietKeeps
<1> QED BY <1>1, <1>2, <1>3, <1>4, <1>5, <1>6, <1>7, <1>8, <1>9, <1>10, <1>11
        DEF Next, efi_main, Done

(* Nothing is loaded at first. *)
LEMMA ElfInit == Init => EInv
<1> SUFFICES ASSUME Init PROVE EInv
  OBVIOUS
<1>1. Mapped
  BY DEF Init, Mapped
<1>2. rela \in [entry : Nat, left : Nat] /\ ph = 1 /\ rela.left = 0
  BY SMTT(60) DEF Init, NoRela
<1>3. pc \notin AfterProcess /\ pc \notin AfterReturn /\ pc \notin {"process", "prepare"}
  BY DEF Init, AfterProcess, AfterReturn, AfterFree, AfterStack, AfterMap
<1> QED BY <1>1, <1>2, <1>3 DEF EInv

(* Both invariants hold in every state that is reached. *)
LEMMA ElfInductive == Spec => []EInv
<1>1. Spec => []IInv
  BY Inductive
<1> QED BY <1>1, ElfInit, ElfInvariance, PTL DEF Spec

(***************************************************************************)
(* Whatever image a linker makes, with any number of LOAD and DYNAMIC      *)
(* segments: when prepare() has returned, and still when the kernel is     *)
(* entered, every word of the image is relocated or has the value of the   *)
(* file, and the debugger finds .text.  Of a linker it takes that a word   *)
(* is loaded before it is relocated (Linked).                              *)
(***************************************************************************)
THEOREM KernelIsLoaded == Spec => []ImageReady
<1>1. IInv /\ EInv => ImageReady
  <2> SUFFICES ASSUME IInv, EInv, pc \in {"free", "kernel"} PROVE ImageReady
    BY DEF ImageReady
  <2> DEFINE P == Address("process")
             base == ptr_to_kernelspace(P)
             c == Len(image.ph_list)
  <2>1. pc \in AfterReturn /\ pc \in AfterProcess
    BY DEF AfterProcess, AfterReturn, AfterFree, AfterStack, AfterMap
  <2>2. Filled /\ Prepared(image) /\ Debugged /\ image \in Images /\ ph \in 1 .. (c + 1)
    BY <2>1 DEF EInv, IInv, Counted
  <2>3. /\ c \in Nat /\ DOMAIN image.ph_list = 1 .. c
    BY <2>2, HeadersAre
  <2>4. rela.left = 0 /\ ph > c
    BY <2>2 DEF Prepared
  <2>5. ASSUME NEW h \in DOMAIN image.ph_list, NEW a \in 0 .. (get_size(image) - 1),
               Covers(image.ph_list[h], a)
        PROVE  memory[P + a] = Expected(image, base, a)
    <3> DEFINE W == Writers(image, a)
               n == Max(W)
    <3>1. W \subseteq DOMAIN image.ph_list
      BY DEF Writers
    <3> HIDE DEF c, P, base, W
    <3>2. W \in SUBSET Nat /\ W # {} /\ \A m \in W : m <= c
      <4>1. \A m \in 1 .. c : m \in Nat /\ m <= c
        BY SMTT(60), <2>3
      <4>2. h \in W
        BY <2>5 DEF W, Writers
      <4> QED BY <2>3, <3>1, <4>1, <4>2
    <3>3. n \in W /\ \A m \in W : n >= m
      BY <2>3, <3>2, MaxNat
    <3> HIDE DEF n
    <3>4. ~ (rela.left > 0) /\ n < ph /\ \A m \in W : ~ (m > n)
      BY SMTT(60), <2>2, <2>3, <2>4, <3>2, <3>3
    <3>5. n \in DOMAIN image.ph_list /\ Written(n, a)
      BY <3>1, <3>3, <3>4 DEF Written, W
    <3>6. \A m \in DOMAIN image.ph_list : m > n => ~ Written(m, a)
      BY <3>4 DEF Written, W
    <3>7. a \in Words(0, get_size(image))
      <4> DEFINE z == get_size(image)
      <4>1. z \in Nat
        BY <2>2, SizeIsNat
      <4> HIDE DEF z
      <4>2. 0 .. (z - 1) = Words(0, z)
        BY SMTT(60), <4>1 DEF Words
      <4> QED BY <4>2 DEF z
    <3>8. memory[P + a] = Value(image, base, n, a)
      BY <2>2, <3>5, <3>6, <3>7 DEF Filled, P, base
    <3>9. Value(image, base, n, a) = Expected(image, base, a)
      BY <2>2, <3>3, <3>4, LastIsExpected DEF W
    <3> QED BY <3>8, <3>9
  <2>6. objects["debug"] # {} => memory[PAGE_WORDS] = get_text_addr(image, base)
    BY <2>2 DEF Debugged
  <2> QED BY <2>5, <2>6 DEF ImageReady
<1> QED BY <1>1, Inductive, ElfInductive, PTL

(***************************************************************************)
(* On the way, prepare() writes to no word but the get_size() words of the *)
(* kernel, and all of those are in the pages that efi_main() has allocated *)
(* for it: neither a segment nor a relocation reaches out of them.         *)
(***************************************************************************)
THEOREM PrepareIsConfined == Spec => PrepareStaysInside
<1> DEFINE Inside ==
             pc = "prepare" => \A w \in DOMAIN memory : memory'[w] # memory[w] => w \in KernelWords
<1>1. IInv /\ EInv /\ [Next]_vars => [Inside]_vars
  <2> SUFFICES ASSUME IInv, EInv, Next, pc = "prepare" PROVE Inside
    OBVIOUS
  <2>1. prepare \/ prepare_panics \/ prepare_returns
    BY DEF Next, efi_main, Done, Firmware, handle_protocols, allocate_header, set_mode,
       paging_size, paging_allocate, paging_grown, paging_map, paging_tables, paging_free,
       read_file, allocate_process, debug_data, free_file, allocate_stack, mmap_size,
       mmap_allocate, mmap_grown, exit_boot_services, convert, goto_entrypoint,
       MapSize, MapGrown, MapRead
  <2>2. CASE prepare
    BY <2>2, PrepareFills
  <2>3. CASE prepare_panics \/ prepare_returns
    BY <2>3 DEF prepare_panics, prepare_returns, GetTo, elfVars
  <2> QED BY <2>1, <2>2, <2>3
<1> QED BY <1>1, Inductive, ElfInductive, PTL DEF Spec, PrepareStaysInside

=============================================================================
