------------------------------ MODULE Bootloader -----------------------------
(***************************************************************************)
(* bootloader/src/main.rs with allocator.rs, io.rs, platform.rs and the    *)
(* allocations of paging.rs: efi_main() gathers what the kernel needs,     *)
(* loads it, leaves the firmware and hands over the memory map.            *)
(*                                                                         *)
(* The firmware is modelled from its use: it keeps a type for every page   *)
(* of memory, picks the pages of an allocation, describes memory by the    *)
(* runs of pages of one type, and allocates and frees pages of its own     *)
(* between the calls of the bootloader.                                    *)
(***************************************************************************)
EXTENDS Elf

CONSTANTS PAGES,            \* pages of physical memory
          PAGE_WORDS,       \* words of a page, 512 in the code
          PER_PAGE,         \* descriptors that fit in a page
          TABLES,           \* pages of the initial page table
          STACK_PAGES,      \* KERNEL_STACK_SIZE, in pages
          HIGH_MEM_BASE,    \* as a word address
          Images,           \* kernel images
          Machines,         \* what the pages are when the bootloader starts
          ModeLists,        \* lists of video modes
          EventPages,       \* the pages that the firmware needs now and then
          MAX_EVENTS        \* bounds what it does by itself

FREE_TYPES == {"BOOT_SERVICES_CODE", "BOOT_SERVICES_DATA", "CONVENTIONAL", "LOADER_CODE"}
Types == FREE_TYPES \cup {"LOADER_DATA", "RESERVED", "hole"}
Page == 0 .. (PAGES - 1)

(* Memory has the page at 0x1000.  LOADER_DATA is what the bootloader       *)
(* allocates, so there is none when it starts: its own image is            *)
(* LOADER_CODE.                                                            *)
ASSUME BootloaderAssumption ==
  /\ PAGES \in Nat /\ PAGES >= 2 /\ PAGE_WORDS \in Nat \ {0} /\ PER_PAGE \in Nat /\ PER_PAGE >= 2
  /\ STACK_PAGES \in Nat \ {0} /\ MAX_EVENTS \in Nat
  /\ HIGH_MEM_BASE \in Nat /\ HIGH_MEM_BASE >= PAGES * PAGE_WORDS
  /\ Machines \subseteq [Page -> Types \ {"LOADER_DATA"}]

(***************************************************************************)
(* The base has no bit in common with an address in memory, so that `|` is *)
(* an addition: pml4_entries is a power of two.  Module Paging shows what  *)
(* becomes of it otherwise.  A word address has 61 bits.                   *)
(***************************************************************************)
ASSUME BaseAssumption ==
  \E n \in 0 .. 61 : PAGES * PAGE_WORDS <= 2 ^ n /\ HIGH_MEM_BASE % 2 ^ n = 0

(* The image is as a linker makes it, and holds its entry point. *)
ASSUME ImagesAssumption ==
  \A image \in Images : Linked(image) /\ image.entry_point \in 0 .. (get_size(image) - 1)

VARIABLES pc,
          debug_assertions, \* the build
          image,            \* the file EFI\BOOT\kernel.sys
          modes,            \* the video modes of the machine
          types,            \* the firmware's type of every page
          events,           \* how often the firmware acted by itself
          objects,          \* the pages of what the bootloader has allocated
          mmap_pages,       \* the size the buffer for the memory map must have
          seen,             \* `events` when that size was computed
          mmap,             \* the firmware's memory map, as retrieved last
          kernel_header,    \* the screen and the memory map for the kernel
          kernel_elf_size,  \* what the kernel takes when it is prepared
          entry_point,
          regs              \* the registers the kernel starts with

input == <<debug_assertions, image, modes>>
pages == <<types, objects>>
size == <<mmap_pages, seen>>
kernel == <<kernel_elf_size, entry_point, regs>>
vars == <<pc, input, pages, events, size, mmap, kernel_header, kernel, elfVars>>

Objects == {"header", "temp", "tables", "file", "process", "debug", "stack", "mmap"}
Stale == 99             \* what memory holds at first
NoMode == [width |-> 0, format |-> "none"]

Init ==
  /\ pc = "start"
  /\ debug_assertions \in BOOLEAN
  /\ image \in Images
  /\ modes \in ModeLists
  /\ types \in Machines
  /\ events = 0
  /\ objects = [o \in Objects |-> {}]
  /\ mmap_pages = 0 /\ seen = 0
  /\ mmap = {}
  /\ kernel_header = [screen |-> NoMode, memory_map |-> 0, segments |-> {}]
  /\ kernel_elf_size = 0
  /\ entry_point = 0
  /\ regs = [rip |-> 0, rsp |-> 0, rdi |-> 0]
  /\ memory = [w \in Words(0, PAGES * PAGE_WORDS) |-> Stale]
  /\ ph = 1
  /\ rela = NoRela

-----------------------------------------------------------------------------
(* The firmware.                                                           *)

Usable(n) == {p \in Page : \A q \in p .. (p + n - 1) : q \in Page /\ types[q] = "CONVENTIONAL"}

(* AllocateType::AnyPages: from the bottom or from the top of what fits. *)
AnyPages(n) ==
  LET fits == Usable(n)
  IN  {p \in fits : (\A q \in fits : p <= q) \/ (\A q \in fits : p >= q)}

SetTypes(block, type) == types' = [p \in Page |-> IF p \in block THEN type ELSE types[p]]

RunStarts == {p \in Page : types[p] # "hole" /\ (p = 0 \/ types[p - 1] # types[p])}

RunLength(p) == Cardinality({q \in p .. (PAGES - 1) : \A r \in p .. q : types[r] = types[p]})

(* memory_map(): one descriptor for every run of pages of a type. *)
memory_map ==
  {[phys_start |-> p, page_count |-> RunLength(p), ty |-> types[p]] : p \in RunStarts}

(* (memory_map_size() + 4095) / 4096 *)
PagesOfMap == (Cardinality(RunStarts) + PER_PAGE - 1) \div PER_PAGE

(* Between two calls, the firmware takes or returns a page of its own. *)
Firmware ==
  /\ pc \notin {"start", "prepare", "convert", "jump", "kernel", "panicked", "grew"}
  /\ events < MAX_EVENTS
  /\ events' = events + 1
  /\ \E p \in EventPages :
       \/ types[p] = "CONVENTIONAL" /\ SetTypes({p}, "BOOT_SERVICES_DATA")
       \/ types[p] = "BOOT_SERVICES_DATA" /\ SetTypes({p}, "CONVENTIONAL")
  /\ UNCHANGED <<pc, input, objects, size, mmap, kernel_header, kernel, elfVars>>

-----------------------------------------------------------------------------
(* Steps of efi_main().                                                    *)

PagesFor(words) == (words + PAGE_WORDS - 1) \div PAGE_WORDS

First(o) == Min(objects[o])
Address(o) == First(o) * PAGE_WORDS

(* ptr | HIGH_MEM_BASE, see BaseAssumption. *)
ptr_to_kernelspace(ptr) == ptr + HIGH_MEM_BASE

Goto(label) == pc' = label

(* A step that only gets on.  A failed expect() or a panic!() gets to the  *)
(* panic handler, which prints and stays. *)
GetTo(label) ==
  /\ Goto(label)
  /\ UNCHANGED <<input, pages, events, size, mmap, kernel_header, kernel, elfVars>>

(* allocate_pages(), with an expect() for the case that nothing fits. *)
Allocate(o, n, label) ==
  \/ \E p \in AnyPages(n) :
       /\ objects' = [objects EXCEPT ![o] = p .. (p + n - 1)]
       /\ SetTypes(p .. (p + n - 1), "LOADER_DATA")
       /\ Goto(label)
  \/ /\ AnyPages(n) = {}
     /\ Goto("panicked")
     /\ UNCHANGED <<types, objects>>

(* free_pages() *)
Free(o, label) ==
  /\ SetTypes(objects[o], "CONVENTIONAL")
  /\ objects' = [objects EXCEPT ![o] = {}]
  /\ Goto(label)

rest == <<input, events, size, mmap, kernel_header, kernel>>

(* The protocols, each with an expect(). *)
handle_protocols ==
  /\ pc = "start"
  /\ GetTo("panicked") \/ GetTo("header")

allocate_header ==
  /\ pc = "header"
  /\ Allocate("header", 1, "video")
  /\ UNCHANGED <<rest, elfVars>>

Suitable(m) == m.width <= 1920 /\ m.format \in {"Bgr", "Rgb"}

(* The loop over the modes: the best of the first n. *)
best_mode(list) ==
  LET best[n \in 0 .. Len(list)] ==
        IF n = 0 THEN NoMode
        ELSE IF Suitable(list[n]) /\ list[n].width > best[n - 1].width THEN list[n]
        ELSE best[n - 1]
  IN  best[Len(list)]

(* expect() a mode, and that it can be set. *)
set_mode ==
  /\ pc = "video"
  /\ \/ GetTo("panicked")
     \/ /\ best_mode(modes) # NoMode
        /\ kernel_header' = [kernel_header EXCEPT !.screen = best_mode(modes)]
        /\ Goto("paging_size")
        /\ UNCHANGED <<input, pages, events, size, mmap, kernel, elfVars>>

-----------------------------------------------------------------------------
(* A buffer for the memory map, in paging::init() and in efi_main().       *)

(* Mutant: no page is added for safety. *)
MapSize_exact(from, label) ==
  /\ pc = from
  /\ mmap_pages' = PagesOfMap
  /\ seen' = events
  /\ Goto(label)
  /\ UNCHANGED <<input, pages, events, mmap, kernel_header, kernel, elfVars>>

MapSize(from, label) ==
  /\ pc = from
  /\ mmap_pages' = PagesOfMap + 1
  /\ seen' = events
  /\ Goto(label)
  /\ UNCHANGED <<input, pages, events, mmap, kernel_header, kernel, elfVars>>

(* The second look at the size. *)
MapGrown(from, label) ==
  /\ pc = from
  /\ \/ PagesOfMap > mmap_pages /\ GetTo("grew")
     \/ PagesOfMap <= mmap_pages /\ GetTo(label)

(* The map is retrieved, with an expect() for a buffer that is too small. *)
MapRead(from, label) ==
  /\ pc = from
  /\ \/ PagesOfMap > mmap_pages /\ GetTo("grew")
     \/ /\ PagesOfMap <= mmap_pages
        /\ mmap' = memory_map
        /\ Goto(label)
        /\ UNCHANGED <<input, pages, events, size, kernel_header, kernel, elfVars>>

paging_size == MapSize("paging_size", "paging_allocate")

paging_allocate ==
  /\ pc = "paging_allocate"
  /\ Allocate("temp", mmap_pages, "paging_grown")
  /\ UNCHANGED <<rest, elfVars>>

paging_grown == MapGrown("paging_grown", "paging_map")

paging_map == MapRead("paging_map", "paging_tables")

(* platform::init(), see module Paging. *)
paging_tables ==
  /\ pc = "paging_tables"
  /\ Allocate("tables", TABLES, "paging_free")
  /\ UNCHANGED <<rest, elfVars>>

paging_free ==
  /\ pc = "paging_free"
  /\ Free("temp", "read_file")
  /\ UNCHANGED <<rest, elfVars>>

-----------------------------------------------------------------------------
(* The kernel.                                                             *)

(* The file is opened, given a buffer and read into it, and its size is    *)
(* taken for when it is prepared. *)
read_file ==
  /\ pc = "read_file"
  /\ \/ GetTo("panicked")
     \/ LET length == Cardinality(DOMAIN image.words)
        IN  /\ Allocate("file", PagesFor(length), "process")
            /\ memory' = IF pc' = "panicked" THEN memory
                         ELSE LET data == Min(objects'["file"]) * PAGE_WORDS
                              IN  [w \in DOMAIN memory |->
                                     IF w \in Words(data, length) THEN image.words[w - data]
                                     ELSE memory[w]]
            /\ kernel_elf_size' = get_size(image)
            /\ UNCHANGED <<input, events, size, mmap, kernel_header, entry_point, regs, ph, rela>>

allocate_process ==
  /\ pc = "process"
  /\ Allocate("process", PagesFor(kernel_elf_size), "prepare")
  /\ UNCHANGED <<rest, elfVars>>

(* A step of elf::prepare(). *)
prepare ==
  /\ pc = "prepare"
  /\ \E data \in {Address("file")}, dest \in {Address("process")} :
       \/ prepare_load(image, data, dest)
       \/ prepare_dynamic(image, dest)
       \/ prepare_other(image)
       \/ relocate(dest, ptr_to_kernelspace(dest))
  /\ UNCHANGED <<pc, types, objects, rest>>

prepare_panics == pc = "prepare" /\ Unsupported /\ GetTo("panicked")

prepare_returns ==
  /\ pc = "prepare" /\ Prepared(image)
  /\ entry_point' = ptr_to_kernelspace(Address("process")) + image.entry_point
  /\ Goto(IF debug_assertions THEN "debug" ELSE "free")
  /\ UNCHANGED <<input, pages, events, size, mmap, kernel_header, kernel_elf_size, regs, elfVars>>

(* In debug builds, the page at 0x1000 gets the address of .text. *)
debug_data ==
  /\ pc = "debug"
  /\ \/ types[1] # "CONVENTIONAL" /\ GetTo("panicked")
     \/ /\ types[1] = "CONVENTIONAL"
        /\ objects' = [objects EXCEPT !["debug"] = {1}]
        /\ SetTypes({1}, "LOADER_DATA")
        /\ memory' = [memory EXCEPT ![PAGE_WORDS] =
                        get_text_addr(image, ptr_to_kernelspace(Address("process")))]
        /\ Goto("free")
        /\ UNCHANGED <<rest, ph, rela>>

(* Mutant: the prepared image is freed in its place. *)
free_file_process ==
  /\ pc = "free"
  /\ SetTypes(objects["process"], "CONVENTIONAL")
  /\ Goto("stack")
  /\ UNCHANGED <<objects, rest, elfVars>>

(* Mutant: the raw image is kept. *)
free_file_never ==
  /\ pc = "free"
  /\ GetTo("stack")

free_file ==
  /\ pc = "free"
  /\ Free("file", "stack")
  /\ UNCHANGED <<rest, elfVars>>

allocate_stack ==
  /\ pc = "stack"
  /\ Allocate("stack", STACK_PAGES, "mmap_size")
  /\ UNCHANGED <<rest, elfVars>>

-----------------------------------------------------------------------------
(* Leaving the firmware.                                                   *)

mmap_size == MapSize("mmap_size", "mmap_allocate")

(* Mutant: there is no second buffer. *)
mmap_allocate_single ==
  /\ pc = "mmap_allocate"
  /\ Allocate("mmap", mmap_pages, "mmap_grown")
  /\ UNCHANGED <<rest, elfVars>>

mmap_allocate ==
  /\ pc = "mmap_allocate"
  /\ Allocate("mmap", mmap_pages * 2, "mmap_grown")
  /\ UNCHANGED <<rest, elfVars>>

mmap_grown == MapGrown("mmap_grown", "exit")

(* The map that exit_boot_services() gets is current, or it tries again. *)
exit_boot_services == MapRead("exit", "convert")

(* Mutant: the bootloader's data is taken to be done with as well. *)
state_data(ty) == IF ty \in FREE_TYPES \cup {"LOADER_DATA"} THEN "Free" ELSE "Occupied"

state(ty) == IF ty \in FREE_TYPES THEN "Free" ELSE "Occupied"

(* The map is written behind the firmware's in the format of the kernel. *)
convert ==
  /\ pc = "convert"
  /\ kernel_header' =
       [kernel_header EXCEPT
          !.memory_map = ptr_to_kernelspace((First("mmap") + mmap_pages) * PAGE_WORDS),
          !.segments = {[start |-> entry.phys_start, page_count |-> entry.page_count,
                         state |-> state(entry.ty)] : entry \in mmap}]
  /\ Goto("jump")
  /\ UNCHANGED <<input, pages, events, size, mmap, kernel, elfVars>>

goto_entrypoint ==
  /\ pc = "jump"
  /\ regs' = [rip |-> entry_point,
              rsp |-> ptr_to_kernelspace(Address("stack")) + STACK_PAGES * PAGE_WORDS,
              rdi |-> ptr_to_kernelspace(Address("header"))]
  /\ Goto("kernel")
  /\ UNCHANGED <<input, pages, events, size, mmap, kernel_header, kernel_elf_size, entry_point,
                 elfVars>>

Done == pc \in {"kernel", "panicked", "grew"} /\ UNCHANGED vars

efi_main ==
  \/ handle_protocols \/ allocate_header \/ set_mode
  \/ paging_size \/ paging_allocate \/ paging_grown \/ paging_map \/ paging_tables \/ paging_free
  \/ read_file \/ allocate_process \/ prepare \/ prepare_panics \/ prepare_returns
  \/ debug_data \/ free_file \/ allocate_stack
  \/ mmap_size \/ mmap_allocate \/ mmap_grown \/ exit_boot_services \/ convert \/ goto_entrypoint

Next == efi_main \/ Firmware \/ Done

Spec == Init /\ [][Next]_vars /\ WF_vars(efi_main)

-----------------------------------------------------------------------------
(* The properties.                                                         *)

(* Types, and every object is made of pages the firmware has set apart. *)
BootloaderTypeOK ==
  /\ types \in [Page -> Types]
  /\ objects \in [Objects -> SUBSET Page]
  /\ \A o \in Objects : \A p \in objects[o] : types[p] = "LOADER_DATA"
  /\ \A o, r \in Objects : o # r => objects[o] \cap objects[r] = {}
  /\ mmap_pages \in 0 .. (PAGES + 1) /\ events \in 0 .. MAX_EVENTS /\ seen \in 0 .. events
  /\ ph \in 1 .. (Len(image.ph_list) + 1)

Pages(segment) == segment.start .. (segment.start + segment.page_count - 1)

FreePages == UNION {Pages(s) : s \in {t \in kernel_header.segments : t.state = "Free"}}

KernelPages == UNION {objects[o] : o \in Objects \ {"temp", "file"}}

PageOf(ptr) == (ptr - HIGH_MEM_BASE) \div PAGE_WORDS

(***************************************************************************)
(* Nothing the kernel still uses is free in the map it gets: its header,   *)
(* page tables, image, stack, the map itself and the debugger's page.  The *)
(* registers it starts with point into them.                               *)
(***************************************************************************)
KernelMemoryKept ==
  pc = "kernel" =>
    /\ KernelPages \cap FreePages = {}
    /\ PageOf(regs.rip) \in objects["process"]
    /\ PageOf(regs.rsp - 1) \in objects["stack"]
    /\ PageOf(regs.rdi) \in objects["header"]

(***************************************************************************)
(* And nothing else is withheld: what the bootloader and the firmware are  *)
(* done with, the raw image and the first buffer for the map included, is  *)
(* free for the kernel.                                                    *)
(***************************************************************************)
NothingWithheld ==
  pc = "kernel" =>
    {p \in Page : types[p] \notin {"RESERVED", "hole"}} \ KernelPages \subseteq FreePages

(***************************************************************************)
(* "Ensure that the buffer allocation didn't grow the memory map too much  *)
(* (should never happen)": the page that is added for safety covers the    *)
(* bootloader's own allocation.  The panic needs a firmware that allocates *)
(* after its map was measured.                                             *)
(***************************************************************************)
GrownOnlyByFirmware == pc = "grew" => events > seen

(***************************************************************************)
(* The converted map lies in the buffer, behind all of the firmware's map  *)
(* it is converted from.  A segment is smaller than a descriptor.          *)
(***************************************************************************)
MapInBuffer ==
  pc = "kernel" =>
    LET length == (Cardinality(mmap) + PER_PAGE - 1) \div PER_PAGE
        start == PageOf(kernel_header.memory_map)
    IN  /\ Words(start, length) \subseteq objects["mmap"]
        /\ Words(First("mmap"), length) \cap Words(start, length) = {}

(***************************************************************************)
(* "Prepares a given `image` into the `dest` buffer by resolving           *)
(* relocations, expanding zero-padded segments": after prepare(), and      *)
(* still when the kernel is entered, each word of a LOAD segment has its   *)
(* relocated address in the kernel's half of memory, or else the file's    *)
(* value, zero behind the data.  The debugger finds .text.                 *)
(***************************************************************************)
ImageReady ==
  pc \in {"free", "kernel"} =>
    LET process == Address("process")
        base == ptr_to_kernelspace(process)
    IN  /\ \A n \in DOMAIN image.ph_list, a \in 0 .. (get_size(image) - 1) :
             Covers(image.ph_list[n], a) => memory[process + a] = Expected(image, base, a)
        /\ objects["debug"] # {} => memory[PAGE_WORDS] = get_text_addr(image, base)

(***************************************************************************)
(* prepare() writes to no word but the get_size() words of the kernel, and *)
(* to no page but those that efi_main() has allocated for them.            *)
(***************************************************************************)
KernelWords ==
  {w \in Words(Address("process"), get_size(image)) : w \div PAGE_WORDS \in objects["process"]}

PrepareStaysInside ==
  [][pc = "prepare" => \A w \in DOMAIN memory : memory'[w] # memory[w] => w \in KernelWords]_vars

(* efi_main() gets to the kernel or to a panic, and does not get stuck. *)
BootloaderEnds == <>(pc \in {"kernel", "panicked", "grew"})

=============================================================================
