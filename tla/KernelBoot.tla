------------------------------ MODULE KernelBoot -----------------------------
(***************************************************************************)
(* kernel/src/main.rs and arch::init_platform: the first core brings up    *)
(* the physical memory manager, the GDT with its TSS, the IDT and the      *)
(* interrupt stack, in the order of main().  All tables live in pages from *)
(* the manager, so the steps of PhysManager run between the steps here.    *)
(*                                                                         *)
(* Of a page in use only the tables are modelled, of a free page the list  *)
(* node, and of the bitmap its bits: what interrupt::init() clears behind  *)
(* the page it owns is then lost to whoever owns it.                       *)
(***************************************************************************)
EXTENDS PhysManager, Gdt

VARIABLES at,           \* where main() is
          result,       \* the page that the last allocation returned
          bitmap,       \* the first page of the manager's bitmap
          GDT, TSS, IDT,\* the static pointers, as pages
          entries,      \* the contents of the GDT
          ist1,         \* of the first TSS, as the page above the stack
          gates,        \* the IDT holds its 256 gates
          gdtr, idtr,   \* the pages of the tables the processor uses
          tr            \* the core whose TSS it uses

statics == <<GDT, TSS, IDT>>
contents == <<entries, ist1, gates>>
registers == <<gdtr, idtr, tr>>
bootVars == <<vars, at, result, bitmap, statics, contents, registers>>

(* The core that runs main(): nothing starts another. *)
Core == CHOOSE c \in Cores : TRUE

NUM_CORES == 1          \* gdt::init(1)
STACK_PAGES == 4        \* alloc_linear_pages(4)

(* Registers that still hold the firmware's values. *)
Firmware == -1

BootInit ==
  /\ Init
  /\ pc[Core] = "new"
  /\ at = "start"
  /\ result = 0
  /\ bitmap = 0
  /\ GDT = NULL /\ TSS = NULL /\ IDT = NULL
  /\ entries = [s \in Slots(NUM_CORES) |-> Unwritten]
  /\ ist1 = Firmware
  /\ gates = FALSE
  /\ gdtr = Firmware /\ idtr = Firmware /\ tr = Firmware

-----------------------------------------------------------------------------
(* main() waits for the manager.                                           *)

First(pages) == CHOOSE p \in pages : \A q \in pages : p <= q

FreePages(m) == UNION {Pages(m[i]) : i \in {j \in DOMAIN m : IsFree(m[j])}}

(* A step of the manager, which is built by init_phys_manager() and called *)
(* from then on. *)
Manager ==
  /\ at # "start"
  /\ Step(Core)
  /\ result' = IF pc[Core] = "split" /\ order[Core] = goal[Core]
               THEN index[Core] ELSE result
  /\ bitmap' = IF pc[Core] = "new" /\ pc'[Core] = "segments"
               THEN First(FreePages(memory_map) \ FreePages(memory_map')) ELSE bitmap
  /\ UNCHANGED <<at, statics, contents, registers>>

(* The manager has returned to main(). *)
Returned == instance /\ pc[Core] = "idle"

(* alloc_linear_pages(count) is called. *)
Request(count) == CallAlloc(Core, get_size_order(count), 1)

-----------------------------------------------------------------------------
(* main().                                                                 *)

(* set_high_mem_base, terminal::init, clear and the first lines. *)
main ==
  /\ at = "start"
  /\ at' = "phys"
  /\ UNCHANGED <<vars, result, bitmap, statics, contents, registers>>

(* init_virt_manager, with the manager in place. *)
init_virt_manager ==
  /\ at = "phys" /\ Returned
  /\ at' = "gdt"
  /\ UNCHANGED <<vars, result, bitmap, statics, contents, registers>>

(* gdt::init: the table, *)
gdt_alloc ==
  /\ at = "gdt"
  /\ Request(num_gdt_pages(NUM_CORES))
  /\ at' = "tss"
  /\ UNCHANGED <<result, bitmap, statics, contents, registers>>

(* Mutant: the TSS is put where the table is. *)
tss_alloc_shared ==
  /\ at = "tss" /\ Returned
  /\ GDT' = result
  /\ at' = "gdt_init"
  /\ UNCHANGED <<vars, result, bitmap, TSS, IDT, contents, registers>>

(* the task state segments, *)
tss_alloc ==
  /\ at = "tss" /\ Returned
  /\ GDT' = result
  /\ Request(num_tss_pages(NUM_CORES))
  /\ at' = "gdt_init"
  /\ UNCHANGED <<result, bitmap, TSS, IDT, contents, registers>>

(* and the contents of both. *)
gdt_init ==
  /\ at = "gdt_init" /\ Returned
  /\ TSS' = result
  /\ entries' = gdt_entries(NUM_CORES)
  /\ ist1' = 0
  /\ at' = "gdt_core"
  /\ UNCHANGED <<vars, result, bitmap, GDT, IDT, gates, registers>>

(* gdt::init_core(0): LGDT, the segment registers and LTR. *)
gdt_init_core ==
  /\ at = "gdt_core"
  /\ gdtr' = GDT
  /\ tr' = ltr(entries, 0)
  /\ at' = "idt"
  /\ UNCHANGED <<vars, result, bitmap, statics, contents, idtr>>

(* interrupt::init: the page for the IDT. *)
idt_alloc ==
  /\ at = "idt"
  /\ alloc_page(Core)
  /\ at' = "idt_init"
  /\ UNCHANGED <<result, bitmap, statics, contents, registers>>

(* idt.write_bytes(0, 4096) counts entries of 16 bytes. *)
Cleared(page) == page .. (page + PagesFor(4096 * 16) - 1)

(* The page of the bitmap that has the bit of a page. *)
BitIn(p) == bitmap + p \div (WORD_BITS * WORDS_PER_PAGE)

(***************************************************************************)
(* The pages are cleared and the 256 gates written to the first of them.   *)
(* A list node in a cleared page gets order 0 and null links, a bit in it  *)
(* is cleared, and so is a GDT or TSS there (a TSS is all zero as it is).  *)
(***************************************************************************)
interrupt_init ==
  LET cleared == Cleared(result)
      nodes == cleared \ used
  IN  /\ at = "idt_init" /\ Returned
      /\ entry_order' = [p \in Page |-> IF p \in nodes THEN 0 ELSE entry_order[p]]
      /\ next' = [p \in Page |-> IF p \in nodes THEN NULL ELSE next[p]]
      /\ prev' = [p \in Page |-> IF p \in nodes THEN NULL ELSE prev[p]]
      /\ buddy_map' = {p \in buddy_map : BitIn(p) \notin cleared}
      /\ entries' = IF GDT \in cleared THEN [s \in DOMAIN entries |-> Null] ELSE entries
      /\ IDT' = result
      /\ gates' = TRUE
      /\ at' = "idt_core"
      /\ UNCHANGED <<lock, free_lists, boot, region, used, pc, call, index, order,
                     result, bitmap, GDT, TSS, ist1, registers>>

(* interrupt::init_core(0): the stack, *)
stack_alloc ==
  /\ at = "idt_core"
  /\ Request(STACK_PAGES)
  /\ at' = "ist"
  /\ UNCHANGED <<result, bitmap, statics, contents, registers>>

(* Mutant: the stack pointer starts at the bottom. *)
interrupt_init_core_bottom ==
  /\ at = "ist" /\ Returned
  /\ ist1' = result
  /\ idtr' = IDT
  /\ at' = "running"
  /\ UNCHANGED <<vars, result, bitmap, statics, entries, gates, gdtr, tr>>

(* set_ist1 and LIDT.  Then main() has nothing left to do. *)
interrupt_init_core ==
  /\ at = "ist" /\ Returned
  /\ ist1' = result + STACK_PAGES
  /\ idtr' = IDT
  /\ at' = "running"
  /\ UNCHANGED <<vars, result, bitmap, statics, entries, gates, gdtr, tr>>

(* loop {} *)
Running == at = "running" /\ UNCHANGED bootVars

Main ==
  \/ main \/ init_virt_manager \/ gdt_alloc \/ tss_alloc \/ gdt_init \/ gdt_init_core
  \/ idt_alloc \/ interrupt_init \/ stack_alloc \/ interrupt_init_core

BootNext == Manager \/ Main \/ Running

BootSpec == BootInit /\ [][BootNext]_bootVars /\ WF_bootVars(Manager \/ Main)

-----------------------------------------------------------------------------
(* The properties.                                                         *)

Stack == IF at = "running" THEN (ist1 - STACK_PAGES) .. (ist1 - 1) ELSE {}

(***************************************************************************)
(* Everything main() allocates is apart: GDT, TSS, IDT and the interrupt   *)
(* stack share no page with each other, with the bitmap or with the free   *)
(* blocks at the heads of the manager's lists, and all is free memory of   *)
(* the map.  The stack is allocated after interrupt::init() has written    *)
(* over list nodes.                                                        *)
(***************************************************************************)
TablesApart ==
  at = "running" =>
    /\ Cardinality({GDT, TSS, IDT} \cup Stack) = 3 + STACK_PAGES
    /\ {GDT, TSS, IDT} \cup Stack \subseteq Memory
    /\ \A o \in Order : free_lists[o] # NULL =>
         Block(free_lists[o], o) \cap ({GDT, TSS, IDT} \cup Stack) = {}

(* What the processor needs to deliver an interrupt to a stub. *)
Deliverable ==
  /\ idtr = IDT /\ gates
  /\ gdtr = GDT /\ entries[1] = KernelCode
  /\ tr = 0
  /\ Stack \subseteq used

(***************************************************************************)
(* When main() reaches its loop, the processor can deliver interrupts on   *)
(* the interrupt stack, unless the GDT is among the fifteen pages that     *)
(* interrupt::init() clears behind the IDT: then it never can.             *)
(***************************************************************************)
InterruptsWork ==
  at = "running" => (Deliverable <=> GDT \notin Cleared(IDT))

(***************************************************************************)
(* main() gets to its loop or to a panic: no call of the manager hangs,    *)
(* with the lists as interrupt::init() leaves them.                        *)
(***************************************************************************)
BootEnds == <>(at = "running" \/ pc[Core] \in Panics)

(***************************************************************************)
(* "Allocate 256 * 16 bytes for the IDT, exactly one page."  Writing that  *)
(* page leaves the manager's free lists consistent.                        *)
(***************************************************************************)
ListsSurvive == at = "idt_core" => LinksOK

=============================================================================
