-------------------------------- MODULE Paging -------------------------------
(***************************************************************************)
(* The initial page table, from the bootloader that builds it              *)
(* (bootloader/src/paging.rs) to the kernel that cuts its lower half off   *)
(* (kernel/src/memory/virt_manager.rs and the file of that name under      *)
(* arch/x86_64).                                                           *)
(*                                                                         *)
(* Addresses count pages of 4096 bytes, and ENTRIES stands for the 512     *)
(* entries of a table.  A large page is then ENTRIES pages, and the shifts *)
(* by 21, 30 and 39 are divisions by ENTRIES, PDP_SPAN and PML4_SPAN.  Of  *)
(* a virtual address the 48 bits that are translated are kept.             *)
(***************************************************************************)
EXTENDS Integers, Sequences, FiniteSets, FiniteSetsExt

CONSTANTS ENTRIES,      \* entries of a table, 512 in the code; a power of two
          MemoryMaps    \* the firmware's memory maps, as sequences of segments

ASSUME EntriesAssumption == \E k \in 1 .. 9 : ENTRIES = 2^k

ASSUME MapsAssumption ==
  \A m \in MemoryMaps : m \in Seq([start : Nat, page_count : Nat])

VARIABLES pc,
          mmap,             \* the memory map of this machine
          physical_size,    \* the end of memory, cut to 47 bits
          page_buffer,      \* the entries of all tables, by their index in the buffer
          page_buffer_ptr,  \* the first page of the buffer
          cr3,              \* the page of the PML4 in use, or Firmware
          paging_info,      \* what the kernel header says about the tables
          HIGH_MEM_BASE,    \* of the bootloader and, from the header, of the kernel
          i                 \* the loop of the kernel's init

vars == <<pc, mmap, physical_size, page_buffer, page_buffer_ptr, cr3, paging_info,
          HIGH_MEM_BASE, i>>

Firmware == -1

-----------------------------------------------------------------------------
(* Sizes.                                                                  *)

(* The pages below an entry of a PDP table and of the PML4, and below all  *)
(* of the PML4.                                                            *)
PDP_SPAN == ENTRIES * ENTRIES
PML4_SPAN == ENTRIES * PDP_SPAN
VIRTUAL == ENTRIES * PML4_SPAN

Pages(segment) == segment.start .. (segment.start + segment.page_count - 1)

Memory == UNION {Pages(mmap[s]) : s \in DOMAIN mmap}

(* The loop over the memory map in paging::init. *)
end_of_memory ==
  Max({0} \cup {mmap[s].start + mmap[s].page_count : s \in DOMAIN mmap})

(* physical_size &= 0x0000_7FFF_FFFF_FFFF *)
cut(size) == size % (VIRTUAL \div 2)

pml4_entries == physical_size \div PML4_SPAN + 1
pdp_entries == physical_size \div PDP_SPAN + 1

(* Mutant: the large page that memory ends in is not counted. *)
pd_entries_full == physical_size \div ENTRIES

pd_entries == physical_size \div ENTRIES + 1

(* (entries * 8 + 4095) / 4096 *)
TablesFor(entries) == (entries + ENTRIES - 1) \div ENTRIES

pml4_pages == TablesFor(pml4_entries)
pdp_pages == TablesFor(pdp_entries)

(* Mutant: a last table that is not full is not counted. *)
pd_pages_down == pd_entries \div ENTRIES

pd_pages == TablesFor(pd_entries)
alloc_pages == pml4_pages + pdp_pages + pd_pages

-----------------------------------------------------------------------------
(* Entries, and how the processor walks the tables.                        *)

Present(addr) == [p |-> "present", addr |-> addr]
Absent == [p |-> "absent", addr |-> 0]

(* What the firmware left in the buffer, which is never cleared. *)
Stale == [p |-> "stale", addr |-> 0]

Write(written) ==
  page_buffer' = [x \in DOMAIN page_buffer \cup DOMAIN written |->
                    IF x \in DOMAIN written THEN written[x] ELSE page_buffer[x]]

Entry(table, slot) ==
  LET x == (table - page_buffer_ptr) * ENTRIES + slot
  IN  IF x \in DOMAIN page_buffer THEN page_buffer[x] ELSE Stale

Follow(entry, slot) == IF entry.p = "present" THEN Entry(entry.addr, slot) ELSE entry

(* The entry for the large page around a virtual address. *)
Walk(virt) ==
  LET pml4e == Entry(cr3, virt \div PML4_SPAN)
      pdpe == Follow(pml4e, (virt \div PDP_SPAN) % ENTRIES)
  IN  Follow(pdpe, (virt \div ENTRIES) % ENTRIES)

(* The virtual address `virt` refers to the physical address `phys`. *)
Maps(virt, phys) ==
  LET pde == Walk(virt)
  IN  pde.p = "present" /\ pde.addr + (virt % ENTRIES) = phys

-----------------------------------------------------------------------------
(* The operators on bits, for the numbers of virtual pages.                *)

BITS == 4 * (CHOOSE k \in 1 .. 9 : ENTRIES = 2^k)

BitAt(x, k) == (x \div 2^k) % 2

(* x & y: the bits that both have.  x | y then counts each of them once. *)
And(x, y) ==
  CHOOSE z \in 0 .. x : \A k \in 0 .. (BITS - 1) : BitAt(z, k) = BitAt(x, k) * BitAt(y, k)

Or(x, y) == x + y - And(x, y)

(* phys | HIGH_MEM_BASE, in the bootloader and in the kernel. *)
ptr_to_kernelspace(ptr) == Or(ptr, HIGH_MEM_BASE)
phys_to_virt(phys) == Or(phys, HIGH_MEM_BASE)

(* Mutant: the offset in one PML4 entry is taken for the address. *)
virt_to_phys_offset(virt) == virt % PML4_SPAN

(* virt & !HIGH_MEM_BASE *)
virt_to_phys(virt) == virt - And(virt, HIGH_MEM_BASE)

-----------------------------------------------------------------------------
(* The bootloader.                                                         *)

Goto(label) == pc' = label

(* An expect() or an assert! that fails: the bootloader's panic handler.   *)
Panics == Goto("panicked") /\ UNCHANGED <<mmap, physical_size, page_buffer, page_buffer_ptr,
                                          cr3, paging_info, HIGH_MEM_BASE, i>>

(***************************************************************************)
(* paging::init reads the memory map into a buffer of its own, which it    *)
(* frees at the end; it panics if there is no room for it, or if the map   *)
(* has grown past the spare page.                                          *)
(***************************************************************************)
init ==
  /\ pc = "init"
  /\ \/ Panics
     \/ /\ physical_size' = cut(end_of_memory)
        /\ Goto("allocate")
        /\ UNCHANGED <<mmap, page_buffer, page_buffer_ptr, cr3, paging_info, HIGH_MEM_BASE, i>>

(* The firmware picks any free pages of memory, or has none. *)
allocate_pages ==
  /\ pc = "allocate"
  /\ \/ Panics
     \/ /\ pml4_pages = 1
        /\ \E ptr \in Memory :
             /\ ptr .. (ptr + alloc_pages - 1) \subseteq Memory
             /\ page_buffer_ptr' = ptr
        /\ page_buffer' = [x \in 0 .. (alloc_pages * ENTRIES - 1) |-> Stale]
        /\ Goto("pml4")
        /\ UNCHANGED <<mmap, physical_size, cr3, paging_info, HIGH_MEM_BASE, i>>

(* Each PML4 entry is written twice: from the start and up to the end. *)
fill_pml4 ==
  /\ pc = "pml4"
  /\ LET entry(n) == Present(page_buffer_ptr + pml4_pages + n)
         lower == 0 .. (pml4_entries - 1)
         upper == (ENTRIES - pml4_entries) .. (ENTRIES - 1)
     IN  Write([x \in lower \cup upper |->
                  IF x \in upper THEN entry(x - (ENTRIES - pml4_entries)) ELSE entry(x)])
  /\ Goto("pdp")
  /\ UNCHANGED <<mmap, physical_size, page_buffer_ptr, cr3, paging_info, HIGH_MEM_BASE, i>>

fill_pdp ==
  /\ pc = "pdp"
  /\ LET first == pml4_pages * ENTRIES
     IN  Write([x \in first .. (first + pdp_entries - 1) |->
                  Present(page_buffer_ptr + pml4_pages + pdp_pages + (x - first))])
  /\ Goto("pd")
  /\ UNCHANGED <<mmap, physical_size, page_buffer_ptr, cr3, paging_info, HIGH_MEM_BASE, i>>

fill_pd ==
  /\ pc = "pd"
  /\ LET first == (pml4_pages + pdp_pages) * ENTRIES
     IN  Write([x \in first .. (first + pd_entries - 1) |-> Present((x - first) * ENTRIES)])
  /\ Goto("base")
  /\ UNCHANGED <<mmap, physical_size, page_buffer_ptr, cr3, paging_info, HIGH_MEM_BASE, i>>

(* Mutant: the base is one PML4 entry too low. *)
set_base_low ==
  /\ pc = "base"
  /\ HIGH_MEM_BASE' = (ENTRIES - 1 - pml4_entries) * PML4_SPAN
  /\ paging_info' = [page_buffer |-> Or(page_buffer_ptr, HIGH_MEM_BASE'),
                     pml4_entries |-> pml4_entries]
  /\ cr3' = page_buffer_ptr
  /\ Goto("kernel")
  /\ UNCHANGED <<mmap, physical_size, page_buffer, page_buffer_ptr, i>>

(* The end of platform::init: the base, the kernel header and CR3. *)
set_base ==
  /\ pc = "base"
  /\ HIGH_MEM_BASE' = (ENTRIES - pml4_entries) * PML4_SPAN
  /\ paging_info' = [page_buffer |-> Or(page_buffer_ptr, HIGH_MEM_BASE'),
                     pml4_entries |-> pml4_entries]
  /\ cr3' = page_buffer_ptr
  /\ Goto("kernel")
  /\ UNCHANGED <<mmap, physical_size, page_buffer, page_buffer_ptr, i>>

-----------------------------------------------------------------------------
(* The kernel.                                                             *)

(* main: the header's high_memory_base, ptr_to_kernelspace(null). *)
set_high_mem_base ==
  /\ pc = "kernel"
  /\ HIGH_MEM_BASE' = ptr_to_kernelspace(0)
  /\ Goto("remove")
  /\ UNCHANGED <<mmap, physical_size, page_buffer, page_buffer_ptr, cr3, paging_info, i>>

(* Where a write to pml4.offset(n) ends: the table it changes translates   *)
(* the pointer (HigherHalfMirrors says that it is mapped).                 *)
Target(n) ==
  LET page == Walk(paging_info.page_buffer).addr + (paging_info.page_buffer % ENTRIES)
  IN  (page - page_buffer_ptr) * ENTRIES + n

(* arch::virt_manager::init clears the lower entries through the pointer   *)
(* in the higher half.                                                     *)
remove_entry ==
  /\ pc = "remove" /\ i < paging_info.pml4_entries
  /\ Write([x \in {Target(i)} |-> Absent])
  /\ i' = i + 1
  /\ UNCHANGED <<pc, mmap, physical_size, page_buffer_ptr, cr3, paging_info, HIGH_MEM_BASE>>

(* Mutant: the loop may end one entry early. *)
load_cr3_early ==
  /\ pc = "remove" /\ i >= paging_info.pml4_entries - 1
  /\ cr3' = virt_to_phys(paging_info.page_buffer)
  /\ Goto("done")
  /\ UNCHANGED <<mmap, physical_size, page_buffer, page_buffer_ptr, paging_info,
                 HIGH_MEM_BASE, i>>

(* Writing CR3 drops what the processor remembers of the removed entries. *)
load_cr3 ==
  /\ pc = "remove" /\ i >= paging_info.pml4_entries
  /\ cr3' = virt_to_phys(paging_info.page_buffer)
  /\ Goto("done")
  /\ UNCHANGED <<mmap, physical_size, page_buffer, page_buffer_ptr, paging_info,
                 HIGH_MEM_BASE, i>>

Finished == pc \in {"done", "panicked"} /\ UNCHANGED vars

Init ==
  /\ pc = "init"
  /\ mmap \in MemoryMaps
  /\ physical_size = 0
  /\ page_buffer = <<>>
  /\ page_buffer_ptr = 0
  /\ cr3 = Firmware
  /\ paging_info = [page_buffer |-> 0, pml4_entries |-> 0]
  /\ HIGH_MEM_BASE = 0
  /\ i = 0

Next ==
  \/ init \/ allocate_pages \/ fill_pml4 \/ fill_pdp \/ fill_pd \/ set_base
  \/ set_high_mem_base \/ remove_entry \/ load_cr3
  \/ Finished

Spec == Init /\ [][Next]_vars

-----------------------------------------------------------------------------
(* The properties.                                                         *)

Loaded == cr3 # Firmware

(***************************************************************************)
(* The entries of all three levels stay inside the pages that              *)
(* platform::init allocated for them (its slice is eight times as long, so *)
(* the bounds check would not notice), and CR3 stays on the PML4, also     *)
(* after the kernel has computed it back from the pointer in its header.   *)
(***************************************************************************)
TypeOK ==
  /\ pc \in {"init", "allocate", "pml4", "pdp", "pd", "base", "kernel", "remove", "done",
             "panicked"}
  /\ mmap \in MemoryMaps
  /\ physical_size \in 0 .. (VIRTUAL \div 2 - 1)
  /\ DOMAIN page_buffer = IF pc \in {"init", "allocate", "panicked"}
                          THEN {} ELSE 0 .. (alloc_pages * ENTRIES - 1)
  /\ cr3 \in {Firmware, page_buffer_ptr}
  /\ HIGH_MEM_BASE \in 0 .. (VIRTUAL - 1)
  /\ i \in 0 .. paging_info.pml4_entries

(***************************************************************************)
(* From the switch to the new table until the kernel removes it, the lower *)
(* half is "an identity mapping of physical memory" (paging.rs): every     *)
(* page of the memory map, the last one included, is reached through       *)
(* entries that were written, not through what the buffer held before.     *)
(***************************************************************************)
LowerHalfIdentity ==
  pc = "kernel" => \A p \in Memory : Maps(p, p)

(***************************************************************************)
(* ptr_to_kernelspace and phys_to_virt yield, for every page of memory, an *)
(* address in the higher half that refers to that page, at every moment    *)
(* from the switch on: also while and after the lower half is taken away.  *)
(***************************************************************************)
HigherHalfMirrors ==
  Loaded => \A p \in Memory : Maps(phys_to_virt(p), p)

(* virt_to_phys undoes phys_to_virt, for every page of memory. *)
RoundTrip ==
  Loaded => \A p \in Memory : virt_to_phys(phys_to_virt(p)) = p

(***************************************************************************)
(* After init_virt_manager no page of memory is left in the lower half: a  *)
(* pointer that has not been converted faults instead of working by luck.  *)
(***************************************************************************)
LowerHalfGone ==
  pc = "done" => \A p \in Memory : Walk(p).p = "absent"

=============================================================================
