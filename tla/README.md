# SimpleOS-rs: TLA+ specifications and proofs

SimpleOS-rs is a small x86_64 operating system: a UEFI bootloader that sets up
paging, loads the kernel ELF image and hands over a memory map, and a kernel
that takes over physical memory, the screen and the descriptor tables.  This
directory holds TLA+ models of it, TLC configurations that check them on small
instances, and TLAPS proofs that hold for every value of the constants.

## The system and its parts

| Part | Source | State | Operations | Concurrency | Model |
|---|---|---|---|---|---|
| Physical memory manager | `kernel/src/memory/phys_manager.rs` | free lists, bitmap, list nodes inside the free blocks, the lock | `new`, `add_region`, `free_page`, `free_linear_pages`, `free_pages`, `alloc_page`, `alloc_linear_pages`, `alloc_pages` | several cores, one spin lock | `Buddy`, `PhysManager`, `PageAllocator` |
| Spin lock | `kernel/src/mutex.rs` | one atomic flag | `lock`, `try_lock`, `unlock` by the guard's drop | several cores | `SpinLock` |
| Kernel entry, panic handler | `kernel/src/main.rs` | – | boot order, panic | panics under a lock | boot order in `KernelBoot`; panic loop in `SpinLock`, `PhysManager`, `Terminal` |
| Terminal | `kernel/src/terminal.rs` | cursor, colour, escape mode, framebuffer, lock | `init`, `clear`, `print`, the log macros | several cores, panic and interrupt handlers | `Terminal` |
| Kernel header | `common-structures/src/kernel_header.rs` | memory map, screen, paging info | – | – | memory map in `PhysManager`, screen sizes in `Terminal`, paging fields in `Paging`, how it is filled in `Bootloader` |
| Initial page tables | `bootloader/src/paging.rs` | PML4, PDP, PD entries, high memory base | `init`, `ptr_to_kernelspace` | – | `Paging` |
| Virtual memory manager | `kernel/src/memory/virt_manager.rs`, `kernel/src/arch/x86_64/virt_manager.rs` | high memory base, CR3 | `init`, `phys_to_virt`, `virt_to_phys` | – | `Paging` |
| Descriptor tables | `kernel/src/arch/x86_64/gdt.rs` | GDT slots, one TSS per core | `init`, `init_core`, `set_ist1` | per core | `Gdt`, `KernelBoot` |
| Interrupts | `kernel/src/arch/x86_64/interrupt/` | IDT, handler table, interrupt stacks | `init`, `init_core`, `set_isr_handler`, the stubs | exceptions at any instruction | `Interrupt`; the tables and the stack in `KernelBoot`; the default handler's printing in `Terminal` |
| ELF loader | `bootloader/src/elf.rs` | image and destination buffer | `get_size`, `get_text_addr`, `prepare` | – | `Elf`, in `Bootloader` |
| Bootloader | `bootloader/src/main.rs`, `allocator.rs`, `io.rs`, `platform.rs` | UEFI allocations, memory map | `efi_main` | firmware changes the map between calls | `Bootloader` |
| Image builder | `builder/src/main.rs` | – | runs cargo, writes a disk image | – | not modelled: host-side file I/O |

The bootloader describes memory in a map of segments; the manager carves its
bitmap out of a free segment and adds what is left.  Every later allocation of
the kernel (GDT, TSS, IDT, interrupt stacks) goes through the manager, and the
manager and the terminal are the two users of the spin lock.  A panic anywhere
ends in the panic handler's `loop {}` without unwinding, so a guard that is
alive at that moment is never dropped.

The hazards this code is exposed to, with the line where each one bites and the
properties that cover it, are listed in `PROJECT.json`.

## Modules

- **`Buddy`**: the index arithmetic as pure operators: `get_buddy_index`
  (XOR with one bit), `get_combined_index` (AND NOT), `get_size_order`, and the
  order that `add_region` picks.  Bit operations are written with `\div`, `%`
  and powers of two, so that they can be reasoned about.  `get_size_order(0)`
  subtracts 64 from 63: that panics or wraps, depending on the build, and both
  end in a panic; `NoOrder` stands for all orders that are not an index of
  `free_lists`.
- **`SpinLock`**: the flag and each core's place in the protocol.  A failed
  `try_lock` stores `true` again, as `swap` does.
- **`PhysManager`**: the manager in detail.
- **`PageAllocator`**: what the manager promises: blocks change hands whole and
  aligned, nothing is handed out twice, and a request fails only if no block of
  that size can be made.
- **`Terminal`**: the text screen, the log macros and the lock around `print`.
- **`Paging`**: the page tables the bootloader builds, the processor's walk
  through them, and the kernel's removal of their lower half.
- **`Interrupt`**: the interrupt stubs and the frame they build, on one core.
- **`Gdt`**: the slots of the descriptor table, what `init` writes for a number
  of cores, and what `LTR` finds in them.
- **`KernelBoot`**: `main()` and `init_platform` on top of `PhysManager` and
  `Gdt`: one core runs both, step by step.
- **`Elf`**: `get_size`, `get_text_addr` and `prepare` on a word-addressed
  memory, and what an image says each word has to be.
- **`Bootloader`**: `efi_main` on top of `Elf`, with the firmware's page types.
- **`MCPhysManager`**, **`MCPaging`**, **`MCKernelBoot`**, **`MCBootloader`**:
  memory maps, images and machines for TLC.
- **`BuddyProofs`**: theorems about `Buddy`, and the lemmas about powers of two
  and division that other proofs share.
- **`PhysManagerProofs`** (the inductive invariant of the manager, that a step
  keeps its parts, the safety theorems, the refinement of `SpinLock`),
  **`PhysAllocatorProofs`** (no page is lost, free memory is merged and reachable,
  an allocation gives up only if it must, the bounds of the bitmap, the refinement
  of `PageAllocator`) and **`KernelBootProofs`** (`Gdt` and `KernelBoot`), each
  extending the one before.
- **`TerminalProofs`** (with `SpinLock`), **`InterruptProofs`**, **`PagingProofs`**,
  **`BootloaderProofs`** (with `Elf`): theorems about these.

### How `PhysManager` corresponds to the code

`lock`, `free_lists`, `buddy_map` (as the set of pages whose bit is set) and
`map_bits` are the fields of `PhysMemoryManager` and `InlineStorage`;
`entry_order`, `next` and `prev` are the `FreeEntry` stored in the first bytes
of a page.  Pages are indexes (address >> 12).  `used` is a history variable:
the pages owned outside the manager.  When a block is handed out its three
`FreeEntry` fields become `DIRTY`: from then on the owner may write there.

A step is one round of a loop or one level of a recursion, so two cores could
interleave in the middle of a call if the lock let them:

| Action | Code |
|---|---|
| `New`, `NewPanics` | `InlineStorage::new` and the first part of `PhysMemoryManager::new`; the two `.expect()`s |
| `NextSegment` | the loop over the memory map; writing `INSTANCE` |
| `try_lock`, `unlock` | the `lock()` at the start of each public function, the drop of its guard |
| `add_region`, `FreeNext`, `AllocNext` | the bodies of the public functions: the loops that call `free_block` and `alloc_block` |
| `FreeBlockMerges`, `FreeBlockInserts`, `FreeBlockPanics` | one level of `free_block`: merge and recurse, insert, or the bounds check of the bitmap fails |
| `AllocBlockClimbs`, `AllocBlockPanics` | `alloc_block` going up through empty lists; "Out of physical memory"; an order that is no index |
| `AllocBlockPops`, `AllocBlockSplits`, `AllocBlockReturns` | the block that was found; one split per return; the result |
| `free_page` … `alloc_pages` | the calls, with their arguments |
| `PanicLoop` | a core that panicked |

`push_`, `pop_` and `remove_buddy_list_entry` are the Rust functions of that
name together with the bitmap bit that each of their callers changes in the
same place.  `free_pages` frees the slice in any order.

Clients behave: they free only pages they own, as whole aligned blocks, and two
running calls do not free the same page (`MayFree`).  The manager has no means
to check this and says nothing about other calls.  Requests for 0 pages or for
more than the largest block are allowed: the code answers them with a panic,
and so does the model.

### How `Terminal` corresponds to the code

`locked`, `cursor_x`, `cursor_y`, `color` and `mode` are the fields of `INFO`.
Two contexts can print on each core: its own code and the interrupt handler on
top of it, which must return before the code below it goes on (`Runs`).  No code
disables interrupts, so the handler may start at any step of that code.

| Action | Code |
|---|---|
| `Log` | one of the four macros, without or with an argument |
| `isr_default_handler`, `panic_handler` | their `warning!` and `error!` lines; the return, the endless loop (`PanicLoop`) |
| `write_str`, `Return` | the next `write_str` of a line (a `print()` each), the end of the line |
| `clear` | `clear()`, which takes the lock and overwrites the framebuffer (not in the state) |
| `try_lock`, `unlock` | `lock()` in `print()` and `clear()`, the drop of the guard |
| `print_char` | one character: a colour byte, the start of an escape sequence, a new line or a glyph |

`Line` is what `core::fmt` makes of a macro: one `write_str` per literal and per
argument.  An argument is one string here; formatting may write it in several,
which adds no literal and hence no escape sequence.  `TEXT` stands for every
printable character, and what a glyph looks like is left out.

### How `Paging` corresponds to the code

Addresses count pages of 4096 bytes and a table has `ENTRIES` entries, 512 in
the code.  A table then fills one page and a large page is `ENTRIES` pages, so
all proportions between the levels are those of the code.  `page_buffer` is the
buffer by entry index.  Nothing clears it: an entry that no loop wrote is
`Stale` and may be anything, so no property counts on it, and a walk that ends
in one maps nothing.  The virtual addresses are the 48 bits that are translated.

| Action | Code |
|---|---|
| `init` | `paging::init`: the end of memory from the memory map, cut to 47 bits |
| `allocate_pages` | the sizes of the three levels and the buffer, anywhere in memory |
| `fill_pml4`, `fill_pdp`, `fill_pd` | the three loops |
| `set_base` | `HIGH_MEM_BASE`, the kernel header's `paging_info`, and CR3 |
| `set_high_mem_base` | the start of the kernel's `main` |
| `remove_entry`, `load_cr3` | `arch::virt_manager::init`: each write is translated by the table it changes |

Where the bootloader can panic (no memory, a memory map that grew) it may do so
in the model; freeing its memory-map buffer is assumed to succeed.

### How `Interrupt` corresponds to the code

`memory` and `rsp` are the interrupt stack, word by word; `HANDLERS` and `idt`
are the two tables.  `taken` and `nested` are history variables: the state that
the processor interrupted last, and whether an exception has hit a handler.

| Action | Code |
|---|---|
| `init`, `init_core`, `set_isr_handler` | the functions of that name |
| `deliver` | the processor: five words and, for some vectors, an error code, from the top of the stack (`ist: 1`) |
| `isr_stub` | the `isr!` stub of the vector: a fake error code if it is not marked `error`, the number |
| `isr_common_stub` | the fifteen pushes, the padding, the call |
| `print`, `print_done` | the main code's `print()` takes the lock of the terminal, and drops it |
| `isr_common_handler` | the handler of the number found in the frame: `own_handler`, one that changes the frame, or `isr_default_handler`, whose `warning!` takes the lock |
| `warning` | the line is written and the lock dropped |
| `iretq` | the pops and the return |

The processor's error codes are those of the vectors that exist without control
flow enforcement, SEV-ES and SVM, which the kernel does not enable.  Exceptions
nest only while the handler runs; the gates are interrupt gates, so nothing else
does.  `locked` is the lock of the terminal and says whose it is.  The default
handler cannot take its step while the main code has it, so a handler may stay
where it is for ever; one core is enough for that.  What the line looks like, and
several cores, are in `Terminal`.

### How `Gdt` and `KernelBoot` correspond to the code

A descriptor is its kind and, for the two halves of a TSS descriptor, the core.
`ltr` is the processor: the 16-byte descriptor must be inside the limit of the
core and be two halves of one descriptor.

In `KernelBoot` one core runs `main()` and no other is started; each allocation is a call of
`PhysManager`, whose steps are taken in between (`Manager`); `Returned` is the
return.  `GDT`, `TSS` and `IDT` are the static pointers, as pages; `bitmap` is
where the manager put its bitmap; `gdtr`, `idtr` and `tr` are the registers.

| Action | Code |
|---|---|
| `main`, `init_virt_manager` | the start of `main()`, the manager, the page tables (see `Paging`) |
| `gdt_alloc`, `tss_alloc`, `gdt_init` | `gdt::init(1)`: two allocations and the contents |
| `gdt_init_core` | `gdt::init_core(0)`: `LGDT`, `LTR` |
| `idt_alloc`, `interrupt_init` | `interrupt::init`: the page, the clearing, the 256 gates |
| `stack_alloc`, `interrupt_init_core` | `interrupt::init_core(0)`: the stack, `set_ist1`, `LIDT` |
| `Running` | `loop {}` |

`interrupt_init` clears what the code clears: 4096 entries of 16 bytes, sixteen
pages.  A list node in them gets order 0 and null links, a bit of the bitmap
there is cleared, a GDT becomes all null.  Of pages in use only these contents
are modelled.

### How `Elf` and `Bootloader` correspond to the code

Memory counts words of eight bytes, the size of a relocated word; a dynamic
entry is two and a relocation three of them.  An image is a record of program
headers, sections, entry point and the words of the file.  `ph` and `rela` are
the two loops of `prepare`: a step is one header or one relocation.  The buffer
is reached through the higher half in the code; here it is the same memory, and
only the relocated words have addresses of the higher half.

`types` is the firmware's memory map, page by page, and `objects` the pages of
each thing that the bootloader has allocated.  Each call of a boot service is an
action, named for the line of `efi_main` it is part of; every `expect()` may
fail and ends in the panic handler.  The two `expect()`s and the two checks that
fail if the memory map outgrew its buffer end in `grew`, all others in
`panicked`.  The firmware places an allocation at the bottom or at the top of
what fits (`AnyPages`), and between two calls it may take or return a page of
its own (`Firmware`).  It describes each run of pages of one type by one
descriptor, so allocations and frees lengthen and shorten the map.

| Action | Code |
|---|---|
| `handle_protocols`, `allocate_header`, `set_mode` | the start of `efi_main`, the video mode |
| `paging_size` … `paging_free` | `paging::init`: a temporary map, the page tables (see `Paging`) |
| `read_file`, `allocate_process`, `prepare`, `prepare_panics`, `prepare_returns` | the kernel image |
| `debug_data` | the page at 0x1000, in debug builds |
| `free_file`, `allocate_stack` | the raw image, the stack |
| `mmap_size`, `mmap_allocate`, `mmap_grown`, `exit_boot_services`, `convert` | the last map and its conversion |
| `goto_entrypoint` | the jump, with the stack, the header and the entry point |

## What TLC checks

| Run | Instance | States | Question |
|---|---|---|---|
| `phys_one_core` | 1 core, 8 pages, blocks of 1–4 pages, 7 maps | 195,838 | do lists, bitmap and ownership stay consistent over every sequence of calls |
| `phys_two_cores` | 2 cores, 8 pages, blocks of 1–2 pages, 3 maps | 43,858 | does the lock keep the calls apart, does the manager implement `SpinLock` and `PageAllocator`, what does a panic leave behind, does every call end, who can starve |
| `phys_unaligned_map` | 1 core, maps whose bitmap ends inside a largest block | – | violation, see below |
| `terminal` | 2 cores, one interrupted, 2 macros, 2 by 2 cells | 856,832 | does wrapping keep to the screen, what overlapping lines can and cannot mix up, who can block the terminal |
| `terminal_handler` | 1 core, interrupts | – | violation, see below |
| `paging` | 4 entries per table, 222 memory maps | 13,112 | is every page of memory mapped in both halves, and do the address conversions agree with the table |
| `paging_three_entries` | 8 entries per table, memory in three PML4 entries | – | violation, see below |
| `interrupt` | 10 vectors, 2 of them with handlers, 3 exceptions that nest, the lock of the terminal | 3,754 | is the frame the struct, is the interrupted state restored, what does nesting cost, which handlers end |
| `interrupt_call_alignment` | as above | – | violation, see below |
| `kernel_boot` | 24 pages, blocks of 1–8 pages, 445 maps | 26,573 | do the tables get memory of their own, can interrupts be delivered in the end, does the boot end |
| `kernel_boot_idt` | as above | – | violation, see below |
| `bootloader` | 26 pages of 16 words, 3 images, 3 machines, 2 mode lists, debug and release | 59,234 | is the map handed over right, has each word of the image its value, can the map outgrow its buffer |

**Properties.**  `LinksOK`: the bits, the nodes and the heads agree and no link
leads into memory in use.  `EveryBlockListed`: every free block can be reached
from its list.  `OneOwner`: no page is in two free blocks, or free and in use.
`NothingLost`: used, free and in-flight pages are all the free memory of the
map minus the bitmap.  `FullyMerged`: no two free buddies of the same order.
`OutOfMemoryIsReal`: the out-of-memory panic is true.  `FreeInBounds`: the
bitmap is read out of bounds only while the map is added, and only if it ends
inside a block of the largest order.  `FrozenAfterPanic`: a panic under the
lock freezes the manager.  `StarvedOnlyByOthers`, `CallsEnd`: progress.
`ImplementsSpinLock`, `ImplementsPageAllocator`: refinement.

For the terminal: `PixelsOnScreen`: each glyph is in the framebuffer and out of
the margin.  `EscapesAreWhole`: nobody prints in the middle of an escape
sequence of somebody else.  `ColorHasOwner`: the shared colour is white or that
of an unfinished line, so it is white when all lines are done.
`ImplementsSpinLock`: as above, with contexts in the place of cores.
`StuckOnlyByInterrupt`: a context waits for ever only if others overtake it for
ever or a core was interrupted inside `print()` or `clear()`, with the lock.

For paging: `LowerHalfIdentity` and `HigherHalfMirrors`: each page of memory is
found at its own address until the kernel takes the lower half away, and at its
converted address from the switch of CR3 on, at every step.  `RoundTrip`:
`virt_to_phys` undoes `phys_to_virt`.  `LowerHalfGone`: afterwards no page is
left in the lower half.  `TypeOK` says that all entries fit the pages allocated.

For interrupts: `InfoMatches`: a handler finds every field of `InterruptInfo`
where the struct has it, error code or not.  `StateRestored`: `iretq` gives the
interrupted code its registers and stack back.  `NestingLosesMain`: after an
exception in a handler the main code never runs again, because its frame was
overwritten (`init_core` says so: nesting is "impossible").  `HandlersReturn`:
otherwise it always does, but for one case, the default handler on top of code
that has the lock of the terminal (`HandlerStuck`).

For the kernel's boot: `TablesApart`: GDT, TSS, IDT, interrupt stack and the
blocks at the heads of the free lists share no page.  `InterruptsWork`: when
`main()` is done, an interrupt can be delivered if and only if the GDT is not
among the pages cleared with the IDT.  `BootEnds`: the boot ends in the loop or
in a panic.  `TssOnlyForOneCore`: `init` and `init_core` agree on the
slots for one core and for no core of any larger number.

For the bootloader: `KernelMemoryKept` and `NothingWithheld`: the free memory of
the map is all that the kernel does not need and nothing it needs.
`GrownOnlyByFirmware`: the spare page covers the bootloader's own allocation.
`MapInBuffer`: the converted map does not overwrite its source.  `ImageReady`:
each word of a LOAD segment has its relocated value if the image relocates it, and
else what the file or the padding gives, up to the jump.  `PrepareStaysInside`:
`prepare` writes only to the `get_size` words of its buffer (`KernelWords`).
`BootloaderEnds`: `efi_main` reaches the jump or a panic and is never stuck; that
it does not panic is not said, since the firmware may refuse any page, the one at
0x1000 for a debug build among them.  `BootloaderTypeOK` also says that the allocated
objects are disjoint.

**Bounds.**  `MAX_ORDER` is 8 in the code, 2 or 1 here: two orders above 0 are
enough for a merge that makes another merge possible, and for a split of a
split.  Eight pages hold two blocks of the largest order, so there are merges,
non-merges and fragmentation.  `WORD_BITS` 2 and `WORDS_PER_PAGE` 4 (64 and 512
in the code) make the bitmap need rounding up and take one page, as in a small
machine.  `MAX_COUNT` exceeds the largest block, so that too large requests
happen.  `MAX_BATCH` 2 lets `alloc_pages` run out of memory between two pages
of one slice.  The two-core instance is smaller: interleavings matter there, the
shapes of memory are covered by one core.  The maps have adjacent segments,
holes, segments that are not sorted, a bitmap at different places, no room for
the bitmap and no segment at all.  On the terminal two columns and two rows
wrap in both directions; lines of different macros overlap with two cores already.  With four
entries per table the run `paging` has every end of memory from 17 pages to the
end of the lower half, so every remainder at each of the three levels, one and
two PML4 entries (two are half of the PML4, as 256 are in the code), and the
buffer at each place of the upper segment.  Maps that end at or above the end of
the lower half, where the mask of `paging.rs:64` wraps, are left out.
Three PML4 entries need eight.  The vectors of `interrupt` are those with an error code and their neighbours.
`kernel_boot` has the sizes of the code for what main() does (one page each for
GDT, TSS and IDT, sixteen cleared, four for the stack); its 24 pages let the
cleared pages hit the GDT, the TSS, the bitmap, free blocks and occupied memory,
or miss them, and its smallest maps run out of memory at each allocation.  In
`bootloader` two descriptors fill a page, so one more or less changes the size
of the buffer, as it does now and then with the 85 of a real page; the firmware
acts once, at any time, next to or away from the bootloader's pages, but not
during `prepare`, which makes no call.  The images have relocations in the same
and in another segment, a segment of zeros at the end, a LOAD segment behind the
DYNAMIC one, and a relocation of another type.

**Fairness.**  `FairSpec` has weak fairness for the steps of each core inside
the manager: a core that runs kernel code keeps running, and nothing preempts
it for good.  Calls are not fair, nobody has to call.  A fair `lock()` is *not*
assumed: `try_lock` of a spinning core is always enabled and may always fail,
so a core can be overtaken for ever; `StarvedOnlyByOthers` says that this, or a
panic, is the only way to starve.

In `Terminal`, `FairSpec` has weak fairness for the steps of each context and
none for starting a line or for interrupts.  In `Interrupt`, the code of the
core and of its handlers runs on; interrupts are not fair.  In `KernelBoot` and
`Bootloader` there is one thread, and it is not stopped: its steps are weakly
fair.  The firmware's own steps are not.

**Findings.**  `free_block` reads the buddy's bit before it knows that the buddy
exists (`phys_manager.rs:291`).  If the highest address of the memory map is
not in the last 64-page word of a 256-page block, adding the last region can
read past the bitmap, and the bounds check panics with the lock held.  The doc
of `add_region` (lines 180–181) promises that no alignment is needed.  The run
`phys_unaligned_map` shows the panic; `FreeInBounds` shows that it cannot
happen later, once the manager is up.

`isr_default_handler` is documented to print a warning and return
(`arch/x86_64/interrupt/mod.rs:80`).  If the interrupt hits a core inside
`print()` or `clear()`, the warning waits for the lock that the interrupted code holds, and
neither goes on.  The run `terminal_handler` shows it.

Addresses are converted with OR (`paging.rs:141`, `virt_manager.rs:15`), which is
an addition only if `pml4_entries` is a power of two.  With three entries (a map
that ends between 1 and 1.5 TiB) the addresses from 512 GiB to 1 TiB are
converted to those of the first 512 GiB: `paging_three_entries`.

`isr_common_stub` pads the stack "resulting in the correct alignment"
(`arch/x86_64/interrupt/mod.rs:178-180`), but the frame has an even number of
words and is aligned without the padding: `interrupt_call_alignment`.

`interrupt::init` allocates "exactly one page" for the IDT
(`arch/x86_64/interrupt/mod.rs:13`) and clears 4096 *entries*, sixteen pages
(line 16).  The run `kernel_boot_idt` shows a free list with a zeroed node:
it ends there, so the blocks behind it are lost, and its order is wrong for later
merges.  If the GDT is in those pages, no interrupt can be delivered
(`InterruptsWork`).  What does not happen: the boot never gets the same page twice
(`TablesApart`, proved for every map), and it does not hang in any of the maps of
the run (`BootEnds`).

## What is proved

All proofs are checked by TLAPS.  They hold for every value of the constants
that satisfies the assumptions stated in the modules:

- the manager: every set of cores, `MAX_ORDER`, word size and memory size, and all
  memory maps whose segments are disjoint and below `PAGE_LIMIT`; null and client
  bytes are not page indexes;
- the terminal: every set of cores, and every screen at least as large as its
  margins;
- interrupts: every set of vectors, of vectors with a handler and of vectors that
  may hit a handler;
- paging: tables of 2 to 512 entries, a power of two, and every memory map that
  meets the two conditions below;
- the bootloader: memory of at least two pages (one of them at 0x1000), any page,
  descriptor and stack size, any list of video modes, any number of firmware
  events, and images as a linker makes them (`Linked`, below) whose entry point
  lies inside the image.  `ptr_to_kernelspace` is an OR; `BaseAssumption` says that
  the base has no bit below the end of memory, which makes it the addition that
  `Bootloader` has (`Paging` has the OR itself, and the run
  `paging_three_entries` a machine that breaks the assumption).  No page is
  `LOADER_DATA` at the start: that is what the bootloader allocates, and its own
  image counts as `LOADER_CODE`.  If the firmware used `LOADER_DATA` for more, the
  kernel would not get those pages, and `NothingWithheld` would not hold;
- the kernel's boot: what the manager needs, and any set of cores, one of which
  runs `main()`.

- **`BuddyProofs`**: `MergeIsExact` (a block and its buddy are disjoint, each
  other's buddy, and the combined block is exactly their union), `SplitIsExact`,
  `BlocksNest` (two aligned blocks that overlap are one inside the other),
  `RegionOrderFits`, `SizeOrderIsTight`.  They rest on lemmas about powers of
  two, which the backends treat as opaque: `2^(n+1) = 2 * 2^n` follows from the
  cardinality of power sets, and a least-element lemma stands in for induction.
- **`PhysManagerProofs`**: `TypeCorrect`, `ListsAreConsistent` (`LinksOK`),
  `NoPageHasTwoOwners` (`OneOwner`), `ManagerIsExclusive`,
  `PanicFreezes` (`FrozenAfterPanic`), `UsesSpinLock` (`ImplementsSpinLock`).
- **`PhysAllocatorProofs`**: `NoPageIsLost` (`NothingLost`), `BuddiesAreMerged`
  (`FullyMerged`), `EveryBlockIsReachable` (`EveryBlockListed`), `OutOfMemoryIsTrue` (`OutOfMemoryIsReal`), `ReadsStayInBitmap`
  (`FreeInBounds`), `AllocatesPages` (`ImplementsPageAllocator`).
- **`TerminalProofs`**: for the lock on its own `LockTypes` and `Exclusive`; for the
  terminal `GlyphsStayOnScreen` (`PixelsOnScreen`), `EscapesAreNotTorn`
  (`EscapesAreWhole`), `ColorIsOwned` (`ColorHasOwner`), `PrintsUnderLock`
  (`ImplementsSpinLock`).
- **`KernelBootProofs`**: `OneCoreOnly` (`TssOnlyForOneCore`): with one core the two
  halves of the descriptor are next to each other; with more, the slot that a
  core loads has the low half of another core, or its second slot is not the
  high half, or its TSS was not written.  `TablesAreApart` (`TablesApart`),
  `InterruptsReachStubs` (`InterruptsWork`).
- **`InterruptProofs`**: `InterruptTypes` (`TypeOK`),
  `HandlerSeesFrame` (`InfoMatches`), `IretqRestores` (`StateRestored`),
  `NestedNeverReturns` (`NestingLosesMain`).
- **`PagingProofs`**: `IdentityMapped` (`LowerHalfIdentity`), `HigherHalfMapped`
  (`HigherHalfMirrors`), `ConversionsInverse` (`RoundTrip`), `LowerHalfRemoved`
  (`LowerHalfGone`), `PagingTypes` (`TypeOK`).
- **`BootloaderProofs`**: `ObjectsApart` (`BootloaderTypeOK`), `GrowthIsCovered`
  (`GrownOnlyByFirmware`), `KernelKeepsItsMemory` (`KernelMemoryKept`),
  `NoMemoryIsLost` (`NothingWithheld`), `MapFitsInBuffer` (`MapInBuffer`),
  `KernelIsLoaded` (`ImageReady`), `PrepareIsConfined` (`PrepareStaysInside`).

**The inductive invariant of the manager**, `IInv` (in `PhysManagerProofs`), is needed
because none of its properties is inductive alone.  `OneOwner` at an insert needs `LinksOK` (the node
that was popped has the order of its list) and the alignment of the block a core
works on (`CallOK`); that only one block is worked on needs the lock (`LockOK`);
that a freed block was in use needs `TodoOK` for clients, and for the blocks of
`add_region` that the pages still to be added are in use and disjoint (`BootOK`,
`AddOK`, `MapOK`).  The proof has one lemma per conjunct and one case per action
that can disturb it; `MergeIsExact`, `SplitIsExact` and `RegionOrderFits` carry
the arithmetic, `PushKeepsLinks`, `RemoveKeepsLinks` and `PopKeepsLinks` the
linked lists.

**Memory and refinement.**  The manager's second invariant, `MInv`, adds to `IInv` what
it does with all of its memory:

- `NothingLost`, one case per action that moves pages;
- `FullyMerged`: an insert happens only if the buddy is not free at that order,
  and when a split lists an upper half, the lower half is in the allocator's hands;
- `Ranked`: some number falls along every `prev` link, so the lists have no
  cycles.  It is enough for `EmptyListIsEmpty`: an order whose list is empty has
  no free block at all;
- `Climbed`: the orders that a running `alloc_block` has climbed past have no
  free block;
- `AddedAll`: while the map is added, the pages in use are those still to be
  added, so all memory is free when `INSTANCE` is written;
- `BoundsOK`: the bitmap covers the last page (`NewCovers`); until `INSTANCE` is
  written the buddy of each listed block has a bit, because its insert looked;
  after that, the buddy of every block that memory can form has one.

`OutOfMemoryIsReal` follows along `FreePagesAreOneBlock`: if all pages of an
aligned block are free, they are inside one free block.  Otherwise take the
smallest free block inside them: by `BlocksNest` its buddy is inside too, so the
buddy's first page is in a free block that is not smaller (it is the smallest),
not larger (it would overlap) and not equal (`FullyMerged`).

`EveryBlockListed` says that the recursive `Chain` of an order has all its free
blocks.  `Iteration` shows that a function on the naturals can be defined step by
step, and `WalkDef` that `Chain` is such a walk along `next`.  As long as there is a
node to go on to, the walk has more nodes than it has made steps, so it has stopped
growing when it has made as many as there are free blocks.  A node that it has
missed then, of the lowest rank, would be a head or have a `prev` that was not
missed.  Both arguments take a least counterexample where one would use induction.

`FreePagesAreOneBlock` also carries `FreeInBounds` over the moment `INSTANCE` is written; before
it, `BuddyBelowMultiple` shows that a bitmap of whole largest blocks has the bit of
every buddy.

The refinement maps `used` to `held`, the free segments to `memory`, and the
request of a core that panicked under the lock to `failed`.  `new` is `Create`; a
block that `add_region` or a free call starts to free is `Free`; the return of
the outermost `alloc_block` is `Alloc`; running out of orders is `Exhausted`; both
index panics are `BadRequest`; every other step is a stutter.

**The terminal.**  `TInv` says what is left to print.  Each string still to come is
`Whole`: an escape character has its three bytes behind it, and they are white or
the colour of the line's macro.  In the middle of an escape sequence the context
inside `print()` has the rest of a colour before it (`EscapeOK`), and a colour other
than white belongs to a context with a reset still to print (`ColorOK`).  Without
the reset to come, `ColorHasOwner` is not inductive: nothing would keep a line from
ending in its colour.  `CursorOK` bounds the cursor, and `LockOK` is what
`PrintsUnderLock` and `EscapesAreNotTorn` need of the lock.

**Interrupts.**  `IInv` in `InterruptProofs` describes the stack at each stage: what the
processor pushed (`Hardware`), the error code and the number (`Numbered`), and the
fifteen registers (`Saved`, `Changed` for a handler that has set rax).  After an
exception in a handler, the interrupted code is the handler itself (`Taken`), which
is why no `iretq` gets back to the main code.

**Paging.**  Two conditions on the memory maps are named in `PagingProofs` and are
assumptions of the theorems that need them.  `MapsFit`: memory ends below the end of the
lower half, else the mask cuts its size.  `PowersOfTwo`: memory needs a power of two of
PML4 entries, else OR is not the sum of base and address: `paging_three_entries` shows
what happens otherwise.  `IdentityMapped` needs only the first.  The invariant says
which entries of the three levels are written at each stage (`Building`), and from
the handover to the kernel that the lower half is absent up to entry `i` (`Removing`).  `WalkFinds`
computes the walk from these entries by the uniqueness of quotient and
remainder (`DivUnique`, `DivDiv`, `Place`).  OR and AND are defined by their bits, and
`SameBits` shows that the bits determine a number, so that for a base that is a
multiple of a power of two above the address OR is addition.

**The bootloader.**  `IInv` in `BootloaderProofs` says that objects are disjoint and
that exactly their pages are `LOADER_DATA` (`Sound`), which objects exist at each
stage (`Vacant`, `Placed`), and what the header and registers are computed from (`Located`,
`HandedOver`).  `Measured` is the heart of `GrowthIsCovered`: an allocation splits
at most one run of pages into three, so it adds at most two descriptors, and the extra page
holds at least two (`PER_PAGE >= 2`).  The runs are counted with the theorems on
finite sets.  `NoMemoryIsLost` needs the other half of `Sound`: a page that is
`LOADER_DATA` is in an object.

`KernelIsLoaded` and `PrepareIsConfined` are about `prepare`, which follows tables
that it has itself copied into the buffer.  It checks none of them, so what it
produces depends on the image, and `Linked` (in `Elf`) says what a linker promises:
LOAD segments are inside the file and do not overlap; the table of a DYNAMIC segment
ends; no word has two different relocations; and the words that are relocated, like
both tables, are in LOAD segments that come earlier, the tables not themselves
relocated before they are read.  The images of the run `bootloader` satisfy it, and
TLC evaluates it.  Two conditions are not checked by the code and matter.  If a LOAD
segment came after the DYNAMIC one that relocates its words, `prepare` would copy the
raw words over the relocated ones and leave them so, although its doc
(`elf.rs:57`–58) promises "resolving relocations".  Linkers put the DYNAMIC header
behind the LOADs.  If a table had no zero tag, the loop of `elf.rs:77` would run on
behind it; in the model `prepare_dynamic` is then never enabled (`TableEnds`) and
`BootloaderEnds` would fail.  The loop is one step, because nothing writes to the
table meanwhile.  The invariant, `EInv`, says that each word of the buffer has the
value of the last header that has written it so far (`Filled`), where the headers,
the relocations done and the order are read from the file alone, and that the
relocation loop is at the place of the table that the number left says
(`Relocating`).  The step from the file to the buffer is `SameTable`: the table in
the buffer holds what `Loaded` says, because none of its words is relocated yet,
hence both give the same start and the same number of relocations.  At the end the
last header that has written a word gives its expected value (`LastIsExpected`): the
one relocation, which comes after the word's LOAD, or the LOAD itself.  Every write
is at an address of a LOAD segment, below `get_size`, and the objects' disjointness
(`Sound`) keeps the file intact while it is copied.

**The kernel's boot.**  `BInv` is the manager's `IInv` with `NothingLost` until the
manager is up.  From there on it is not: `interrupt_init` clears nodes of free lists
and bits, so `LinksOK` is lost (`kernel_boot_idt`) and the manager's theorems do not
apply.  What is left is enough for the allocations of `main()`, which never look at
the bitmap, at `entry_order` or at `prev`: there is some assignment `f` of orders to
free blocks that has the heads of the lists and is closed under `next`, no node has
two predecessors (`Linking`), and the blocks of `f` are aligned, disjoint and free
memory (`Apart`).  When a node is cleared, its list just ends there, with the same
`f`; `pop` takes a head out of `f` and a split puts the upper half in.  `Called` says
that `main()` makes one allocation at a time, `Owned` that what it has got is in use
and apart, `Written` what the tables and registers hold.

**Only model-checked**: liveness (`StarvedOnlyByOthers`, `CallsEnd`,
`HandlersReturn`, `BootEnds`, `BootloaderEnds`, `StuckOnlyByInterrupt`), which is out
of the prover's reach.

## Not modelled

Memory ordering of the flag (`Acquire`/`Release` make the protected data visible
in lock order, so interleaving semantics is adequate); the contents of pages
beyond the list nodes, the tables and the kernel image; the address of the framebuffer
(`main.rs:99`), which is up to the firmware; the firmware's own GDT and IDT, which
the processor uses until the kernel's are loaded; `init_secondary_core` and
`allocate_below`, which nothing calls; the image builder; the wording of log lines; the unit tests' `TestStorage`; u64 overflow of
page indexes (2^52 pages).
