--------------------------------- MODULE Gdt ---------------------------------
(***************************************************************************)
(* kernel/src/arch/x86_64/gdt.rs: the descriptor table that init() fills   *)
(* for a number of cores, and what the processor makes of it when          *)
(* init_core() loads the task register.                                    *)
(*                                                                         *)
(* The table is a function of its eight-byte slots.  A slot holds the kind *)
(* of the descriptor and, for the two halves of a TSS descriptor, the core *)
(* whose TSS it points to.                                                 *)
(***************************************************************************)
EXTENDS Integers

CONSTANT MAX_CORES      \* bounds the numbers of cores that are looked at

ASSUME MaxCoresAssumption == MAX_CORES \in Nat

PAGE_SIZE == 4096

PagesFor(bytes) == (bytes + PAGE_SIZE - 1) \div PAGE_SIZE

num_gdt_pages(num_cores) == PagesFor((3 + num_cores * 2) * 8)

num_tss_pages(num_cores) == PagesFor(num_cores * 104)

-----------------------------------------------------------------------------
Descriptor(k, i) == [kind |-> k, core |-> i]

Null == Descriptor("null", 0)
KernelCode == Descriptor("kernel code", 0)
UserCode == Descriptor("user code", 0)
Low(i) == Descriptor("tss low", i)
High(i) == Descriptor("tss high", i)

(* What the page held before, in slots that nobody writes. *)
Unwritten == Descriptor("unwritten", 0)

Slots(num_cores) == 0 .. (2 + num_cores * 2)

(***************************************************************************)
(* init: the null and the two code descriptors, then one round per core.   *)
(* Round i writes the two halves of a TSS descriptor to the slots 3 + i    *)
(* and 4 + i, so that every round but the last loses its second half.      *)
(***************************************************************************)
gdt_entries(num_cores) ==
  [s \in Slots(num_cores) |->
     CASE s = 0 -> Null
       [] s = 1 -> KernelCode
       [] s = 2 -> UserCode
       [] s \in 3 .. (2 + num_cores) -> Low(s - 3)
       [] s = 3 + num_cores -> High(num_cores - 1)
       [] OTHER -> Unwritten]

(* Every round writes its TSS to the start of the TSS memory. *)
tss_written == {0}

-----------------------------------------------------------------------------
(* Mutant: the second half of the last descriptor is outside the limit. *)
limit_short(core_id) == (4 + 2 * core_id) * 8 - 1

(* The last byte of the table that is accessible to a core. *)
limit(core_id) == (5 + 2 * core_id) * 8 - 1

(* The slots of the selector that init_core() gives to LTR. *)
tss_slot(core_id) == 3 + core_id * 2

Fault == -2

(***************************************************************************)
(* LTR on a table: the core whose TSS the 16-byte descriptor points to, or *)
(* a fault if it is outside the limit or not the two halves of one.        *)
(***************************************************************************)
ltr(entries, core_id) ==
  LET s == tss_slot(core_id)
  IN  IF /\ (s + 2) * 8 - 1 <= limit(core_id)
         /\ entries[s].kind = "tss low"
         /\ entries[s + 1] = High(entries[s].core)
      THEN entries[s].core ELSE Fault

(* After init(num_cores) the core loads its own TSS, which was written. *)
HasTss(num_cores, core_id) ==
  /\ ltr(gdt_entries(num_cores), core_id) = core_id
  /\ core_id \in tss_written

(***************************************************************************)
(* init() and init_core() fit together for a single core, and for no core  *)
(* of any larger number: the descriptor "takes up two GDT entry slots",    *)
(* but every round of init() advances by one.                              *)
(***************************************************************************)
TssOnlyForOneCore ==
  \A n \in 1 .. MAX_CORES : \A c \in 0 .. (n - 1) : HasTss(n, c) <=> n = 1

=============================================================================
