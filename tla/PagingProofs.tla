------------------------------ MODULE PagingProofs ----------------------------
(***************************************************************************)
(* The initial page table for tables of every size and every memory map    *)
(* that fits into the lower half: what the walk finds for the addresses of *)
(* both halves, and that the kernel removes the one and keeps the other.   *)
(***************************************************************************)
EXTENDS Paging, BuddyProofs

USE ZenonT(60), SMTT(60)

-----------------------------------------------------------------------------
(* Sizes.                                                                  *)

(* A table has an even number of entries. *)
LEMMA Entries == ENTRIES \in Nat /\ ENTRIES >= 2 /\ \E h \in Nat : h >= 1 /\ ENTRIES = 2 * h
<1>1. PICK k \in 1 .. 9 : ENTRIES = 2^k
  BY EntriesAssumption
<1>2. k - 1 \in Nat /\ (k - 1) + 1 = k
  BY SMTT(60)
<1>3. 2^k = 2 * 2^(k - 1) /\ 2^(k - 1) \in Nat /\ 2^(k - 1) >= 1
  BY <1>2, Pow2Succ, Pow2Pos
<1> QED BY SMTT(60), <1>1, <1>3

(* What an entry of each level spans, and half of the virtual addresses is *)
(* what half of the PML4's entries span.                                   *)
LEMMA Spans ==
  /\ PDP_SPAN \in Nat /\ PDP_SPAN >= 1
  /\ PML4_SPAN \in Nat /\ PML4_SPAN >= 1
  /\ VIRTUAL \in Nat
  /\ \E h \in Nat : h >= 1 /\ ENTRIES = 2 * h /\ VIRTUAL \div 2 = h * PML4_SPAN
<1>1. \A x, y \in Nat : x >= 1 /\ y >= 1 => x * y \in Nat /\ x * y >= 1
  <2> TAKE x, y \in Nat
  <2> HAVE x >= 1 /\ y >= 1
  <2>1. PICK e \in Nat : x = 1 + e
    BY SMTT(60), x - 1 \in Nat
  <2>2. x * y = y + e * y /\ e * y \in Nat
    BY SMTT(60), <2>1
  <2> QED BY SMTT(60), <2>2
<1>2. PDP_SPAN \in Nat /\ PDP_SPAN >= 1
  BY SMTT(60), <1>1, Entries DEF PDP_SPAN
<1>3. PML4_SPAN \in Nat /\ PML4_SPAN >= 1
  BY SMTT(60), <1>1, <1>2, Entries DEF PML4_SPAN
<1>4. PICK h \in Nat : h >= 1 /\ ENTRIES = 2 * h
  BY Entries
<1>5. VIRTUAL = (h * PML4_SPAN) * 2 /\ h * PML4_SPAN \in Nat
  BY SMTT(60), <1>3, <1>4 DEF VIRTUAL
<1>6. VIRTUAL \div 2 = h * PML4_SPAN
  BY SMTT(60), <1>5, DivOfMultiple
<1> QED BY SMTT(60), <1>2, <1>3, <1>4, <1>5, <1>6

(* The pages of a level have room for its entries. *)
LEMMA Room ==
  ASSUME NEW n \in Nat, n >= 1
  PROVE  /\ TablesFor(n) \in Nat /\ TablesFor(n) * ENTRIES >= n
         /\ n <= ENTRIES => TablesFor(n) = 1
<1> DEFINE x == n + ENTRIES - 1
           t == x \div ENTRIES
<1>1. x \in Nat /\ x = n + ENTRIES - 1
  BY SMTT(60), Entries
<1> HIDE DEF x
<1>e. ENTRIES \in Nat /\ ENTRIES >= 1
  BY SMTT(60), Entries
<1>2. /\ t \in Nat /\ x % ENTRIES \in Nat /\ x % ENTRIES < ENTRIES
      /\ x = t * ENTRIES + (x % ENTRIES)
  BY <1>1, <1>e, DivMod
<1>3. TablesFor(n) = t
  BY DEF TablesFor, x
<1> HIDE DEF t
<1>4. t * ENTRIES \in Nat
  BY SMTT(60), <1>2, Entries
<1>5. t * ENTRIES >= n
  BY SMTT(60), <1>1, <1>2, <1>4, Entries
<1>6. ASSUME n <= ENTRIES PROVE t = 1
  <2>1. n - 1 \in Nat /\ n - 1 < ENTRIES /\ x = 1 * ENTRIES + (n - 1)
    BY SMTT(60), <1>1, <1>6, Entries
  <2>2. (1 * ENTRIES + (n - 1)) \div ENTRIES = 1
    BY SMTT(60), <2>1, Entries, DivUnique
  <2> QED BY <2>1, <2>2 DEF t
<1> QED BY <1>2, <1>3, <1>5, <1>6
-----------------------------------------------------------------------------
(* The inductive invariant.                                                *)

(* The page behind the last one of a memory map. *)
EndOf(m) == Max({0} \cup {m[s].start + m[s].page_count : s \in DOMAIN m})

(* Memory fits into the lower half, so that nothing of its size is cut off. *)
MapsFit == \A m \in MemoryMaps : EndOf(m) < VIRTUAL \div 2

(* It ends in a PML4 entry before which there is a power of two of them,   *)
(* less one: the base then has no bit in common with an address.           *)
PowersOfTwo == \A m \in MemoryMaps : \E j \in Nat : EndOf(m) \div PML4_SPAN + 1 = 2^j

(* The buffer has the pages that were asked for, in memory. *)
Buffer ==
  /\ DOMAIN page_buffer = 0 .. (alloc_pages * ENTRIES - 1)
  /\ page_buffer_ptr \in Memory

(* The entries of the three levels; `removed` of the PML4 are cleared. *)
Pml4(removed) ==
  \A a \in 0 .. (pml4_entries - 1) :
    /\ page_buffer[a] = IF a < removed THEN Absent ELSE Present(page_buffer_ptr + 1 + a)
    /\ page_buffer[ENTRIES - pml4_entries + a] = Present(page_buffer_ptr + 1 + a)

(* The entries of the page directory pointers, behind the PML4, *)
Pdp ==
  \A y \in 0 .. (pdp_entries - 1) :
    page_buffer[ENTRIES + y] = Present(page_buffer_ptr + 1 + pdp_pages + y)

(* and of the page directories, each of which maps ENTRIES pages. *)
Pd ==
  \A z \in 0 .. (pd_entries - 1) :
    page_buffer[(1 + pdp_pages) * ENTRIES + z] = Present(z * ENTRIES)

(* Until the kernel has its base from the header. *)
Building ==
  /\ pc \in {"init", "allocate", "pml4", "pdp", "pd", "base", "kernel", "remove", "done",
             "panicked"}
  /\ mmap \in MemoryMaps
  /\ physical_size \in {0, end_of_memory}
  /\ pc \notin {"init", "panicked"} => physical_size = end_of_memory
  /\ pc \in {"init", "allocate", "panicked"} => DOMAIN page_buffer = {}
  /\ pc \in {"pml4", "pdp", "pd", "base", "kernel"} => Buffer
  /\ pc \in {"pdp", "pd", "base", "kernel"} => Pml4(0)
  /\ pc \in {"pd", "base", "kernel"} => Pdp
  /\ pc \in {"base", "kernel"} => Pd
  /\ pc \in {"kernel", "remove"} => cr3 = page_buffer_ptr
  /\ pc \in {"kernel", "remove", "done"} =>
       /\ paging_info.pml4_entries = pml4_entries
       /\ paging_info.page_buffer = Or(page_buffer_ptr, (ENTRIES - pml4_entries) * PML4_SPAN)
  /\ pc \notin {"kernel", "remove", "done"} =>
       cr3 = Firmware /\ HIGH_MEM_BASE = 0 /\ paging_info.pml4_entries = 0
  /\ pc = "kernel" => HIGH_MEM_BASE = (ENTRIES - pml4_entries) * PML4_SPAN
  /\ pc \notin {"remove", "done"} => i = 0

(* And from then on. *)
Removing ==
  /\ pc \in {"remove", "done"} =>
       /\ HIGH_MEM_BASE = (ENTRIES - pml4_entries) * PML4_SPAN
       /\ cr3 = page_buffer_ptr
       /\ Buffer /\ Pml4(i) /\ Pdp /\ Pd
       /\ i \in 0 .. pml4_entries
  /\ pc = "done" => i = pml4_entries

(* The inductive invariant.  What the kernel finds in the bits of an       *)
(* address is only what the bootloader put there for sizes that            *)
(* PowersOfTwo allows.                                                     *)
IInv == Building /\ (PowersOfTwo => Removing)

-----------------------------------------------------------------------------
(* Bits.                                                                   *)

(* 1 << (a + b) *)
LEMMA Pow2Add ==
  ASSUME NEW a \in Nat, NEW b \in Nat
  PROVE  2^(a + b) = 2^a * 2^b
<1> DEFINE Bad == {n \in Nat : 2^(a + n) # 2^a * 2^n}
<1>1. SUFFICES ASSUME Bad # {} PROVE FALSE
  OBVIOUS
<1>2. PICK m \in Bad : \A k \in Bad : m <= k
  BY <1>1, MinNat
<1>3. CASE m = 0
  <2>1. 2^0 = 1 /\ a + 0 = a /\ 2^a \in Nat
    BY SMTT(60), Pow2Nat
  <2>2. 2^(a + 0) = 2^a * 2^0
    BY SMTT(60), <2>1
  <2> QED BY <1>2, <1>3, <2>2
<1>4. CASE m > 0
  <2>1. m - 1 \in Nat /\ m - 1 \notin Bad
    BY SMTT(60), <1>2, <1>4
  <2>2. 2^(a + (m - 1)) = 2^a * 2^(m - 1)
    BY <2>1
  <2>3. 2^((m - 1) + 1) = 2 * 2^(m - 1)
    BY <2>1, Pow2Succ
  <2>4. 2^((a + (m - 1)) + 1) = 2 * 2^(a + (m - 1))
    BY SMTT(60), <2>1, Pow2Succ
  <2>5. (m - 1) + 1 = m /\ (a + (m - 1)) + 1 = a + m
    BY SMTT(60), <2>1
  <2>6. 2^a \in Nat /\ 2^(m - 1) \in Nat
    BY <2>1, Pow2Nat
  <2>7. 2 * (2^a * 2^(m - 1)) = 2^a * (2 * 2^(m - 1))
    BY SMTT(60), <2>6
  <2>8. 2^(a + m) = 2^a * 2^m
    BY <2>2, <2>3, <2>4, <2>5, <2>7
  <2> QED BY <1>2, <2>8
<1> QED BY SMTT(60), <1>2, <1>3, <1>4

(* The virtual addresses have BITS bits, and the spans are powers of two. *)
LEMMA Width ==
  /\ BITS \in Nat /\ VIRTUAL = 2^BITS
  /\ \E k \in Nat : PML4_SPAN = 2^k
<1>1. PICK k \in 1 .. 9 : ENTRIES = 2^k /\ BITS = 4 * k
  <2> DEFINE c == CHOOSE k \in 1 .. 9 : ENTRIES = 2^k
  <2>1. c \in 1 .. 9 /\ ENTRIES = 2^c
    BY EntriesAssumption
  <2>2. BITS = 4 * c
    BY Zenon DEF BITS
  <2> QED BY <2>1, <2>2
<1>2. k \in Nat /\ k + k \in Nat /\ k + (k + k) \in Nat /\ k + (k + (k + k)) = 4 * k
  BY SMTT(60)
<1>3. 2^(k + k) = 2^k * 2^k
  BY <1>2, Pow2Add
<1>4. 2^(k + (k + k)) = 2^k * 2^(k + k)
  BY <1>2, Pow2Add
<1>5. 2^(k + (k + (k + k))) = 2^k * 2^(k + (k + k))
  BY <1>2, Pow2Add
<1>6. PDP_SPAN = 2^(k + k)
  BY <1>1, <1>3 DEF PDP_SPAN
<1>7. PML4_SPAN = 2^(k + (k + k))
  BY <1>1, <1>4, <1>6 DEF PML4_SPAN
<1>8. VIRTUAL = 2^BITS
  BY <1>1, <1>2, <1>5, <1>7 DEF VIRTUAL
<1> QED BY SMTT(60), <1>1, <1>2, <1>7, <1>8

(* A number below 2^w is known from its first w bits. *)
LEMMA SameBits ==
  ASSUME NEW w \in Nat, NEW x \in 0 .. (2^w - 1), NEW y \in 0 .. (2^w - 1),
         \A k \in 0 .. (w - 1) : BitAt(x, k) = BitAt(y, k)
  PROVE  x = y
<1> DEFINE T == {k \in Nat : x \div 2^k = y \div 2^k}
<1>0. 2^w \in Nat /\ 2^w >= 1 /\ x \in Nat /\ y \in Nat /\ x < 2^w /\ y < 2^w
  BY SMTT(60), Pow2Pos
<1>1. w \in T
  <2>1. \A z \in Nat : z < 2^w => z \div 2^w = 0
    <3> TAKE z \in Nat
    <3> HAVE z < 2^w
    <3>1. 0 * 2^w + z = z
      BY SMTT(60), <1>0
    <3>2. (0 * 2^w + z) \div 2^w = 0
      BY <1>0, DivUnique
    <3> QED BY <3>1, <3>2
  <2> QED BY <1>0, <2>1
<1>2. PICK m \in T : \A k \in T : m <= k
  BY <1>1, MinNat
<1>3. m \in Nat /\ m <= w /\ x \div 2^m = y \div 2^m
  BY <1>1, <1>2
<1>4. CASE m = 0
  <2>1. 2^m = 1
    BY SMTT(60), <1>4
  <2>2. \A z \in Nat : z \div 1 = z
    BY SMTT(60)
  <2> QED BY <1>0, <1>3, <2>1, <2>2
<1>5. CASE m > 0
  <2>1. m - 1 \in Nat /\ m - 1 \in 0 .. (w - 1) /\ (m - 1) + 1 = m
    BY SMTT(60), <1>3, <1>5
  <2> DEFINE d == 2^(m - 1)
  <2>2. d \in Nat /\ d >= 1 /\ 2^m = 2 * d
    BY <2>1, Pow2Pos, Pow2Succ
  <2>3. BitAt(x, m - 1) = BitAt(y, m - 1)
    BY <2>1
  <2>4. (x \div d) % 2 = (y \div d) % 2
    BY <2>3 DEF BitAt
  <2> HIDE DEF d
  <2>5. x \div (2 * d) = (x \div d) \div 2 /\ y \div (2 * d) = (y \div d) \div 2
    <3>1. 2 \in Nat /\ 2 >= 1
      BY SMTT(60)
    <3>2. d \in Nat /\ d >= 1 /\ x \in Nat /\ y \in Nat
      BY <1>0, <2>2
    <3>3. \A z \in Nat : z \div (2 * d) = (z \div d) \div 2
      <4> TAKE z \in Nat
      <4> QED BY SMTT(60), <3>1, <3>2, DivDiv
    <3> QED BY <3>2, <3>3
  <2>6. (x \div d) \div 2 = (y \div d) \div 2
    BY <1>3, <2>2, <2>5
  <2>7. x \div d \in Nat /\ y \div d \in Nat
    BY <1>0, <2>2, DivMod
  <2>8. \A u, v \in Nat : u \div 2 = v \div 2 /\ u % 2 = v % 2 => u = v
    BY SMTT(60)
  <2>9. x \div d = y \div d
    BY <2>4, <2>6, <2>7, <2>8
  <2>10. m - 1 \in T
    BY <2>1, <2>9 DEF d
  <2> QED BY SMTT(60), <1>2, <1>3, <2>1, <2>10
<1> QED BY SMTT(60), <1>3, <1>4, <1>5

(* A bit is 0 or 1. *)
LEMMA BitType ==
  ASSUME NEW x \in Nat, NEW k \in Nat
  PROVE  BitAt(x, k) \in {0, 1}
<1>1. 2^k \in Nat /\ 2^k >= 1
  BY Pow2Pos
<1>2. x \div 2^k \in Nat
  BY <1>1, DivMod
<1>3. \A q \in Nat : q % 2 \in {0, 1}
  BY SMTT(60)
<1> QED BY <1>2, <1>3 DEF BitAt

(* A multiple of 2^m has no bit below the m-th, *)
LEMMA LowBits ==
  ASSUME NEW m \in Nat, NEW c \in Nat, NEW k \in 0 .. (m - 1)
  PROVE  BitAt(c * 2^m, k) = 0
<1> DEFINE j == m - k - 1
           d == 2^k
           f == 2^j
<1>1. j \in Nat /\ k \in Nat /\ (k + j) + 1 = m /\ k + j \in Nat
  BY SMTT(60)
<1>2. 2^(k + j) = d * f /\ 2^((k + j) + 1) = 2 * 2^(k + j)
  BY <1>1, Pow2Add, Pow2Succ
<1>3. 2^m = 2 * (d * f) /\ d \in Nat /\ d >= 1 /\ f \in Nat
  BY <1>1, <1>2, Pow2Pos
<1> HIDE DEF d, f, j
<1>4. c * (2 * (d * f)) = ((c * f) * 2) * d /\ c * f \in Nat /\ (c * f) * 2 \in Nat
  BY SMTT(60), <1>3
<1>5. (((c * f) * 2) * d) \div d = (c * f) * 2
  BY <1>3, <1>4, DivOfMultiple
<1>6. \A q \in Nat : (q * 2) % 2 = 0
  BY SMTT(60)
<1>7. (c * 2^m) \div d = (c * f) * 2
  BY <1>3, <1>4, <1>5
<1> QED BY <1>4, <1>6, <1>7 DEF BitAt, d

(* and a number below 2^m none from there on. *)
LEMMA HighBits ==
  ASSUME NEW m \in Nat, NEW c \in Nat, NEW p \in Nat, p < 2^m, NEW k \in Nat, k >= m
  PROVE  BitAt(p + c * 2^m, k) = BitAt(c * 2^m, k) /\ BitAt(p, k) = 0
<1> DEFINE d == 2^m
           j == k - m
           f == 2^j
<1>1. j \in Nat /\ m + j = k /\ k - m = j
  BY SMTT(60)
<1>2. 2^(m + j) = d * f /\ d \in Nat /\ d >= 1 /\ f \in Nat /\ f >= 1 /\ p < d
  BY <1>1, Pow2Add, Pow2Pos
<1>3. 2^k = d * f
  BY <1>1, <1>2
<1> HIDE DEF d, f, j
<1>4. 2^k = f * d
  BY SMTT(60), <1>2, <1>3
<1>5. 0 * d + p = p /\ (0 * d + p) \div d = 0
  BY SMTT(60), <1>2, DivUnique
<1>6. (p + c * d) \div d = p \div d + c
  BY <1>2, DivAdd
<1>7. p \div d = 0 /\ (p + c * d) \div d = c /\ (c * d) \div d = c /\ p + c * d \in Nat /\ c * d \in Nat
  BY SMTT(60), <1>2, <1>5, <1>6, DivOfMultiple
<1>8. ASSUME NEW x \in Nat
      PROVE  x \div (f * d) = (x \div d) \div f
  <2>1. d \in Nat /\ d >= 1 /\ f \in Nat /\ f >= 1
    BY <1>2
  <2> QED BY <2>1, DivDiv
<1>9. (p + c * d) \div 2^k = c \div f /\ (c * d) \div 2^k = c \div f /\ p \div 2^k = 0 \div f
  BY <1>4, <1>7, <1>8
<1>10. 0 \div f = 0 /\ 0 % 2 = 0
  BY SMTT(60), <1>2
<1> QED BY <1>9, <1>10 DEF BitAt, d

(* Below a multiple of 2^m that it does not reach, OR adds a number and    *)
(* AND NOT takes it back.                                                  *)
LEMMA BaseBits ==
  ASSUME NEW m \in Nat, NEW c \in Nat, NEW p \in Nat, p < 2^m,
         NEW b, b = c * 2^m, p + b < VIRTUAL
  PROVE  Or(p, b) = p + b /\ And(p + b, b) = b
<1>1. BITS \in Nat /\ VIRTUAL = 2^BITS /\ 2^m \in Nat /\ b \in Nat /\ p + b \in Nat
  BY SMTT(60), Width, Pow2Nat
<1>2. \A k \in Nat : k < m \/ k >= m
  BY SMTT(60)
<1>3. ASSUME NEW k \in 0 .. (BITS - 1)
      PROVE  /\ BitAt(p, k) * BitAt(b, k) = 0
             /\ BitAt(p + b, k) * BitAt(b, k) = BitAt(b, k)
  <2>0. k \in Nat
    BY SMTT(60)
  <2>1. BitAt(b, k) \in {0, 1} /\ BitAt(p, k) \in {0, 1} /\ BitAt(p + b, k) \in {0, 1}
    BY <2>0, <1>1, BitType
  <2>2. CASE k < m
    <3>1. BitAt(b, k) = 0
      BY SMTT(60), <2>0, <2>2, LowBits
    <3> QED BY SMTT(60), <2>1, <3>1
  <2>3. CASE k >= m
    <3>1. BitAt(p + b, k) = BitAt(b, k) /\ BitAt(p, k) = 0
      BY SMTT(60), <2>0, <2>3, HighBits
    <3> QED BY SMTT(60), <2>1, <3>1
  <2> QED BY <2>0, <2>2, <2>3, <1>2
<1>4. ASSUME NEW k \in Nat PROVE BitAt(0, k) = 0
  <2>1. 2^k \in Nat /\ 2^k >= 1
    BY Pow2Pos
  <2>2. 0 \div 2^k = 0 /\ 0 % 2 = 0
    BY SMTT(60), <2>1
  <2> QED BY <2>2 DEF BitAt
<1>5. And(p, b) = 0
  <2> DEFINE Q(z) == \A k \in 0 .. (BITS - 1) : BitAt(z, k) = BitAt(p, k) * BitAt(b, k)
  <2>1. 0 \in 0 .. p /\ Q(0)
    BY SMTT(60), <1>1, <1>3, <1>4
  <2>2. ASSUME NEW z \in 0 .. p, Q(z) PROVE z = 0
    <3>1. z \in 0 .. (2^BITS - 1) /\ 0 \in 0 .. (2^BITS - 1)
      BY SMTT(60), <1>1
    <3>2. \A k \in 0 .. (BITS - 1) : BitAt(z, k) = BitAt(0, k)
      BY SMTT(60), <1>1, <1>3, <1>4, <2>2
    <3> QED BY <1>1, <3>1, <3>2, SameBits
  <2>3. And(p, b) = CHOOSE z \in 0 .. p : Q(z)
    BY Zenon DEF And
  <2> HIDE DEF Q
  <2> QED BY <2>1, <2>2, <2>3
<1>6. And(p + b, b) = b
  <2> DEFINE Q(z) == \A k \in 0 .. (BITS - 1) : BitAt(z, k) = BitAt(p + b, k) * BitAt(b, k)
  <2>1. b \in 0 .. (p + b) /\ Q(b)
    BY SMTT(60), <1>1, <1>3
  <2>2. ASSUME NEW z \in 0 .. (p + b), Q(z) PROVE z = b
    <3>1. z \in 0 .. (2^BITS - 1) /\ b \in 0 .. (2^BITS - 1)
      BY SMTT(60), <1>1
    <3>2. \A k \in 0 .. (BITS - 1) : BitAt(z, k) = BitAt(b, k)
      BY <1>1, <1>3, <2>2
    <3> QED BY <1>1, <3>1, <3>2, SameBits
  <2>3. And(p + b, b) = CHOOSE z \in 0 .. (p + b) : Q(z)
    BY Zenon DEF And
  <2> HIDE DEF Q
  <2> QED BY <2>1, <2>2, <2>3
<1> QED BY SMTT(60), <1>1, <1>5, <1>6 DEF Or

(* The largest element of a set of naturals that is bounded. *)
LEMMA MaxNat ==
  ASSUME NEW S \in SUBSET Nat, 0 \in S, NEW u \in Nat, \A x \in S : x <= u
  PROVE  Max(S) \in S /\ \A x \in S : x <= Max(S)
<1> DEFINE U == {v \in Nat : \A x \in S : x <= v}
<1>1. PICK v \in U : \A x \in U : v <= x
  BY MinNat
<1>2. v \in S
  <2>1. CASE v = 0
    BY <2>1
  <2>2. CASE v > 0 /\ v \notin S
    <3>1. v - 1 \in U
      BY SMTT(60), <1>1, <2>2
    <3> QED BY SMTT(60), <3>1, <1>1
  <2> QED BY SMTT(60), <1>1, <2>1, <2>2
<1>3. \A y \in S : v >= y
  BY <1>1
<1> DEFINE P(x) == \A y \in S : x >= y
<1>4. Max(S) = CHOOSE x \in S : P(x)
  BY Zenon DEF Max
<1>5. v \in S /\ P(v)
  BY <1>2, <1>3
<1> HIDE DEF P
<1>6. Max(S) \in S /\ P(Max(S))
  BY <1>4, <1>5
<1>7. \A x \in S : Max(S) >= x
  BY <1>6 DEF P
<1> QED BY <1>6, <1>7

(* The segments of a map are below its end. *)
LEMMA SegmentsBelow ==
  ASSUME NEW m \in MemoryMaps
  PROVE  /\ EndOf(m) \in Nat
         /\ \A s \in DOMAIN m : /\ m[s].start \in Nat /\ m[s].page_count \in Nat
                                /\ m[s].start + m[s].page_count <= EndOf(m)
<1> DEFINE e(s) == m[s].start + m[s].page_count
           S == {0} \cup {e(s) : s \in DOMAIN m}
           B(n, u) == \A s \in 1 .. n : e(s) <= u
           Bad == {n \in 0 .. Len(m) : \A u \in Nat : ~ B(n, u)}
<1>1. m \in Seq([start : Nat, page_count : Nat])
  BY MapsAssumption
<1>2. Len(m) \in Nat /\ DOMAIN m = 1 .. Len(m)
  BY SMTT(60), <1>1
<1>3. \A s \in 1 .. Len(m) : m[s].start \in Nat /\ m[s].page_count \in Nat
  <2> DEFINE R == [start : Nat, page_count : Nat]
  <2>1. m \in Seq(R)
    BY <1>1
  <2>2. \A x \in R : x.start \in Nat /\ x.page_count \in Nat
    OBVIOUS
  <2> HIDE DEF R
  <2>3. \A s \in 1 .. Len(m) : m[s] \in R
    BY SMTT(60), <2>1
  <2> QED BY <2>2, <2>3
<1>4. \A s \in 1 .. Len(m) : e(s) \in Nat
  BY SMTT(60), <1>3
<1> HIDE DEF e
<1>5. \E u \in Nat : B(Len(m), u)
  <2>0. Len(m) \in 0 .. Len(m)
    BY SMTT(60), <1>2
  <2> SUFFICES ASSUME Bad # {} PROVE FALSE
    BY <2>0
  <2>1. Bad \in SUBSET Nat
    BY SMTT(60), <1>2
  <2>2. PICK n \in Bad : \A k \in Bad : n <= k
    BY <2>1, MinNat
  <2>3. CASE n = 0
    <3>1. B(0, 0)
      BY SMTT(60)
    <3> QED BY <2>2, <2>3, <3>1
  <2>4. CASE n > 0
    <3>0. n \in 0 .. Len(m) /\ ~ (n <= n - 1)
      BY SMTT(60), <1>2, <2>2
    <3>1. n - 1 \in 0 .. Len(m) /\ n \in 1 .. Len(m)
      BY SMTT(60), <1>2, <2>4, <3>0
    <3>a. n - 1 \notin Bad
      BY <2>2, <3>0
    <3>2. PICK u \in Nat : B(n - 1, u)
      BY <3>1, <3>a
    <3>3. e(n) \in Nat
      BY <1>4, <3>1
    <3>4. B(n, u + e(n)) /\ u + e(n) \in Nat
      <4>0. \A x, y \in Nat : x + y \in Nat /\ \A z \in Nat : z <= x => z <= x + y
        BY SMTT(60)
      <4>1. ASSUME NEW s \in 1 .. n PROVE e(s) <= u + e(n)
        <5>1. s = n \/ s \in 1 .. (n - 1)
          BY SMTT(60), <3>1
        <5>2. s \in 1 .. Len(m)
          BY SMTT(60), <1>2, <3>1
        <5>3. e(s) \in Nat
          BY <1>4, <5>2
        <5>4. CASE s = n
          BY SMTT(60), <3>3, <5>4
        <5>5. CASE s \in 1 .. (n - 1)
          <6>1. e(s) <= u
            BY <3>2, <5>5
          <6> QED BY <3>2, <3>3, <4>0, <5>3, <6>1
        <5> QED BY <5>1, <5>4, <5>5
      <4>2. u + e(n) \in Nat
        BY <3>2, <3>3, <4>0
      <4> QED BY <4>1, <4>2
    <3> QED BY <2>2, <3>4
  <2> QED BY SMTT(60), <2>2, <2>3, <2>4, <1>2
<1>6. PICK u \in Nat : B(Len(m), u)
  BY <1>5
<1>7. S \in SUBSET Nat /\ 0 \in S /\ \A x \in S : x <= u
  BY SMTT(60), <1>2, <1>4, <1>6
<1>8. EndOf(m) = Max(S)
  BY Zenon DEF EndOf, e
<1>9. \A s \in DOMAIN m : e(s) \in S
  OBVIOUS
<1> HIDE DEF S, B
<1>10. Max(S) \in S /\ \A x \in S : x <= Max(S)
  BY <1>7, MaxNat
<1>11. EndOf(m) \in Nat /\ \A s \in DOMAIN m : e(s) <= EndOf(m)
  BY <1>7, <1>8, <1>9, <1>10
<1> QED BY <1>2, <1>3, <1>11 DEF e

-----------------------------------------------------------------------------
(* What the tables need.                                                   *)

(* The size of memory that fits is not cut. *)
LEMMA SizeKept ==
  ASSUME MapsFit, mmap \in MemoryMaps
  PROVE  /\ end_of_memory = EndOf(mmap)
         /\ end_of_memory \in Nat /\ end_of_memory < VIRTUAL \div 2
         /\ cut(end_of_memory) = end_of_memory
<1>1. end_of_memory = EndOf(mmap)
  BY Zenon DEF end_of_memory, EndOf
<1>2. EndOf(mmap) \in Nat /\ EndOf(mmap) < VIRTUAL \div 2
  BY SegmentsBelow DEF MapsFit
<1>3. VIRTUAL \div 2 \in Nat
  BY SMTT(60), Spans
<1>4. \A x, y \in Nat : x < y => x % y = x
  <2> TAKE x, y \in Nat
  <2> HAVE x < y
  <2>1. 0 * y + x = x /\ y >= 1
    BY SMTT(60)
  <2>2. (0 * y + x) % y = x
    BY <2>1, DivUnique
  <2> QED BY <2>1, <2>2
<1> QED BY <1>1, <1>2, <1>3, <1>4 DEF cut

(* The size for which the tables are made. *)
Fits == physical_size \in Nat /\ physical_size < VIRTUAL \div 2

(* Each level needs an entry, and the PML4 at most half of its entries. *)
LEMMA Counts ==
  ASSUME Fits
  PROVE  /\ pml4_entries \in Nat /\ pml4_entries >= 1
         /\ pml4_entries + pml4_entries <= ENTRIES
         /\ pdp_entries \in Nat /\ pdp_entries >= 1
         /\ pd_entries \in Nat /\ pd_entries >= 1
<1>1. PICK h \in Nat : h >= 1 /\ ENTRIES = 2 * h /\ VIRTUAL \div 2 = h * PML4_SPAN
  BY Spans
<1>2. physical_size \in Nat /\ physical_size < h * PML4_SPAN
  BY <1>1 DEF Fits
<1>3. /\ PML4_SPAN \in Nat /\ PML4_SPAN >= 1 /\ PDP_SPAN \in Nat /\ PDP_SPAN >= 1
      /\ ENTRIES \in Nat /\ ENTRIES >= 1
  BY SMTT(60), Spans, Entries
<1>4. physical_size \div PML4_SPAN < h
  BY <1>2, <1>3, DivBelow
<1>5. /\ physical_size \div PML4_SPAN \in Nat
      /\ physical_size \div PDP_SPAN \in Nat
      /\ physical_size \div ENTRIES \in Nat
  BY <1>2, <1>3, DivMod
<1> DEFINE x == physical_size \div PML4_SPAN
           y == physical_size \div PDP_SPAN
           z == physical_size \div ENTRIES
<1>6. pml4_entries = x + 1 /\ pdp_entries = y + 1 /\ pd_entries = z + 1
  BY DEF pml4_entries, pdp_entries, pd_entries
<1> HIDE DEF x, y, z
<1>7. x \in Nat /\ x < h /\ y \in Nat /\ z \in Nat
  BY <1>4, <1>5 DEF x, y, z
<1> QED BY SMTT(60), <1>1, <1>6, <1>7

(* Where the levels are in the buffer, and that each of them has room. *)
LEMMA Layout ==
  ASSUME Fits
  PROVE  /\ pml4_pages = 1 /\ pdp_pages \in Nat /\ pd_pages \in Nat /\ alloc_pages \in Nat
         /\ alloc_pages * ENTRIES = (1 + pdp_pages) * ENTRIES + pd_pages * ENTRIES
         /\ (1 + pdp_pages) * ENTRIES = ENTRIES + pdp_pages * ENTRIES
         /\ pdp_pages * ENTRIES \in Nat /\ pdp_entries <= pdp_pages * ENTRIES
         /\ pd_pages * ENTRIES \in Nat /\ pd_entries <= pd_pages * ENTRIES
<1>1. /\ pml4_entries \in Nat /\ pml4_entries >= 1 /\ pml4_entries <= ENTRIES
      /\ pdp_entries \in Nat /\ pdp_entries >= 1 /\ pd_entries \in Nat /\ pd_entries >= 1
      /\ ENTRIES \in Nat
  BY SMTT(60), Counts, Entries
<1>2. pml4_pages = 1
  BY <1>1, Room DEF pml4_pages
<1>3. pdp_pages \in Nat /\ pdp_pages * ENTRIES >= pdp_entries
  BY <1>1, Room DEF pdp_pages
<1>4. pd_pages \in Nat /\ pd_pages * ENTRIES >= pd_entries
  BY <1>1, Room DEF pd_pages
<1>5. alloc_pages = (1 + pdp_pages) + pd_pages
  BY <1>2 DEF alloc_pages
<1>6. \A x, y, e \in Nat : /\ ((1 + x) + y) * e = (1 + x) * e + y * e
                           /\ (1 + x) * e = e + x * e /\ x * e \in Nat /\ y * e \in Nat
  BY SMTT(60)
<1> QED BY SMTT(60), <1>1, <1>2, <1>3, <1>4, <1>5, <1>6

(* A page of memory has an entry at each level. *)
LEMMA PageHasEntries ==
  ASSUME MapsFit, mmap \in MemoryMaps, physical_size = end_of_memory, NEW p \in Memory
  PROVE  /\ p \in Nat /\ p < physical_size
         /\ p \div PML4_SPAN \in 0 .. (pml4_entries - 1)
         /\ p \div PDP_SPAN \in 0 .. (pdp_entries - 1)
         /\ p \div ENTRIES \in 0 .. (pd_entries - 1)
<1>1. PICK s \in DOMAIN mmap : p \in mmap[s].start .. (mmap[s].start + mmap[s].page_count - 1)
  BY DEF Memory, Pages
<1>2. /\ mmap[s].start \in Nat /\ mmap[s].page_count \in Nat
      /\ mmap[s].start + mmap[s].page_count <= end_of_memory /\ end_of_memory \in Nat
  BY SegmentsBelow, SizeKept
<1>3. p \in Nat /\ p < physical_size /\ physical_size \in Nat
  BY SMTT(60), <1>1, <1>2
<1>4. /\ PML4_SPAN \in Nat /\ PML4_SPAN >= 1 /\ PDP_SPAN \in Nat /\ PDP_SPAN >= 1
      /\ ENTRIES \in Nat /\ ENTRIES >= 1
  BY SMTT(60), Spans, Entries
<1>5. ASSUME NEW d \in Nat, d >= 1
      PROVE  p \div d \in 0 .. (physical_size \div d + 1 - 1)
  <2>1. p \div d \in Nat /\ physical_size \div d \in Nat /\ p \div d <= physical_size \div d
    BY SMTT(60), <1>3, <1>5, DivMono
  <2> DEFINE x == p \div d
             y == physical_size \div d
  <2>2. x \in Nat /\ y \in Nat /\ x <= y
    BY <2>1
  <2> HIDE DEF x, y
  <2>3. x \in 0 .. (y + 1 - 1)
    BY SMTT(60), <2>2
  <2> QED BY <2>3 DEF x, y
<1> QED BY SMTT(60), <1>3, <1>4, <1>5 DEF pml4_entries, pdp_entries, pd_entries

-----------------------------------------------------------------------------
(* The walk.                                                               *)

LEMMA EntryIs ==
  ASSUME page_buffer_ptr \in Nat, ENTRIES \in Nat, NEW t \in Nat, NEW slot \in Nat,
         NEW x, t * ENTRIES + slot = x, x \in DOMAIN page_buffer
  PROVE  Entry(page_buffer_ptr + t, slot) = page_buffer[x]
<1>1. (page_buffer_ptr + t) - page_buffer_ptr = t
  BY SMTT(60)
<1> QED BY <1>1 DEF Entry

(* The fields of an entry that is present. *)
LEMMA PresentIs ==
  ASSUME NEW a
  PROVE  Present(a).p = "present" /\ Present(a).addr = a
BY DEF Present

(* An address whose PML4 entry is that of a page of memory, and which is   *)
(* like that page below it, refers to the page.                            *)
LEMMA WalkFinds ==
  ASSUME MapsFit, mmap \in MemoryMaps, physical_size = end_of_memory, Fits,
         Buffer, Pdp, Pd, cr3 = page_buffer_ptr,
         NEW p \in Memory, NEW virt,
         virt \div PML4_SPAN \in 0 .. (ENTRIES - 1),
         page_buffer[virt \div PML4_SPAN] = Present(page_buffer_ptr + 1 + p \div PML4_SPAN),
         (virt \div PDP_SPAN) % ENTRIES = (p \div PDP_SPAN) % ENTRIES,
         (virt \div ENTRIES) % ENTRIES = (p \div ENTRIES) % ENTRIES,
         virt % ENTRIES = p % ENTRIES
  PROVE  Maps(virt, p) /\ Walk(virt).addr + (virt % ENTRIES) = p
<1> DEFINE a == p \div PML4_SPAN
           y == p \div PDP_SPAN
           z == p \div ENTRIES
           v == virt \div PML4_SPAN
<1>1. /\ p \in Nat /\ a \in 0 .. (pml4_entries - 1) /\ y \in 0 .. (pdp_entries - 1)
      /\ z \in 0 .. (pd_entries - 1)
  BY PageHasEntries
<1>2. /\ PML4_SPAN \in Nat /\ PML4_SPAN >= 1 /\ PDP_SPAN \in Nat /\ PDP_SPAN >= 1
      /\ ENTRIES \in Nat /\ ENTRIES >= 1
  BY SMTT(60), Spans, Entries
<1>3. a = y \div ENTRIES /\ y = z \div ENTRIES
  <2>1. p \div (ENTRIES * PDP_SPAN) = (p \div PDP_SPAN) \div ENTRIES
    BY <1>1, <1>2, DivDiv
  <2>2. p \div (ENTRIES * ENTRIES) = (p \div ENTRIES) \div ENTRIES
    BY <1>1, <1>2, DivDiv
  <2> QED BY <2>1, <2>2 DEF PML4_SPAN, PDP_SPAN
<1>4. page_buffer_ptr \in Nat
  BY PageHasEntries DEF Buffer
<1>5. v \in 0 .. (ENTRIES - 1) /\ page_buffer[v] = Present(page_buffer_ptr + 1 + a)
  OBVIOUS
<1>6. z % ENTRIES \in Nat /\ y % ENTRIES \in Nat /\ p % ENTRIES \in Nat
      /\ p = z * ENTRIES + (p % ENTRIES) /\ y \in Nat /\ z \in Nat /\ a \in Nat
  <2>1. y \in Nat /\ z \in Nat /\ a \in Nat
    BY <1>1, <1>2, DivMod
  <2> HIDE DEF y, a
  <2>2. p % ENTRIES \in Nat /\ p = z * ENTRIES + (p % ENTRIES)
    BY <1>1, <1>2, DivMod
  <2> HIDE DEF z
  <2>3. z % ENTRIES \in Nat /\ y % ENTRIES \in Nat
    BY <1>2, <2>1, DivMod
  <2> QED BY <2>1, <2>2, <2>3
<1>7. Walk(virt) = Follow(Follow(Entry(cr3, v), y % ENTRIES), z % ENTRIES)
  BY DEF Walk
<1>8. virt % ENTRIES = p % ENTRIES
  OBVIOUS
<1> HIDE DEF a, y, z, v
<1>9. DOMAIN page_buffer = 0 .. (alloc_pages * ENTRIES - 1)
  BY DEF Buffer
<1>10. ENTRIES + y \in DOMAIN page_buffer /\ page_buffer[ENTRIES + y] = Present(page_buffer_ptr + 1 + pdp_pages + y)
  <2>1. ENTRIES + y \in 0 .. (alloc_pages * ENTRIES - 1)
    BY SMTT(60), <1>1, <1>2, <1>6, Layout, Counts
  <2> QED BY <1>1, <1>9, <2>1 DEF Pdp
<1>11. /\ (1 + pdp_pages) * ENTRIES + z \in DOMAIN page_buffer
       /\ page_buffer[(1 + pdp_pages) * ENTRIES + z] = Present(z * ENTRIES)
  <2>1. (1 + pdp_pages) * ENTRIES + z \in 0 .. (alloc_pages * ENTRIES - 1)
    BY SMTT(60), <1>1, <1>2, <1>6, Layout, Counts
  <2> QED BY <1>1, <1>9, <2>1 DEF Pd
<1>12. v \in DOMAIN page_buffer /\ v \in Nat
  <2>1. alloc_pages * ENTRIES \in Nat /\ alloc_pages * ENTRIES >= ENTRIES
    BY SMTT(60), <1>2, Layout
  <2> HIDE DEF v
  <2> QED BY SMTT(60), <1>2, <1>5, <1>9, <2>1
<1>13. Entry(cr3, v) = Present(page_buffer_ptr + 1 + a)
  <2>1. 0 * ENTRIES + v = v /\ page_buffer_ptr + 0 = page_buffer_ptr
    BY SMTT(60), <1>2, <1>4, <1>12
  <2>2. Entry(page_buffer_ptr + 0, v) = page_buffer[v]
    BY SMTT(60), <1>2, <1>4, <1>12, <2>1, EntryIs
  <2> QED BY <1>5, <2>1, <2>2
<1>14. Follow(Entry(cr3, v), y % ENTRIES) = Present(page_buffer_ptr + 1 + pdp_pages + y)
  <2>1. Follow(Entry(cr3, v), y % ENTRIES) = Entry(page_buffer_ptr + 1 + a, y % ENTRIES)
    BY <1>13, PresentIs DEF Follow
  <2>2. (1 + a) * ENTRIES + (y % ENTRIES) = 1 * ENTRIES + y
    <3>1. 1 \in Nat /\ y \in Nat /\ ENTRIES \in Nat /\ ENTRIES >= 1
      BY <1>2, <1>6
    <3>2. (1 + y \div ENTRIES) * ENTRIES + (y % ENTRIES) = 1 * ENTRIES + y
      BY <3>1, Place
    <3> QED BY <1>3, <3>2
  <2>3. (1 + a) * ENTRIES + (y % ENTRIES) = ENTRIES + y /\ 1 + a \in Nat
    BY SMTT(60), <1>2, <1>6, <2>2
  <2>4. Entry(page_buffer_ptr + (1 + a), y % ENTRIES) = page_buffer[ENTRIES + y]
    <3> DEFINE t == 1 + a
               slot == y % ENTRIES
    <3>1. t \in Nat /\ slot \in Nat /\ t * ENTRIES + slot = ENTRIES + y
      BY <1>6, <2>3
    <3> HIDE DEF t, slot
    <3>2. Entry(page_buffer_ptr + t, slot) = page_buffer[ENTRIES + y]
      BY <1>2, <1>4, <1>10, <3>1, EntryIs
    <3> QED BY <3>2 DEF t, slot
  <2>5. page_buffer_ptr + (1 + a) = page_buffer_ptr + 1 + a
    BY SMTT(60), <1>4, <1>6
  <2> QED BY <1>10, <2>1, <2>4, <2>5
<1>15. Walk(virt) = Present(z * ENTRIES)
  <2>1. Walk(virt) = Entry(page_buffer_ptr + 1 + pdp_pages + y, z % ENTRIES)
    BY <1>7, <1>14, PresentIs DEF Follow
  <2>2. pdp_pages \in Nat
    BY Layout
  <2>3. ((1 + pdp_pages) + y) * ENTRIES + (z % ENTRIES) = (1 + pdp_pages) * ENTRIES + z
    <3>1. 1 + pdp_pages \in Nat /\ z \in Nat /\ ENTRIES \in Nat /\ ENTRIES >= 1
      BY SMTT(60), <1>2, <1>6, <2>2
    <3>2. ((1 + pdp_pages) + z \div ENTRIES) * ENTRIES + (z % ENTRIES) = (1 + pdp_pages) * ENTRIES + z
      BY <3>1, Place
    <3> QED BY <1>3, <3>2
  <2>4. (1 + pdp_pages) + y \in Nat
    BY SMTT(60), <1>6, <2>2
  <2>5. Entry(page_buffer_ptr + ((1 + pdp_pages) + y), z % ENTRIES) = page_buffer[(1 + pdp_pages) * ENTRIES + z]
    <3> DEFINE t == (1 + pdp_pages) + y
               slot == z % ENTRIES
    <3>1. t \in Nat /\ slot \in Nat /\ t * ENTRIES + slot = (1 + pdp_pages) * ENTRIES + z
      BY <1>6, <2>3, <2>4
    <3> HIDE DEF t, slot
    <3>2. Entry(page_buffer_ptr + t, slot) = page_buffer[(1 + pdp_pages) * ENTRIES + z]
      BY SMTT(60), <1>2, <1>4, <1>11, <3>1, EntryIs
    <3> QED BY <3>2 DEF t, slot
  <2>6. page_buffer_ptr + ((1 + pdp_pages) + y) = page_buffer_ptr + 1 + pdp_pages + y
    BY SMTT(60), <1>4, <1>6, <2>2
  <2> QED BY <1>11, <2>1, <2>5, <2>6
<1> QED BY <1>6, <1>8, <1>15, PresentIs DEF Maps

(* Every page of memory in the lower half, *)
LEMMA LowerMaps ==
  ASSUME MapsFit, mmap \in MemoryMaps, physical_size = end_of_memory, Fits,
         Buffer, Pml4(0), Pdp, Pd, cr3 = page_buffer_ptr, NEW p \in Memory
  PROVE  Maps(p, p)
<1> DEFINE a == p \div PML4_SPAN
<1>1. a \in 0 .. (pml4_entries - 1)
  BY PageHasEntries
<1>2. a \in 0 .. (ENTRIES - 1)
  <2> HIDE DEF a
  <2> QED BY SMTT(60), <1>1, Counts, Entries
<1>3. page_buffer[a] = Present(page_buffer_ptr + 1 + a)
  <2> HIDE DEF a
  <2>1. ~ (a < 0)
    BY SMTT(60), <1>1
  <2> QED BY <1>1, <2>1 DEF Pml4
<1> QED BY <1>2, <1>3, WalkFinds

(* The address that the first PML4 entry of the upper half stands for. *)
Base == (ENTRIES - pml4_entries) * PML4_SPAN

(* It is an address, *)
LEMMA BaseType ==
  ASSUME Fits
  PROVE  ENTRIES - pml4_entries \in Nat /\ Base \in Nat
<1>1. ENTRIES - pml4_entries \in Nat
  BY SMTT(60), Counts, Entries
<1> QED BY SMTT(60), <1>1, Spans DEF Base

(* and in the upper one, however many entries are removed from the lower. *)
LEMMA UpperMaps ==
  ASSUME MapsFit, mmap \in MemoryMaps, physical_size = end_of_memory, Fits,
         Buffer, NEW k, Pml4(k), Pdp, Pd, cr3 = page_buffer_ptr, NEW p \in Memory
  PROVE  Maps(p + Base, p) /\ Walk(p + Base).addr + ((p + Base) % ENTRIES) = p
<1> DEFINE a == p \div PML4_SPAN
           u == ENTRIES - pml4_entries
           y == p \div PDP_SPAN
           z == p \div ENTRIES
<1>1. a \in 0 .. (pml4_entries - 1) /\ p \in Nat /\ y \in Nat /\ z \in Nat
  BY SMTT(60), PageHasEntries
<1>2. /\ PML4_SPAN \in Nat /\ PML4_SPAN >= 1 /\ PDP_SPAN \in Nat /\ PDP_SPAN >= 1
      /\ ENTRIES \in Nat /\ ENTRIES >= 1 /\ u \in Nat
  BY SMTT(60), Spans, Entries, BaseType
<1>3. Base = u * PML4_SPAN
  BY DEF Base
<1>4. pml4_entries \in Nat /\ ENTRIES = u + pml4_entries
  BY SMTT(60), <1>2, Counts
<1> HIDE DEF u
<1>5. Base = (u * ENTRIES) * PDP_SPAN /\ u * ENTRIES \in Nat
  BY SMTT(60), <1>2, <1>3 DEF PML4_SPAN
<1>6. Base = ((u * ENTRIES) * ENTRIES) * ENTRIES /\ (u * ENTRIES) * ENTRIES \in Nat
  BY SMTT(60), <1>2, <1>5 DEF PDP_SPAN
<1>7. (p + Base) \div PML4_SPAN = a + u
  BY <1>1, <1>2, <1>3, DivAdd
<1>8. ((p + Base) \div PDP_SPAN) % ENTRIES = y % ENTRIES
  <2>1. (p + Base) \div PDP_SPAN = y + u * ENTRIES
    BY <1>1, <1>2, <1>5, DivAdd
  <2> HIDE DEF y
  <2>2. y \in Nat /\ u \in Nat /\ ENTRIES \in Nat /\ ENTRIES >= 1
    BY <1>1, <1>2
  <2>3. (y + u * ENTRIES) % ENTRIES = y % ENTRIES
    BY <2>2, DivAdd
  <2> QED BY <2>1, <2>3
<1>9. ((p + Base) \div ENTRIES) % ENTRIES = z % ENTRIES /\ (p + Base) % ENTRIES = p % ENTRIES
  <2> DEFINE c == u * ENTRIES
             d == c * ENTRIES
  <2>0. c \in Nat /\ d \in Nat /\ Base = d * ENTRIES
    BY <1>5, <1>6
  <2> HIDE DEF c, d
  <2>1. p \in Nat /\ d \in Nat /\ ENTRIES \in Nat /\ ENTRIES >= 1
    BY <1>1, <1>2, <2>0
  <2>2. (p + d * ENTRIES) \div ENTRIES = z + d /\ (p + d * ENTRIES) % ENTRIES = p % ENTRIES
    BY <2>1, DivAdd
  <2> HIDE DEF z
  <2>3. z \in Nat /\ c \in Nat /\ ENTRIES \in Nat /\ ENTRIES >= 1
    BY <1>1, <1>2, <2>0
  <2>4. (z + c * ENTRIES) % ENTRIES = z % ENTRIES
    BY <2>3, DivAdd
  <2> QED BY <2>0, <2>2, <2>4 DEF d
<1>10. a + u \in 0 .. (ENTRIES - 1)
  <2> HIDE DEF a
  <2> QED BY SMTT(60), <1>1, <1>2, <1>4
<1>11. page_buffer[a + u] = Present(page_buffer_ptr + 1 + a)
  <2> HIDE DEF a
  <2>1. page_buffer[ENTRIES - pml4_entries + a] = Present(page_buffer_ptr + 1 + a)
    BY <1>1 DEF Pml4
  <2>2. ENTRIES - pml4_entries + a = a + u
    BY SMTT(60), <1>1, <1>2, <1>4
  <2> QED BY <2>1, <2>2
<1> HIDE DEF Base
<1> QED BY <1>7, <1>8, <1>9, <1>10, <1>11, WalkFinds

(* An address up to the end of memory is below the base's lowest bit. *)
LEMMA Below ==
  ASSUME Fits, NEW p \in Nat, p <= physical_size
  PROVE  p < pml4_entries * PML4_SPAN
<1> DEFINE x == physical_size \div PML4_SPAN
           r == physical_size % PML4_SPAN
<1>1. PML4_SPAN \in Nat /\ PML4_SPAN >= 1 /\ physical_size \in Nat
  BY Spans DEF Fits
<1>2. x \in Nat /\ r \in Nat /\ r < PML4_SPAN /\ physical_size = x * PML4_SPAN + r
  BY <1>1, DivMod
<1>3. pml4_entries = x + 1
  BY DEF pml4_entries
<1> HIDE DEF x, r
<1>4. (x + 1) * PML4_SPAN = x * PML4_SPAN + PML4_SPAN /\ x * PML4_SPAN \in Nat
  BY SMTT(60), <1>1, <1>2
<1> QED BY SMTT(60), <1>1, <1>2, <1>3, <1>4

(* The OR of ptr_to_kernelspace and phys_to_virt adds the base. *)
LEMMA OrAdds ==
  ASSUME MapsFit, PowersOfTwo, mmap \in MemoryMaps, physical_size = end_of_memory, Fits,
         NEW p \in Nat, p <= physical_size
  PROVE  Or(p, Base) = p + Base /\ And(p + Base, Base) = Base
<1>1. PICK j \in Nat : pml4_entries = 2^j
  BY SizeKept DEF PowersOfTwo, pml4_entries
<1>2. PICK k \in Nat : PML4_SPAN = 2^k
  BY Width
<1>3. PICK e \in Nat : ENTRIES = 2^e
  BY SMTT(60), EntriesAssumption
<1>4. pml4_entries \in Nat /\ pml4_entries >= 1 /\ pml4_entries + pml4_entries <= ENTRIES
      /\ ENTRIES \in Nat /\ PML4_SPAN \in Nat /\ PML4_SPAN >= 1
  BY Counts, Entries, Spans
<1>5. j <= e
  <2> SUFFICES ASSUME e < j PROVE FALSE
    BY SMTT(60)
  <2>1. 2^e <= 2^j
    BY SMTT(60), Pow2Mono
  <2> QED BY SMTT(60), <1>1, <1>3, <1>4, <2>1
<1>6. PICK q \in Nat : q >= 1 /\ 2^e = q * 2^j
  BY <1>5, Pow2Divides
<1>7. q - 1 \in Nat /\ ENTRIES - pml4_entries = (q - 1) * pml4_entries
  BY SMTT(60), <1>1, <1>3, <1>4, <1>6
<1>8. 2^(j + k) = pml4_entries * PML4_SPAN /\ j + k \in Nat
  BY SMTT(60), <1>1, <1>2, Pow2Add
<1>9. Base = (q - 1) * 2^(j + k)
  <2>1. ((q - 1) * pml4_entries) * PML4_SPAN = (q - 1) * (pml4_entries * PML4_SPAN)
    BY SMTT(60), <1>4, <1>7
  <2> QED BY <1>7, <1>8, <2>1 DEF Base
<1>10. p < 2^(j + k)
  BY <1>8, Below
<1>11. p + Base < VIRTUAL
  <2> DEFINE u == ENTRIES - pml4_entries
  <2>1. u \in Nat /\ ENTRIES = u + pml4_entries
    BY SMTT(60), <1>4, BaseType
  <2> HIDE DEF u
  <2>2. ENTRIES * PML4_SPAN = u * PML4_SPAN + pml4_entries * PML4_SPAN
    BY SMTT(60), <1>4, <2>1
  <2>3. u * PML4_SPAN \in Nat /\ pml4_entries * PML4_SPAN \in Nat
    BY SMTT(60), <1>4, <2>1
  <2>4. Base = u * PML4_SPAN
    BY DEF Base, u
  <2>5. p < pml4_entries * PML4_SPAN
    BY Below
  <2> QED BY SMTT(60), <2>2, <2>3, <2>4, <2>5 DEF VIRTUAL
<1> HIDE DEF Base
<1> DEFINE m == j + k
           c == q - 1
<1>12. m \in Nat /\ c \in Nat /\ p < 2^m /\ Base = c * 2^m /\ p + Base < VIRTUAL
  BY <1>7, <1>8, <1>9, <1>10, <1>11
<1> HIDE DEF m, c
<1> QED BY SMTT(60), <1>12, BaseBits

-----------------------------------------------------------------------------
(* The steps.                                                              *)

LEMMA SameSizes ==
  ASSUME physical_size' = physical_size, mmap' = mmap
  PROVE  /\ pml4_entries' = pml4_entries /\ pdp_entries' = pdp_entries
         /\ pd_entries' = pd_entries /\ pml4_pages' = pml4_pages /\ pdp_pages' = pdp_pages
         /\ pd_pages' = pd_pages /\ alloc_pages' = alloc_pages
         /\ Memory' = Memory /\ end_of_memory' = end_of_memory /\ Base' = Base
BY DEF pml4_entries, pdp_entries, pd_entries, pml4_pages, pdp_pages, pd_pages, alloc_pages,
       Memory, end_of_memory, Base

(* The size is that of the memory map, once it is known. *)
LEMMA Known ==
  ASSUME MapsFit, Building
  PROVE  /\ Fits
         /\ pc \notin {"init", "panicked"} => physical_size = end_of_memory
<1>1. end_of_memory \in Nat /\ end_of_memory < VIRTUAL \div 2
  BY SizeKept DEF Building
<1>2. physical_size \in {0, end_of_memory}
  BY DEF Building
<1>3. PICK h \in Nat : h >= 1 /\ VIRTUAL \div 2 = h * PML4_SPAN
  BY Spans
<1>4. 0 < VIRTUAL \div 2
  BY SMTT(60), <1>1, Spans
<1> QED BY SMTT(60), <1>1, <1>2, <1>4 DEF Fits, Building

(* The buffer after some of its entries are written. *)
LEMMA WriteIs ==
  ASSUME NEW w, Write(w), DOMAIN w \subseteq DOMAIN page_buffer
  PROVE  /\ DOMAIN page_buffer' = DOMAIN page_buffer
         /\ \A x \in DOMAIN page_buffer :
              page_buffer'[x] = IF x \in DOMAIN w THEN w[x] ELSE page_buffer[x]
BY DEF Write

(* The entries that are not written stay. *)
LEMMA PdpFrame ==
  ASSUME physical_size' = physical_size, mmap' = mmap, page_buffer_ptr' = page_buffer_ptr,
         \A y \in 0 .. (pdp_entries - 1) : page_buffer'[ENTRIES + y] = page_buffer[ENTRIES + y],
         Pdp
  PROVE  Pdp'
BY SameSizes DEF Pdp, Present

(* The same of the page directories, *)
LEMMA PdFrame ==
  ASSUME physical_size' = physical_size, mmap' = mmap, page_buffer_ptr' = page_buffer_ptr,
         \A z \in 0 .. (pd_entries - 1) : page_buffer'[(1 + pdp_pages) * ENTRIES + z]
                                            = page_buffer[(1 + pdp_pages) * ENTRIES + z],
         Pd
  PROVE  Pd'
BY SameSizes DEF Pd, Present

(* and of the PML4. *)
LEMMA Pml4Frame ==
  ASSUME Fits, NEW k, physical_size' = physical_size, mmap' = mmap,
         page_buffer_ptr' = page_buffer_ptr,
         \A x \in 0 .. (ENTRIES - 1) : page_buffer'[x] = page_buffer[x],
         Pml4(k)
  PROVE  \A a \in 0 .. (pml4_entries' - 1) :
           /\ page_buffer'[a] = IF a < k THEN Absent ELSE Present(page_buffer_ptr' + 1 + a)
           /\ page_buffer'[ENTRIES - pml4_entries' + a] = Present(page_buffer_ptr' + 1 + a)
<1>1. pml4_entries' = pml4_entries
  BY SameSizes
<1>2. \A a \in 0 .. (pml4_entries - 1) :
        a \in 0 .. (ENTRIES - 1) /\ ENTRIES - pml4_entries + a \in 0 .. (ENTRIES - 1)
  BY SMTT(60), Counts, Entries
<1> QED BY <1>1, <1>2 DEF Pml4

(* Where the levels lie. *)
LEMMA Places ==
  ASSUME Fits, Buffer
  PROVE  /\ 0 .. (ENTRIES - 1) \subseteq DOMAIN page_buffer
         /\ \A y \in 0 .. (pdp_entries - 1) :
              /\ ENTRIES + y \in DOMAIN page_buffer
              /\ ENTRIES + y >= ENTRIES /\ ENTRIES + y < (1 + pdp_pages) * ENTRIES
         /\ \A z \in 0 .. (pd_entries - 1) :
              /\ (1 + pdp_pages) * ENTRIES + z \in DOMAIN page_buffer
              /\ (1 + pdp_pages) * ENTRIES + z >= (1 + pdp_pages) * ENTRIES
         /\ (1 + pdp_pages) * ENTRIES \in Nat /\ (1 + pdp_pages) * ENTRIES >= ENTRIES
<1> DEFINE A == alloc_pages * ENTRIES
           F == (1 + pdp_pages) * ENTRIES
           P == pdp_pages * ENTRIES
           Q == pd_pages * ENTRIES
<1>1. /\ A = F + Q /\ F = ENTRIES + P /\ P \in Nat /\ Q \in Nat /\ ENTRIES \in Nat
      /\ pdp_entries <= P /\ pd_entries <= Q /\ pdp_entries \in Nat /\ pd_entries \in Nat
      /\ pdp_entries >= 1 /\ pd_entries >= 1
  BY Layout, Counts, Entries
<1>2. DOMAIN page_buffer = 0 .. (A - 1)
  BY DEF Buffer
<1> HIDE DEF A, F, P, Q
<1>3. 0 .. (ENTRIES - 1) \subseteq DOMAIN page_buffer
  BY SMTT(60), <1>1, <1>2
<1>4. \A y \in 0 .. (pdp_entries - 1) :
        ENTRIES + y \in DOMAIN page_buffer /\ ENTRIES + y >= ENTRIES /\ ENTRIES + y < F
  BY SMTT(60), <1>1, <1>2
<1>5. \A z \in 0 .. (pd_entries - 1) : F + z \in DOMAIN page_buffer /\ F + z >= F
  BY SMTT(60), <1>1, <1>2
<1>6. F \in Nat /\ F >= ENTRIES
  BY SMTT(60), <1>1
<1> QED BY <1>3, <1>4, <1>5, <1>6 DEF F

(* The loop over the PML4 writes both halves of it, *)
LEMMA FillPml4 ==
  ASSUME MapsFit, IInv, fill_pml4
  PROVE  Buffer' /\ Pml4(0)'
<1> DEFINE n == pml4_entries
           entry(a) == Present(page_buffer_ptr + pml4_pages + a)
           lower == 0 .. (n - 1)
           upper == (ENTRIES - n) .. (ENTRIES - 1)
           w == [x \in lower \cup upper |-> IF x \in upper THEN entry(x - (ENTRIES - n)) ELSE entry(x)]
<1>1. Fits /\ Buffer /\ physical_size' = physical_size /\ mmap' = mmap
      /\ page_buffer_ptr' = page_buffer_ptr
  BY Known DEF IInv, Building, fill_pml4
<1>2. n \in Nat /\ n >= 1 /\ n + n <= ENTRIES /\ ENTRIES \in Nat /\ pml4_pages = 1
  BY <1>1, Counts, Entries, Layout
<1>3. Write(w)
  BY DEF fill_pml4
<1> HIDE DEF n
<1>4. lower \cup upper \subseteq 0 .. (ENTRIES - 1)
  BY SMTT(60), <1>2
<1>5. DOMAIN w = lower \cup upper
  OBVIOUS
<1>6. 0 .. (ENTRIES - 1) \subseteq DOMAIN page_buffer
  BY <1>1, Places
<1> HIDE DEF w
<1>7. /\ DOMAIN page_buffer' = DOMAIN page_buffer
      /\ \A x \in DOMAIN page_buffer :
           page_buffer'[x] = IF x \in DOMAIN w THEN w[x] ELSE page_buffer[x]
  BY <1>3, <1>4, <1>5, <1>6, WriteIs
<1>8. \A x \in lower \cup upper : page_buffer'[x] = w[x]
  BY <1>4, <1>5, <1>6, <1>7
<1>9. ASSUME NEW a \in 0 .. (n - 1)
      PROVE  /\ page_buffer'[a] = Present(page_buffer_ptr + 1 + a)
             /\ page_buffer'[ENTRIES - n + a] = Present(page_buffer_ptr + 1 + a)
  <2>1. a \in lower /\ a \notin upper
    BY SMTT(60), <1>2
  <2>2. ENTRIES - n + a \in upper /\ ENTRIES - n + a - (ENTRIES - n) = a
    BY SMTT(60), <1>2
  <2>3. w[a] = entry(a) /\ w[ENTRIES - n + a] = entry(a)
    <3>1. w[a] = entry(a)
      BY <2>1 DEF w
    <3>a. \A x \in upper : w[x] = entry(x - (ENTRIES - n))
      BY Zenon DEF w
    <3> DEFINE x == ENTRIES - n + a
    <3>b. x \in upper /\ x - (ENTRIES - n) = a
      BY SMTT(60), <1>2
    <3> HIDE DEF x, upper, w
    <3>2. w[x] = entry(a)
      BY <3>a, <3>b
    <3> QED BY <3>1, <3>2 DEF x
  <2>4. entry(a) = Present(page_buffer_ptr + 1 + a)
    BY <1>2
  <2> HIDE DEF lower, upper, entry
  <2> QED BY <1>8, <2>1, <2>2, <2>3, <2>4
<1>10. Pml4(0)'
  <2>1. pml4_entries' = n
    BY <1>1, SameSizes DEF n
  <2>2. \A a \in 0 .. (n - 1) : ~ (a < 0)
    BY SMTT(60), <1>2
  <2> QED BY <1>1, <1>9, <2>1, <2>2 DEF Pml4, Present
<1>11. Buffer'
  BY <1>1, <1>7, SameSizes DEF Buffer
<1> QED BY <1>10, <1>11

(* the next loop the page directory pointers, *)
LEMMA FillPdp ==
  ASSUME MapsFit, IInv, fill_pdp
  PROVE  Buffer' /\ Pml4(0)' /\ Pdp'
<1> DEFINE first == pml4_pages * ENTRIES
           w == [x \in first .. (first + pdp_entries - 1) |->
                   Present(page_buffer_ptr + pml4_pages + pdp_pages + (x - first))]
<1>1. Fits /\ Buffer /\ Pml4(0) /\ physical_size' = physical_size /\ mmap' = mmap
      /\ page_buffer_ptr' = page_buffer_ptr
  BY Known DEF IInv, Building, fill_pdp
<1>2. /\ ENTRIES \in Nat /\ pml4_pages = 1 /\ first = ENTRIES
      /\ pdp_entries \in Nat /\ pdp_entries >= 1
  BY SMTT(60), <1>1, Counts, Entries, Layout
<1>3. Write(w)
  BY DEF fill_pdp
<1>4. DOMAIN w = ENTRIES .. (ENTRIES + pdp_entries - 1)
  BY <1>2
<1>5. ASSUME NEW y \in 0 .. (pdp_entries - 1)
      PROVE  ENTRIES + y \in DOMAIN w /\ w[ENTRIES + y] = Present(page_buffer_ptr + 1 + pdp_pages + y)
  <2>1. ENTRIES + y \in first .. (first + pdp_entries - 1) /\ ENTRIES + y - first = y
    BY SMTT(60), <1>2
  <2> HIDE DEF first
  <2> QED BY SMTT(60), <1>2, <2>1
<1> HIDE DEF w
<1>6. DOMAIN w \subseteq DOMAIN page_buffer
  <2> SUFFICES ASSUME NEW x \in ENTRIES .. (ENTRIES + pdp_entries - 1)
               PROVE  x \in DOMAIN page_buffer
    BY <1>4
  <2>1. x - ENTRIES \in 0 .. (pdp_entries - 1) /\ ENTRIES + (x - ENTRIES) = x
    BY SMTT(60), <1>2
  <2> QED BY <1>1, <2>1, Places
<1>7. /\ DOMAIN page_buffer' = DOMAIN page_buffer
      /\ \A x \in DOMAIN page_buffer :
           page_buffer'[x] = IF x \in DOMAIN w THEN w[x] ELSE page_buffer[x]
  BY <1>3, <1>6, WriteIs
<1>8. Buffer'
  BY <1>1, <1>7, SameSizes DEF Buffer
<1>9. Pml4(0)'
  <2>1. \A x \in 0 .. (ENTRIES - 1) : x \in DOMAIN page_buffer /\ x \notin DOMAIN w
    BY SMTT(60), <1>1, <1>2, <1>4, Places
  <2>2. \A x \in 0 .. (ENTRIES - 1) : page_buffer'[x] = page_buffer[x]
    BY <1>7, <2>1
  <2> QED BY <1>1, <2>2, Pml4Frame DEF Pml4, Present
<1>10. Pdp'
  <2>1. \A y \in 0 .. (pdp_entries - 1) :
          page_buffer'[ENTRIES + y] = Present(page_buffer_ptr + 1 + pdp_pages + y)
    BY <1>5, <1>6, <1>7
  <2> QED BY <1>1, <2>1, SameSizes DEF Pdp, Present
<1> QED BY <1>8, <1>9, <1>10

(* and the last one the page directories. *)
LEMMA FillPd ==
  ASSUME MapsFit, IInv, fill_pd
  PROVE  Buffer' /\ Pml4(0)' /\ Pdp' /\ Pd'
<1> DEFINE first == (pml4_pages + pdp_pages) * ENTRIES
           w == [x \in first .. (first + pd_entries - 1) |-> Present((x - first) * ENTRIES)]
<1>1. Fits /\ Buffer /\ Pml4(0) /\ Pdp /\ physical_size' = physical_size /\ mmap' = mmap
      /\ page_buffer_ptr' = page_buffer_ptr
  BY Known DEF IInv, Building, fill_pd
<1>2. /\ ENTRIES \in Nat /\ first = (1 + pdp_pages) * ENTRIES /\ first \in Nat /\ first >= ENTRIES
      /\ pd_entries \in Nat /\ pd_entries >= 1
  BY <1>1, Counts, Entries, Layout, Places
<1>3. Write(w)
  BY DEF fill_pd
<1> HIDE DEF first
<1>4. DOMAIN w = first .. (first + pd_entries - 1)
  OBVIOUS
<1>5. ASSUME NEW z \in 0 .. (pd_entries - 1)
      PROVE  first + z \in DOMAIN w /\ w[first + z] = Present(z * ENTRIES)
  <2>1. first + z \in first .. (first + pd_entries - 1) /\ first + z - first = z
    BY SMTT(60), <1>2
  <2>2. \A x \in first .. (first + pd_entries - 1) : w[x] = Present((x - first) * ENTRIES)
    OBVIOUS
  <2>3. first + z \in DOMAIN w
    BY <1>4, <2>1
  <2> HIDE DEF w
  <2> DEFINE x == first + z
  <2>4. x \in first .. (first + pd_entries - 1) /\ x - first = z /\ x \in DOMAIN w
    <3>1. x \in first .. (first + pd_entries - 1) /\ x - first = z
      BY SMTT(60), <1>2
    <3> QED BY <1>4, <3>1
  <2> HIDE DEF x
  <2>5. w[x] = Present(z * ENTRIES)
    BY <2>2, <2>4
  <2> QED BY <2>3, <2>5 DEF x
<1> HIDE DEF w
<1>6. DOMAIN w \subseteq DOMAIN page_buffer
  <2> SUFFICES ASSUME NEW x \in first .. (first + pd_entries - 1)
               PROVE  x \in DOMAIN page_buffer
    BY <1>4
  <2>1. x - first \in 0 .. (pd_entries - 1) /\ first + (x - first) = x
    BY SMTT(60), <1>2
  <2> QED BY <1>1, <1>2, <2>1, Places
<1>7. /\ DOMAIN page_buffer' = DOMAIN page_buffer
      /\ \A x \in DOMAIN page_buffer :
           page_buffer'[x] = IF x \in DOMAIN w THEN w[x] ELSE page_buffer[x]
  BY <1>3, <1>6, WriteIs
<1>8. Buffer'
  BY <1>1, <1>7, SameSizes DEF Buffer
<1>9. Pml4(0)'
  <2>1. \A x \in 0 .. (ENTRIES - 1) : x \in DOMAIN page_buffer /\ x \notin DOMAIN w
    BY SMTT(60), <1>1, <1>2, <1>4, Places
  <2>2. \A x \in 0 .. (ENTRIES - 1) : page_buffer'[x] = page_buffer[x]
    BY <1>7, <2>1
  <2> QED BY <1>1, <2>2, Pml4Frame DEF Pml4, Present
<1>10. Pdp'
  <2>1. ASSUME NEW y \in 0 .. (pdp_entries - 1)
        PROVE  ENTRIES + y \in DOMAIN page_buffer /\ ENTRIES + y \notin DOMAIN w
    <3>1. ENTRIES + y \in DOMAIN page_buffer /\ ENTRIES + y < first
      BY <1>1, <1>2, Places
    <3>2. \A x \in first .. (first + pd_entries - 1) : ~ (x < first)
      BY SMTT(60), <1>2
    <3> QED BY <1>4, <3>1, <3>2
  <2>2. \A y \in 0 .. (pdp_entries - 1) : page_buffer'[ENTRIES + y] = page_buffer[ENTRIES + y]
    BY <1>7, <2>1
  <2> QED BY <1>1, <2>2, PdpFrame
<1>11. Pd'
  <2>1. \A z \in 0 .. (pd_entries - 1) : page_buffer'[first + z] = Present(z * ENTRIES)
    BY <1>5, <1>6, <1>7
  <2> QED BY <1>1, <1>2, <2>1, SameSizes DEF Pd, Present
<1> QED BY <1>8, <1>9, <1>10, <1>11

(* The write through the pointer in the header clears the entry that it    *)
(* names, and the pointer stays valid while it does.                       *)
LEMMA TargetIs ==
  ASSUME MapsFit, PowersOfTwo, Building, Removing, pc \in {"kernel", "remove"},
         pc = "kernel" => Buffer /\ Pml4(i) /\ Pdp /\ Pd, NEW x \in Nat
  PROVE  Target(x) = x /\ paging_info.page_buffer = page_buffer_ptr + Base
<1>1. /\ Fits /\ physical_size = end_of_memory /\ mmap \in MemoryMaps /\ cr3 = page_buffer_ptr
      /\ Buffer /\ Pml4(i) /\ Pdp /\ Pd
      /\ paging_info.page_buffer = Or(page_buffer_ptr, Base)
  BY Known DEF Building, Removing, Base
<1>2. page_buffer_ptr \in Memory /\ page_buffer_ptr \in Nat /\ page_buffer_ptr < physical_size
      /\ physical_size \in Nat
  BY <1>1, PageHasEntries DEF Buffer, Fits
<1>3. paging_info.page_buffer = page_buffer_ptr + Base
  BY SMTT(60), <1>1, <1>2, OrAdds
<1>4. Walk(page_buffer_ptr + Base).addr + ((page_buffer_ptr + Base) % ENTRIES) = page_buffer_ptr
  BY <1>1, <1>2, UpperMaps
<1>5. Target(x) = (page_buffer_ptr - page_buffer_ptr) * ENTRIES + x
  BY <1>3, <1>4 DEF Target
<1>6. (page_buffer_ptr - page_buffer_ptr) * ENTRIES + x = x
  BY SMTT(60), <1>2, Entries
<1> QED BY <1>3, <1>5, <1>6

(* The kernel clears one more entry of the lower half, *)
LEMMA RemoveEntry ==
  ASSUME MapsFit, PowersOfTwo, IInv, remove_entry
  PROVE  Removing'
<1>1. /\ Fits /\ physical_size = end_of_memory /\ mmap \in MemoryMaps /\ Removing /\ Building
      /\ Buffer /\ Pml4(i) /\ Pdp /\ Pd /\ i \in 0 .. pml4_entries /\ pc = "remove"
      /\ paging_info.pml4_entries = pml4_entries
      /\ HIGH_MEM_BASE = Base /\ cr3 = page_buffer_ptr
  BY Known DEF IInv, Building, Removing, remove_entry, Base
<1>2. physical_size' = physical_size /\ mmap' = mmap /\ page_buffer_ptr' = page_buffer_ptr
      /\ i' = i + 1 /\ pc' = "remove" /\ HIGH_MEM_BASE' = HIGH_MEM_BASE /\ cr3' = cr3
  BY <1>1 DEF remove_entry
<1>3. /\ pml4_entries \in Nat /\ pml4_entries + pml4_entries <= ENTRIES /\ ENTRIES \in Nat
      /\ i \in Nat /\ i < pml4_entries
  BY SMTT(60), <1>1, Counts, Entries DEF remove_entry
<1>4. Target(i) = i
  BY <1>1, <1>3, TargetIs
<1> DEFINE w == [x \in {Target(i)} |-> Absent]
<1>5. Write(w) /\ DOMAIN w = {i} /\ w[i] = Absent
  BY <1>4 DEF remove_entry
<1> HIDE DEF w
<1>6. i \in 0 .. (ENTRIES - 1) /\ i \in DOMAIN page_buffer
  BY SMTT(60), <1>1, <1>3, Places
<1>7. /\ DOMAIN page_buffer' = DOMAIN page_buffer
      /\ \A x \in DOMAIN page_buffer : page_buffer'[x] = IF x = i THEN Absent ELSE page_buffer[x]
  BY <1>5, <1>6, WriteIs
<1>8. Buffer'
  BY <1>1, <1>2, <1>7, SameSizes DEF Buffer
<1>9. Pdp'
  <2>1. \A y \in 0 .. (pdp_entries - 1) : ENTRIES + y \in DOMAIN page_buffer /\ ENTRIES + y # i
    <3>1. \A x \in 0 .. (ENTRIES - 1) : ~ (x >= ENTRIES)
      BY SMTT(60), <1>3
    <3> QED BY <1>1, <1>6, <3>1, Places
  <2> QED BY <1>1, <1>2, <1>7, <2>1, PdpFrame
<1>10. Pd'
  <2> DEFINE F == (1 + pdp_pages) * ENTRIES
  <2>1. F \in Nat /\ F >= ENTRIES
        /\ \A z \in 0 .. (pd_entries - 1) : F + z \in DOMAIN page_buffer /\ F + z >= F
    BY <1>1, Places
  <2> HIDE DEF F
  <2>2. \A z \in 0 .. (pd_entries - 1) : F + z # i
    BY SMTT(60), <1>1, <1>3, <1>6, <2>1, Counts
  <2>3. \A z \in 0 .. (pd_entries - 1) : page_buffer'[F + z] = page_buffer[F + z]
    BY <1>7, <2>1, <2>2
  <2> QED BY <1>1, <1>2, <2>3, PdFrame DEF F
<1>11. Pml4(i)'
  <2> SUFFICES ASSUME NEW a \in 0 .. (pml4_entries - 1)
               PROVE  /\ page_buffer'[a] = IF a < i + 1 THEN Absent
                                           ELSE Present(page_buffer_ptr + 1 + a)
                      /\ page_buffer'[ENTRIES - pml4_entries + a] = Present(page_buffer_ptr + 1 + a)
    BY <1>2, SameSizes DEF Pml4, Absent, Present
  <2>1. a \in DOMAIN page_buffer /\ ENTRIES - pml4_entries + a \in DOMAIN page_buffer
        /\ ENTRIES - pml4_entries + a # i
    <3>1. a \in 0 .. (ENTRIES - 1) /\ ENTRIES - pml4_entries + a \in 0 .. (ENTRIES - 1)
          /\ ENTRIES - pml4_entries + a # i
      BY SMTT(60), <1>3
    <3> QED BY <1>1, <3>1, Places
  <2>2. /\ page_buffer[a] = IF a < i THEN Absent ELSE Present(page_buffer_ptr + 1 + a)
        /\ page_buffer[ENTRIES - pml4_entries + a] = Present(page_buffer_ptr + 1 + a)
    BY <1>1 DEF Pml4
  <2>3. a < i + 1 <=> a < i \/ a = i
    BY SMTT(60), <1>3
  <2> QED BY <1>7, <2>1, <2>2, <2>3
<1>12. i' \in 0 .. pml4_entries
  BY SMTT(60), <1>2, <1>3
<1> QED BY <1>1, <1>2, <1>8, <1>9, <1>10, <1>11, <1>12, SameSizes DEF Removing, Base

(* which it begins with the base that it was given, *)
LEMMA Handover ==
  ASSUME MapsFit, PowersOfTwo, IInv, set_high_mem_base
  PROVE  Removing'
<1>1. /\ Fits /\ physical_size = end_of_memory /\ mmap \in MemoryMaps /\ Building
      /\ Buffer /\ Pml4(0) /\ Pdp /\ Pd /\ i = 0 /\ cr3 = page_buffer_ptr /\ HIGH_MEM_BASE = Base
  BY Known DEF IInv, Building, set_high_mem_base, Base
<1>2. /\ physical_size' = physical_size /\ mmap' = mmap /\ page_buffer_ptr' = page_buffer_ptr
      /\ i' = i /\ pc' = "remove" /\ cr3' = cr3 /\ page_buffer' = page_buffer
      /\ HIGH_MEM_BASE' = Or(0, Base)
  BY <1>1 DEF set_high_mem_base, Goto, ptr_to_kernelspace
<1>3. Or(0, Base) = 0 + Base /\ Base \in Nat
  BY SMTT(60), <1>1, OrAdds, BaseType DEF Fits
<1>4. HIGH_MEM_BASE' = Base
  BY SMTT(60), <1>2, <1>3
<1>5. Buffer' /\ Pdp' /\ Pd' /\ Pml4(i)'
  BY <1>1, <1>2, SameSizes DEF Buffer, Pdp, Pd, Pml4, Absent, Present
<1>6. i' \in 0 .. pml4_entries
  BY SMTT(60), <1>1, <1>2, Counts
<1> QED BY <1>1, <1>2, <1>4, <1>5, <1>6, SameSizes DEF Removing, Base

(* and it ends with the page table that it had. *)
LEMMA LoadCr3 ==
  ASSUME MapsFit, PowersOfTwo, IInv, load_cr3
  PROVE  Removing'
<1>1. /\ Fits /\ physical_size = end_of_memory /\ mmap \in MemoryMaps /\ Removing /\ Building
      /\ Buffer /\ Pml4(i) /\ Pdp /\ Pd /\ i \in 0 .. pml4_entries /\ pc = "remove"
      /\ paging_info.pml4_entries = pml4_entries /\ HIGH_MEM_BASE = Base
  BY Known DEF IInv, Building, Removing, load_cr3, Base
<1>2. paging_info.page_buffer = page_buffer_ptr + Base
  BY <1>1, TargetIs, 0 \in Nat
<1>3. page_buffer_ptr \in Nat /\ page_buffer_ptr <= physical_size /\ Base \in Nat
  BY SMTT(60), <1>1, PageHasEntries, BaseType DEF Buffer, Fits
<1>4. And(page_buffer_ptr + Base, Base) = Base
  BY <1>1, <1>3, OrAdds
<1>5. cr3' = page_buffer_ptr + Base - Base
  <2>1. cr3' = paging_info.page_buffer - And(paging_info.page_buffer, HIGH_MEM_BASE)
    BY Zenon DEF load_cr3, virt_to_phys
  <2> DEFINE v == page_buffer_ptr + Base
  <2>2. paging_info.page_buffer = v /\ And(v, Base) = Base /\ HIGH_MEM_BASE = Base
    BY <1>1, <1>2, <1>4
  <2> HIDE DEF v, Base
  <2>3. cr3' = v - Base
    BY <2>1, <2>2
  <2> QED BY SMTT(60), <1>3, <2>3 DEF v
<1>6. cr3' = page_buffer_ptr
  BY SMTT(60), <1>3, <1>5
<1>7. /\ physical_size' = physical_size /\ mmap' = mmap /\ page_buffer_ptr' = page_buffer_ptr
      /\ i' = i /\ pc' = "done" /\ page_buffer' = page_buffer /\ HIGH_MEM_BASE' = HIGH_MEM_BASE
  BY DEF load_cr3, Goto
<1>8. Buffer' /\ Pdp' /\ Pd' /\ Pml4(i)'
  BY <1>1, <1>7, SameSizes DEF Buffer, Pdp, Pd, Pml4, Absent, Present
<1>9. i = pml4_entries /\ i' \in 0 .. pml4_entries
  BY SMTT(60), <1>1, <1>7, Counts DEF load_cr3
<1> QED BY <1>1, <1>6, <1>7, <1>8, <1>9, SameSizes DEF Removing, Base

(* The first state. *)
LEMMA InitOK == Init => IInv
BY SMTT(60) DEF Init, IInv, Building, Removing

(* Every step keeps the invariant. *)
LEMMA Invariance ==
  ASSUME MapsFit, IInv, [Next]_vars
  PROVE  IInv'
<1>1. CASE UNCHANGED vars
  <2>1. physical_size' = physical_size /\ mmap' = mmap
    BY <1>1 DEF vars
  <2>2. /\ Buffer' <=> Buffer
        /\ Pdp' <=> Pdp
        /\ Pd' <=> Pd
        /\ Pml4(i)' <=> Pml4(i)
        /\ Pml4(0)' <=> Pml4(0)
    BY <1>1, <2>1, SameSizes DEF vars, Buffer, Pdp, Pd, Pml4, Present, Absent
  <2> QED BY <1>1, <2>1, <2>2, SameSizes DEF vars, IInv, Building, Removing
<1>2. CASE init
  <2>1. CASE Panics
    BY <1>2, <2>1, SameSizes DEF init, Panics, Goto, IInv, Building, Removing
  <2>2. CASE ~ Panics
    <3>1. physical_size' = end_of_memory
      BY <1>2, <2>2, SizeKept DEF init, IInv, Building
    <3>2. end_of_memory' = end_of_memory
      BY <1>2, <2>2 DEF init, end_of_memory
    <3> QED BY <1>2, <2>2, <3>1, <3>2 DEF init, Goto, IInv, Building, Removing
  <2> QED BY <2>1, <2>2
<1>3. CASE allocate_pages
  <2>1. CASE Panics
    BY <1>3, <2>1, SameSizes DEF allocate_pages, Panics, Goto, IInv, Building, Removing
  <2>2. CASE ~ Panics
    <3>1. physical_size' = physical_size /\ mmap' = mmap
      BY <1>3, <2>2 DEF allocate_pages
    <3>2. Buffer'
      BY <1>3, <2>2, <3>1, SameSizes DEF allocate_pages, Buffer
    <3> QED
      BY <1>3, <2>2, <3>1, <3>2, SameSizes
         DEF allocate_pages, Goto, IInv, Building, Removing
  <2> QED BY <2>1, <2>2
<1>4. CASE fill_pml4
  <2>1. Buffer' /\ Pml4(0)' /\ physical_size' = physical_size /\ mmap' = mmap
    BY <1>4, FillPml4 DEF fill_pml4
  <2> QED BY <1>4, <2>1, SameSizes DEF fill_pml4, Goto, IInv, Building, Removing
<1>5. CASE fill_pdp
  <2>1. Buffer' /\ Pml4(0)' /\ Pdp' /\ physical_size' = physical_size /\ mmap' = mmap
    BY <1>5, FillPdp DEF fill_pdp
  <2> QED BY <1>5, <2>1, SameSizes DEF fill_pdp, Goto, IInv, Building, Removing
<1>6. CASE fill_pd
  <2>1. Buffer' /\ Pml4(0)' /\ Pdp' /\ Pd' /\ physical_size' = physical_size /\ mmap' = mmap
    BY <1>6, FillPd DEF fill_pd
  <2> QED BY <1>6, <2>1, SameSizes DEF fill_pd, Goto, IInv, Building, Removing
<1>7. CASE set_base
  <2>1. physical_size' = physical_size /\ mmap' = mmap /\ page_buffer' = page_buffer
        /\ page_buffer_ptr' = page_buffer_ptr
    BY <1>7 DEF set_base
  <2>2. Buffer' /\ Pml4(0)' /\ Pdp' /\ Pd'
    BY <1>7, <2>1, SameSizes
       DEF set_base, IInv, Building, Buffer, Pml4, Pdp, Pd, Present, Absent
  <2>3. /\ paging_info'.page_buffer = Or(page_buffer_ptr, (ENTRIES - pml4_entries) * PML4_SPAN)
        /\ paging_info'.pml4_entries = pml4_entries
        /\ HIGH_MEM_BASE' = (ENTRIES - pml4_entries) * PML4_SPAN
    BY <1>7 DEF set_base
  <2> QED BY <1>7, <2>1, <2>2, <2>3, SameSizes DEF set_base, Goto, IInv, Building, Removing
<1>8. CASE set_high_mem_base
  <2>1. Building'
    BY <1>8, SameSizes DEF set_high_mem_base, Goto, IInv, Building
  <2> QED BY <1>8, <2>1, Handover DEF IInv
<1>9. CASE remove_entry
  <2>1. Building'
    BY <1>9, SameSizes DEF remove_entry, IInv, Building
  <2> QED BY <1>9, <2>1, RemoveEntry DEF IInv
<1>10. CASE load_cr3
  <2>1. Building'
    BY <1>10, SameSizes DEF load_cr3, Goto, IInv, Building
  <2> QED BY <1>10, <2>1, LoadCr3 DEF IInv
<1> QED
  BY <1>1, <1>2, <1>3, <1>4, <1>5, <1>6, <1>7, <1>8, <1>9, <1>10 DEF Next, Finished

(* So it holds in every state that is reached. *)
LEMMA Inductive ==
  ASSUME MapsFit
  PROVE  Spec => []IInv
<1>1. IInv /\ [Next]_vars => IInv'
  BY Invariance
<1> QED BY <1>1, InitOK, PTL DEF Spec

-----------------------------------------------------------------------------
(* The theorems.                                                           *)

(***************************************************************************)
(* If memory fits into the lower half, the kernel is entered with every    *)
(* page of it mapped to itself, through entries that were written: whatever *)
(* the number of entries, and wherever the firmware put the tables.        *)
(***************************************************************************)
THEOREM IdentityMapped ==
  ASSUME MapsFit
  PROVE  Spec => []LowerHalfIdentity
<1>1. IInv => LowerHalfIdentity
  <2> SUFFICES ASSUME IInv, pc = "kernel", NEW p \in Memory PROVE Maps(p, p)
    BY DEF LowerHalfIdentity
  <2>1. /\ Fits /\ physical_size = end_of_memory /\ mmap \in MemoryMaps
        /\ Buffer /\ Pml4(0) /\ Pdp /\ Pd /\ cr3 = page_buffer_ptr
    BY Known DEF IInv, Building
  <2> QED BY <2>1, LowerMaps
<1> QED BY <1>1, Inductive, PTL

(* What is known from the switch to the new tables on. *)
LEMMA OnceLoaded ==
  ASSUME MapsFit, PowersOfTwo, IInv, Loaded
  PROVE  /\ Fits /\ physical_size = end_of_memory /\ mmap \in MemoryMaps
         /\ Buffer /\ Pml4(i) /\ Pdp /\ Pd /\ cr3 = page_buffer_ptr /\ HIGH_MEM_BASE = Base
<1>1. pc \in {"kernel", "remove", "done"}
  BY DEF IInv, Building, Loaded
<1>2. Fits /\ physical_size = end_of_memory /\ mmap \in MemoryMaps
  BY <1>1, Known DEF IInv, Building
<1>3. CASE pc = "kernel"
  BY <1>2, <1>3 DEF IInv, Building, Base
<1>4. CASE pc \in {"remove", "done"}
  BY <1>2, <1>4 DEF IInv, Removing, Base
<1> QED BY <1>1, <1>3, <1>4

(***************************************************************************)
(* If moreover the PML4 entries in use are a power of two, phys_to_virt    *)
(* yields for every page of memory an address that refers to it, from the  *)
(* switch to the new table on, and at every step of the removal.           *)
(***************************************************************************)
THEOREM HigherHalfMapped ==
  ASSUME MapsFit, PowersOfTwo
  PROVE  Spec => []HigherHalfMirrors
<1>1. IInv => HigherHalfMirrors
  <2> SUFFICES ASSUME IInv, Loaded, NEW p \in Memory PROVE Maps(phys_to_virt(p), p)
    BY DEF HigherHalfMirrors
  <2>1. p \in Nat /\ p <= physical_size
    BY SMTT(60), OnceLoaded, PageHasEntries DEF Fits
  <2>2. phys_to_virt(p) = p + Base
    BY <2>1, OnceLoaded, OrAdds DEF phys_to_virt
  <2>3. Maps(p + Base, p)
    BY OnceLoaded, UpperMaps
  <2> QED BY <2>2, <2>3
<1> QED BY <1>1, Inductive, PTL

(* And virt_to_phys takes it back. *)
THEOREM ConversionsInverse ==
  ASSUME MapsFit, PowersOfTwo
  PROVE  Spec => []RoundTrip
<1>1. IInv => RoundTrip
  <2> SUFFICES ASSUME IInv, Loaded, NEW p \in Memory
               PROVE  virt_to_phys(phys_to_virt(p)) = p
    BY DEF RoundTrip
  <2>1. p \in Nat /\ p <= physical_size /\ Base \in Nat
    BY SMTT(60), OnceLoaded, PageHasEntries, BaseType DEF Fits
  <2>2. phys_to_virt(p) = p + Base /\ And(p + Base, Base) = Base
    BY <2>1, OnceLoaded, OrAdds DEF phys_to_virt
  <2>3. virt_to_phys(phys_to_virt(p)) = p + Base - Base
    <3> DEFINE v == p + Base
    <3>1. phys_to_virt(p) = v /\ And(v, HIGH_MEM_BASE) = Base
      BY <2>2, OnceLoaded
    <3> HIDE DEF v, Base
    <3>2. virt_to_phys(phys_to_virt(p)) = v - Base
      BY <3>1 DEF virt_to_phys
    <3> QED BY SMTT(60), <2>1, <3>2 DEF v
  <2> QED BY SMTT(60), <2>1, <2>3
<1> QED BY <1>1, Inductive, PTL

(* When the kernel has removed the lower half, the walk ends at the PML4   *)
(* for every page of memory.                                               *)
THEOREM LowerHalfRemoved ==
  ASSUME MapsFit, PowersOfTwo
  PROVE  Spec => []LowerHalfGone
<1>1. IInv => LowerHalfGone
  <2> SUFFICES ASSUME IInv, pc = "done", NEW p \in Memory PROVE Walk(p).p = "absent"
    BY DEF LowerHalfGone
  <2>1. /\ Fits /\ physical_size = end_of_memory /\ mmap \in MemoryMaps
        /\ Buffer /\ Pml4(i) /\ cr3 = page_buffer_ptr /\ i = pml4_entries
    BY Known DEF IInv, Building, Removing
  <2> DEFINE a == p \div PML4_SPAN
  <2>2. a \in 0 .. (pml4_entries - 1)
    BY <2>1, PageHasEntries
  <2>3. Walk(p) = Follow(Follow(Entry(cr3, a), (p \div PDP_SPAN) % ENTRIES),
                         (p \div ENTRIES) % ENTRIES)
    BY DEF Walk
  <2> HIDE DEF a
  <2>4. page_buffer[a] = Absent /\ a \in Nat /\ a \in 0 .. (ENTRIES - 1)
    BY SMTT(60), <2>1, <2>2, Counts, Entries DEF Pml4
  <2>5. a \in DOMAIN page_buffer
    BY <2>1, <2>4, Places
  <2>6. page_buffer_ptr \in Nat /\ ENTRIES \in Nat
    BY <2>1, PageHasEntries, Entries DEF Buffer
  <2>7. 0 * ENTRIES + a = a /\ page_buffer_ptr + 0 = page_buffer_ptr
    BY SMTT(60), <2>4, <2>6
  <2>8. Entry(page_buffer_ptr + 0, a) = page_buffer[a]
    BY <2>4, <2>5, <2>6, <2>7, EntryIs
  <2>9. Entry(cr3, a) = Absent
    BY <2>1, <2>4, <2>7, <2>8
  <2>10. Absent.p = "absent"
    BY DEF Absent
  <2> QED BY <2>3, <2>9, <2>10 DEF Follow
<1> QED BY <1>1, Inductive, PTL

(* All entries are written into the pages that were asked for, and the     *)
(* kernel loads CR3 with the PML4 it came with.                            *)
THEOREM PagingTypes ==
  ASSUME MapsFit, PowersOfTwo
  PROVE  Spec => []TypeOK
<1>1. IInv => TypeOK
  <2> SUFFICES ASSUME IInv PROVE TypeOK
    OBVIOUS
  <2>1. Fits /\ Building /\ Removing
    BY Known DEF IInv
  <2>2. physical_size \in 0 .. (VIRTUAL \div 2 - 1)
    <3>1. \A x, y \in Nat : x < y => x \in 0 .. (y - 1)
      BY SMTT(60)
    <3>2. VIRTUAL \div 2 \in Nat
      BY SMTT(60), Spans
    <3> QED BY <2>1, <3>1, <3>2 DEF Fits
  <2>3. DOMAIN page_buffer = IF pc \in {"init", "allocate", "panicked"}
                             THEN {} ELSE 0 .. (alloc_pages * ENTRIES - 1)
    BY <2>1 DEF Building, Removing, Buffer
  <2>4. cr3 \in {Firmware, page_buffer_ptr}
    BY <2>1 DEF Building, Removing
  <2>5. HIGH_MEM_BASE \in 0 .. (VIRTUAL - 1)
    <3>1. HIGH_MEM_BASE \in {0, Base}
      BY <2>1 DEF Building, Removing, Base
    <3>2. Base \in Nat /\ Base < VIRTUAL
      <4> DEFINE u == ENTRIES - pml4_entries
      <4>1. u \in Nat /\ ENTRIES = u + pml4_entries /\ pml4_entries \in Nat /\ pml4_entries >= 1
        BY SMTT(60), <2>1, Counts, BaseType, Entries
      <4>2. Base = u * PML4_SPAN
        BY DEF Base
      <4> HIDE DEF u
      <4>3. PICK e \in Nat : pml4_entries = 1 + e
        BY SMTT(60), <4>1, pml4_entries - 1 \in Nat
      <4>4. PML4_SPAN \in Nat /\ PML4_SPAN >= 1
        BY Spans
      <4>5. ENTRIES * PML4_SPAN = u * PML4_SPAN + PML4_SPAN + e * PML4_SPAN
            /\ u * PML4_SPAN \in Nat /\ e * PML4_SPAN \in Nat
        BY SMTT(60), <4>1, <4>3, <4>4
      <4> QED BY SMTT(60), <4>2, <4>4, <4>5 DEF VIRTUAL
    <3>3. VIRTUAL \in Nat
      BY Spans
    <3> HIDE DEF Base
    <3> QED BY SMTT(60), <3>1, <3>2, <3>3
  <2>6. i \in 0 .. paging_info.pml4_entries
    <3>1. pml4_entries \in Nat
      BY <2>1, Counts
    <3> QED BY SMTT(60), <2>1, <3>1 DEF Building, Removing
  <2> QED BY <2>1, <2>2, <2>3, <2>4, <2>5, <2>6 DEF TypeOK, Building
<1> QED BY <1>1, Inductive, PTL

=============================================================================
