--------------------------------- MODULE Elf ---------------------------------
(***************************************************************************)
(* bootloader/src/elf.rs: the raw kernel image is laid out in a buffer of  *)
(* get_size() words, header by header, and relocated on the way.           *)
(*                                                                         *)
(* Memory is counted in words of eight bytes; a dynamic entry is two and a *)
(* relocation three of them.  An image is a record: its program headers,   *)
(* its sections, its entry point, and the words of the file, from 0.       *)
(***************************************************************************)
EXTENDS Integers, Sequences, FiniteSetsExt

VARIABLES memory,       \* the words of physical memory
          ph,           \* the program header whose turn it is
          rela          \* the next relocation and how many are left

elfVars == <<memory, ph, rela>>

DE_TAG_RELA == 7
DE_TAG_RELASZ == 8
R_RELATIVE == 8

SegmentHeader ==
  [seg_type : STRING, data_offset : Nat, virt_addr : Nat, data_size : Nat, virt_size : Nat]

NoRela == [entry |-> 0, left |-> 0]

Words(start, size) == start .. (start + size - 1)

-----------------------------------------------------------------------------
(* Mutant: memory that the file has no data for is not counted. *)
get_size_data(image) ==
  Max({0} \cup {s.virt_addr + s.data_size :
                  s \in {t \in Range(image.ph_list) : t.seg_type = "LOAD"}})

get_size(image) ==
  Max({0} \cup {s.virt_addr + s.virt_size :
                  s \in {t \in Range(image.ph_list) : t.seg_type = "LOAD"}})

(* The first section of that type and name, or 0. *)
get_text_addr(image, process) ==
  LET text == {n \in DOMAIN image.sh_list :
                 /\ image.sh_list[n].sec_type = "PROGBITS"
                 /\ image.sh_list[n].name = ".text"}
  IN  IF text = {} THEN 0 ELSE process + image.sh_list[Min(text)].virt_addr

-----------------------------------------------------------------------------
(* The loop of prepare() over the program headers.  `data` is where the    *)
(* file is, `dest` the buffer.                                             *)

Segment(image) == image.ph_list[ph]

AtSegment(image, type) ==
  /\ rela.left = 0
  /\ ph <= Len(image.ph_list)
  /\ Segment(image).seg_type = type

(* Mutant: the rest of the segment is left as it was. *)
prepare_load_unpadded(image, data, dest) ==
  /\ AtSegment(image, "LOAD")
  /\ LET s == Segment(image)
         src == data + s.data_offset
         dst == dest + s.virt_addr
     IN  memory' = [w \in DOMAIN memory |->
                      IF w \in Words(dst, s.data_size) THEN memory[src + (w - dst)]
                      ELSE memory[w]]
  /\ ph' = ph + 1
  /\ UNCHANGED rela

(* Mutant: the loop does not get past the header. *)
prepare_load_again(image, data, dest) ==
  /\ AtSegment(image, "LOAD")
  /\ LET s == Segment(image)
         src == data + s.data_offset
         dst == dest + s.virt_addr
     IN  memory' = [w \in DOMAIN memory |->
                      IF w \in Words(dst, s.data_size) THEN memory[src + (w - dst)]
                      ELSE IF w \in Words(dst + s.data_size, s.virt_size - s.data_size) THEN 0
                      ELSE memory[w]]
  /\ UNCHANGED <<ph, rela>>

(* A LOAD segment is copied and filled up with zeros. *)
prepare_load(image, data, dest) ==
  /\ AtSegment(image, "LOAD")
  /\ LET s == Segment(image)
         src == data + s.data_offset
         dst == dest + s.virt_addr
     IN  memory' = [w \in DOMAIN memory |->
                      IF w \in Words(dst, s.data_size) THEN memory[src + (w - dst)]
                      ELSE IF w \in Words(dst + s.data_size, s.virt_size - s.data_size) THEN 0
                      ELSE memory[w]]
  /\ ph' = ph + 1
  /\ UNCHANGED rela

(* The loop over a dynamic table ends at an entry with tag 0.  Without one *)
(* it never does: then prepare() gets stuck at the header. *)
TableEnds(words, table) ==
  \E k \in DOMAIN words : table + 2 * k \in DOMAIN words /\ words[table + 2 * k] = 0

(* What the loop finds: the last value of a tag in front of that entry, or *)
(* 0.  Nothing writes to the table in the meantime, so it is one step. *)
DynamicValue(words, table, tag) ==
  LET found == {k \in DOMAIN words : /\ \A j \in 0 .. k : words[table + 2 * j] # 0
                                     /\ words[table + 2 * k] = tag}
  IN  IF found = {} THEN 0 ELSE words[table + 2 * Max(found) + 1]

(* A DYNAMIC segment says, in the buffer, where the relocations are. *)
prepare_dynamic(image, dest) ==
  /\ AtSegment(image, "DYNAMIC")
  /\ LET table == dest + Segment(image).virt_addr
     IN  /\ TableEnds(memory, table)
         /\ rela' = [entry |-> dest + DynamicValue(memory, table, DE_TAG_RELA),
                     left |-> DynamicValue(memory, table, DE_TAG_RELASZ) \div 3]
  /\ ph' = ph + 1
  /\ UNCHANGED memory

(* Segments of other types are passed over. *)
prepare_other(image) ==
  /\ rela.left = 0
  /\ ph <= Len(image.ph_list)
  /\ Segment(image).seg_type \notin {"LOAD", "DYNAMIC"}
  /\ ph' = ph + 1
  /\ UNCHANGED <<memory, rela>>

(* One relocation.  `base` is the address of the buffer for the kernel. *)
relocate(dest, base) ==
  /\ rela.left > 0
  /\ memory[rela.entry + 1] = R_RELATIVE
  /\ memory' = [memory EXCEPT ![dest + memory[rela.entry]] = base + memory[rela.entry + 2]]
  /\ rela' = [entry |-> rela.entry + 3, left |-> rela.left - 1]
  /\ UNCHANGED ph

(* panic!("Unsupported relocation") *)
Unsupported == rela.left > 0 /\ memory[rela.entry + 1] # R_RELATIVE

Prepared(image) == rela.left = 0 /\ ph > Len(image.ph_list)

-----------------------------------------------------------------------------
(* What prepare() is to produce, from the file alone.                      *)

Covers(s, a) == s.seg_type = "LOAD" /\ a \in Words(s.virt_addr, s.virt_size)

(* The word that segment s has for the address a. *)
FileWord(image, s, a) ==
  IF a < s.virt_addr + s.data_size THEN image.words[s.data_offset + (a - s.virt_addr)] ELSE 0

(* The words of the image before it is relocated. *)
Loaded(image) ==
  [a \in Words(0, get_size(image)) |->
     IF \E n \in DOMAIN image.ph_list : Covers(image.ph_list[n], a)
     THEN FileWord(image, image.ph_list[CHOOSE n \in DOMAIN image.ph_list :
                                          Covers(image.ph_list[n], a)], a)
     ELSE 0]

(* Where a DYNAMIC segment says the relocations are, and how many. *)
RelaStart(image, s) == DynamicValue(Loaded(image), s.virt_addr, DE_TAG_RELA)

RelaCount(image, s) == DynamicValue(Loaded(image), s.virt_addr, DE_TAG_RELASZ) \div 3

(* The relocations of the image, as [addr, addend]. *)
Relocations(image, s) ==
  LET words == Loaded(image)
      start == RelaStart(image, s)
  IN  {[addr |-> words[start + 3 * k], addend |-> words[start + 3 * k + 2]] :
         k \in Words(0, RelaCount(image, s))}

(* Those of all DYNAMIC segments. *)
AllRelocations(image) ==
  UNION {Relocations(image, s) : s \in {t \in Range(image.ph_list) : t.seg_type = "DYNAMIC"}}

(* The word at an address of the linked image: relocated, or the file's. *)
Expected(image, base, a) ==
  IF \E r \in AllRelocations(image) : r.addr = a
  THEN base + (CHOOSE r \in AllRelocations(image) : r.addr = a).addend
  ELSE Loaded(image)[a]

-----------------------------------------------------------------------------
(* What prepare() relies on a linker for.                                  *)

(* A word is loaded when header n has its turn, and is not relocated until *)
(* the loop is done with it. *)
Settled(image, n, a) ==
  /\ \E m \in 1 .. (n - 1) : Covers(image.ph_list[m], a)
  /\ \A d \in 1 .. n : image.ph_list[d].seg_type = "DYNAMIC" =>
       \A r \in Relocations(image, image.ph_list[d]) : r.addr # a

(***************************************************************************)
(* LOAD segments are apart and inside the file.  A DYNAMIC segment comes   *)
(* with a table that ends and with relocations of words of the image, at   *)
(* most one for each.  An earlier LOAD segment holds both tables, and the  *)
(* words that are relocated: prepare() copies a LOAD segment that comes    *)
(* later over its relocations, and leaves it without them.                 *)
(***************************************************************************)
Linked(image) ==
  LET file(n) == image.ph_list[n]
      loads == {n \in DOMAIN image.ph_list : file(n).seg_type = "LOAD"}
  IN  /\ image.ph_list \in Seq(SegmentHeader)
      /\ IsFiniteSet(DOMAIN image.words)
      /\ DOMAIN image.words = Words(0, Cardinality(DOMAIN image.words))
      /\ \A w \in DOMAIN image.words : image.words[w] \in Nat
      /\ \A n \in loads : /\ file(n).data_size <= file(n).virt_size
                          /\ Words(file(n).data_offset, file(n).data_size)
                               \subseteq DOMAIN image.words
      /\ \A n, m \in loads : n # m =>
           Words(file(n).virt_addr, file(n).virt_size)
             \cap Words(file(m).virt_addr, file(m).virt_size) = {}
      /\ \A n \in DOMAIN image.ph_list : file(n).seg_type = "DYNAMIC" =>
           /\ \E end \in Words(0, get_size(image)) :
                /\ \A a \in Words(file(n).virt_addr, 2 * end + 1) : Settled(image, n, a)
                /\ Loaded(image)[file(n).virt_addr + 2 * end] = 0
           /\ \A a \in Words(RelaStart(image, file(n)), 3 * RelaCount(image, file(n))) :
                Settled(image, n, a)
           /\ \A r \in Relocations(image, file(n)) :
                \E m \in 1 .. (n - 1) : Covers(file(m), r.addr)
      /\ \A r, q \in AllRelocations(image) : q.addr = r.addr => q = r

=============================================================================
