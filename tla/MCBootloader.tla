---------------------------- MODULE MCBootloader ----------------------------
(***************************************************************************)
(* Images, machines and video modes for Bootloader.                        *)
(***************************************************************************)
EXTENDS Bootloader, TLC

Header(type, offset, addr, data, virt) ==
  [seg_type |-> type, data_offset |-> offset, virt_addr |-> addr, data_size |-> data,
   virt_size |-> virt]

Section(type, name, addr) == [sec_type |-> type, name |-> name, virt_addr |-> addr]

File(seq) == [n \in 0 .. (Len(seq) - 1) |-> seq[n + 1]]

Text == <<11, 12, 13, 14>>

(* A dynamic table for `count` relocations at `addr`, with a tag to skip. *)
Dynamic(addr, count) == <<5, 21, DE_TAG_RELA, addr, DE_TAG_RELASZ, 3 * count, 0, 0>>

(* Two relocations, of a word of data and of a word behind it. *)
Rela(first, second, type) == <<first, R_RELATIVE, 2, second, type, 3>>

Text_ == Header("LOAD", 0, 0, 4, 4)
Data_ == Header("LOAD", 4, 6, 16, 28)
Late_ == Header("LOAD", 2, 34, 2, 3)
Dynamic_ == Header("DYNAMIC", 4, 6, 8, 8)

Sections == <<Section("NULL", "", 0), Section("STRTAB", ".text", 1),
              Section("PROGBITS", ".data", 20), Section("PROGBITS", ".text", 1)>>

(* Relocations at the end, as linkers write it. *)
Plain == [ph_list |-> <<Text_, Data_, Dynamic_>>, sh_list |-> Sections, entry_point |-> 1,
          words |-> File(Text \o Dynamic(14, 2) \o Rela(20, 22, R_RELATIVE) \o <<31, 32>>)]

(* A segment is loaded after the relocations of the others. *)
LoadLast == [ph_list |-> <<Text_, Header("NOTE", 0, 0, 1, 1), Data_, Dynamic_, Late_>>,
             sh_list |-> <<Section("PROGBITS", ".data", 20)>>, entry_point |-> 3,
             words |-> File(Text \o Dynamic(14, 2) \o Rela(21, 33, R_RELATIVE) \o <<31, 32>>)]

(* Relocations that prepare() does not know. *)
Foreign == [Plain EXCEPT
              !.words = File(Text \o Dynamic(14, 2) \o Rela(20, 22, 1) \o <<31, 32>>)]

MCImages == {Plain, LoadLast, Foreign}

-----------------------------------------------------------------------------
Fill(type, range) == [p \in range |-> type]

(* Memory in one piece behind a reserved page. *)
Compact == Fill("RESERVED", {0}) @@ Fill("BOOT_SERVICES_CODE", {PAGES - 1})
             @@ Fill("CONVENTIONAL", Page)

(* Memory with a hole, and more of the firmware in it. *)
Scattered == Fill("BOOT_SERVICES_DATA", {0, 4}) @@ Fill("LOADER_CODE", {5})
               @@ Fill("hole", {6}) @@ Fill("RESERVED", {PAGES - 1})
               @@ Fill("CONVENTIONAL", Page)

(* The firmware is where the debugger would look. *)
LowTaken == Fill("BOOT_SERVICES_DATA", {0, 1}) @@ Fill("CONVENTIONAL", Page)

MCMachines == {Compact, Scattered, LowTaken}

Mode(width, format) == [width |-> width, format |-> format]

MCModeLists == {<<Mode(640, "Rgb"), Mode(1920, "Bgr"), Mode(1920, "Rgb"), Mode(2560, "Rgb"),
                  Mode(800, "Bgr")>>,
                <<Mode(1024, "BltOnly"), Mode(2560, "Bgr")>>}

=============================================================================
