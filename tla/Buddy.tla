-------------------------------- MODULE Buddy --------------------------------
(***************************************************************************)
(* The index arithmetic of the buddy allocator in                          *)
(* kernel/src/memory/phys_manager.rs, as pure operators.  A page is        *)
(* identified by its index (physical address >> 12), and a block of order  *)
(* o at index i is the 2^o pages from i on.                                *)
(***************************************************************************)
EXTENDS Integers

CONSTANT MAX_ORDER      \* largest order of a block; 8 in the code

ASSUME MaxOrderAssumption == MAX_ORDER \in Nat

Order == 0 .. MAX_ORDER

(* `1 << order` pages starting at `index`. *)
Block(index, order) == index .. (index + 2^order - 1)

(* Every block the manager handles starts at a multiple of its own size.   *)
Aligned(index, order) == index % 2^order = 0

(* Bit `order` of `index`. *)
Bit(index, order) == (index \div 2^order) % 2

(* Mutant: the buddy is always taken to be the upper half. *)
get_buddy_index_above(index, order) == index + 2^order

(* index ^ (1 << order): flips one bit. *)
get_buddy_index(index, order) ==
  IF Bit(index, order) = 0 THEN index + 2^order ELSE index - 2^order

(* Mutant: sets the bit instead of clearing it. *)
get_combined_index_or(index, order) ==
  IF Bit(index, order) = 0 THEN index + 2^order ELSE index

(* index & !(1 << order): clears one bit. *)
get_combined_index(index, order) ==
  IF Bit(index, order) = 0 THEN index ELSE index - 2^order

(* 63 - count.leading_zeros(): the position of the highest set bit. *)
HighestBit(count) == CHOOSE o \in 0 .. count : 2^o <= count /\ count < 2^(o + 1)

(***************************************************************************)
(* The order that holds `count` pages.  For count = 0 the subtraction      *)
(* 63 - 64 leaves the range of u32: it panics in a debug build, and in a   *)
(* release build it wraps to an order far above MAX_ORDER.  NoOrder stands *)
(* for every order that is not an index of free_lists; using one panics.   *)
(***************************************************************************)
NoOrder == MAX_ORDER + 1

get_size_order(count) ==
  IF count = 0
  THEN NoOrder
  ELSE LET order == HighestBit(count)
           needed == IF count # 2^order THEN order + 1 ELSE order
       IN  IF needed > MAX_ORDER THEN NoOrder ELSE needed

(* index.trailing_zeros(): the position of the lowest set bit; 64 for 0. *)
TrailingZeros(index) ==
  IF index = 0 THEN 64
  ELSE CHOOSE o \in 0 .. index : Aligned(index, o) /\ Bit(index, o) = 1

MinOf(a, b) == IF a < b THEN a ELSE b

(* Mutant: the number of pages left is not considered. *)
region_order_unbounded(index, page_count) == MinOf(TrailingZeros(index), MAX_ORDER)

(* The order add_region() picks for the next block at `index` when there   *)
(* are `page_count` pages left.                                            *)
region_order(index, page_count) ==
  LET index_order == TrailingZeros(index)
      count_order == HighestBit(page_count)
  IN  MinOf(MinOf(index_order, count_order), MAX_ORDER)

=============================================================================
