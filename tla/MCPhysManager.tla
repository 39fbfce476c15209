---------------------------- MODULE MCPhysManager ----------------------------
(* Small instances of PhysManager for TLC. *)
EXTENDS PhysManager, TLC

Free(s, n) == [start |-> s, page_count |-> n, state |-> "Free"]
Occupied(s, n) == [start |-> s, page_count |-> n, state |-> "Occupied"]

(* For one core and MAX_ORDER = 2: a range that starts with the bitmap;    *)
(* ranges that touch in the middle of a block, and a hole; ranges that are *)
(* not sorted; no room for the bitmap; no segment at all.                  *)
LargeMaps ==
  { <<Occupied(0, 1), Free(1, 7)>>,
    <<Free(0, 3), Free(3, 2), Occupied(5, 2), Free(7, 1)>>,
    <<Occupied(0, 1), Free(6, 2), Free(1, 4)>>,
    <<Occupied(0, 8)>>,
    <<>> }

(* For two cores and MAX_ORDER = 1: two blocks of the largest order side   *)
(* by side; a hole; ranges that are not sorted.                            *)
SmallMaps ==
  { <<Free(3, 5)>>,
    <<Free(0, 1), Occupied(1, 1), Free(2, 2)>>,
    <<Occupied(0, 1), Free(5, 3), Free(2, 1)>> }

(* For MAX_ORDER = 2: the bitmap ends in the middle of a block of order 2. *)
UnalignedMaps ==
  { <<Free(0, 6)>>,
    <<Free(0, 4), Occupied(4, 1), Free(5, 1)>> }

AllMaps == LargeMaps \cup UnalignedMaps

=============================================================================
