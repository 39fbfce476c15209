----------------------------- MODULE MCKernelBoot ----------------------------
(***************************************************************************)
(* Memory maps for KernelBoot: two free ranges with an occupied range in   *)
(* front, between them and behind, listed in either order.                 *)
(***************************************************************************)
EXTENDS KernelBoot

Free(s, n) == [start |-> s, page_count |-> n, state |-> "Free"]
Occupied(s, n) == [start |-> s, page_count |-> n, state |-> "Occupied"]

(* The ranges start at a, a + b and a + b + g and end at e. *)
MapsFor(a, b, g, e) ==
  LET low == Free(a, b)
      gap == Occupied(a + b, g)
      high == Free(a + b + g, e - (a + b + g))
  IN  {<<Occupied(0, a), low, gap, high>>, <<high, gap, Occupied(0, a), low>>}

Maps ==
  (UNION {MapsFor(a, b, g, e) : a \in {0, 1, 3}, b \in 1 .. 9, g \in {0, 1, 2, 5},
                                e \in {17, PAGE_LIMIT}})
  \cup {<<Free(0, n), Occupied(n, 1)>> : n \in 0 .. 12}

=============================================================================
