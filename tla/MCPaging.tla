------------------------------- MODULE MCPaging ------------------------------
(***************************************************************************)
(* Memory maps for Paging: one segment of LOW pages at 0 and one of HIGH   *)
(* pages that ends at one of Ends, in either order.                        *)
(***************************************************************************)
EXTENDS Paging

CONSTANTS Ends, LOW, HIGH

Segment(start, page_count) == [start |-> start, page_count |-> page_count]

TwoSegments ==
  UNION {LET low == Segment(0, LOW)
             high == Segment(end - HIGH, HIGH)
         IN  {<<low, high>>, <<high, low>>} : end \in {e \in Ends : e >= LOW + HIGH}}

(* Every end of memory below half of the virtual addresses. *)
EveryEnd == 1 .. (VIRTUAL \div 2 - 1)

=============================================================================
