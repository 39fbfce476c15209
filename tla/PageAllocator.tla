---------------------------- MODULE PageAllocator ----------------------------
(***************************************************************************)
(* What the physical memory manager promises to the rest of the kernel: it *)
(* hands out aligned power-of-two blocks that nobody else holds, takes     *)
(* blocks back, and fails a request only when no such block exists.  How   *)
(* free memory is organised, and that a call is many steps under a lock,   *)
(* does not show here; PhysManager implements this module.                 *)
(***************************************************************************)
EXTENDS Buddy

VARIABLES
  memory,  \* the pages under management
  held,    \* those owned by clients
  failed   \* order of the request that failed; None while none has

vars == <<memory, held, failed>>

None == -1

Init == memory = {} /\ held = {} /\ failed = None

(* All pages start out owned by the code that sets the manager up. *)
Create ==
  /\ memory = {}
  /\ memory' \in SUBSET Nat
  /\ held' = memory'
  /\ UNCHANGED failed

Available(index, order) ==
  Aligned(index, order) /\ Block(index, order) \subseteq memory \ held

Alloc(index, order) ==
  /\ failed = None
  /\ Available(index, order)
  /\ held' = held \cup Block(index, order)
  /\ UNCHANGED <<memory, failed>>

Free(index, order) ==
  /\ failed = None
  /\ Aligned(index, order) /\ Block(index, order) \subseteq held
  /\ held' = held \ Block(index, order)
  /\ UNCHANGED <<memory, failed>>

(* No block of this order can be made from the free memory. *)
Exhausted(order) ==
  /\ failed = None
  /\ \A index \in memory : ~ Available(index, order)
  /\ failed' = order
  /\ UNCHANGED <<memory, held>>

(* The client asked for no pages, or for more than the largest block; or   *)
(* the memory could not be added when the manager was set up.              *)
BadRequest ==
  /\ failed = None
  /\ failed' = NoOrder
  /\ UNCHANGED <<memory, held>>

Next ==
  \/ Create
  \/ \E order \in Order : \/ \E index \in memory : Alloc(index, order) \/ Free(index, order)
                          \/ Exhausted(order)
  \/ BadRequest

Spec == Init /\ [][Next]_vars

=============================================================================
