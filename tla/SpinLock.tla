------------------------------- MODULE SpinLock ------------------------------
(***************************************************************************)
(* kernel/src/mutex.rs: the spin lock that guards the physical memory      *)
(* manager and the terminal.  The only state of the lock is one atomic     *)
(* flag; it does not record who holds it.  `at` is where each core is in   *)
(* the protocol.  A core that panics while it holds the guard is "dead":   *)
(* the panic handler never returns, so the guard is never dropped.         *)
(***************************************************************************)
CONSTANT Cores

VARIABLES locked, at

vars == <<locked, at>>

Init ==
  /\ locked = FALSE
  /\ at = [c \in Cores |-> "outside"]

(* lock() is called: the core starts to spin. *)
Lock(c) ==
  /\ at[c] = "outside"
  /\ at' = [at EXCEPT ![c] = "spinning"]
  /\ UNCHANGED locked

(* One round of the loop in lock(): swap(true) stores TRUE whatever the    *)
(* flag was, and the guard exists only if the old value was FALSE.         *)
try_lock(c) ==
  /\ at[c] = "spinning"
  /\ locked' = TRUE
  /\ at' = IF locked THEN at ELSE [at EXCEPT ![c] = "holding"]

(* The guard is dropped: store(false). *)
unlock(c) ==
  /\ at[c] = "holding"
  /\ locked' = FALSE
  /\ at' = [at EXCEPT ![c] = "outside"]

(* A panic inside the critical section ends in `loop {}`. *)
Panic(c) ==
  /\ at[c] = "holding"
  /\ at' = [at EXCEPT ![c] = "dead"]
  /\ UNCHANGED locked

Next == \E c \in Cores : Lock(c) \/ try_lock(c) \/ unlock(c) \/ Panic(c)

Spec == Init /\ [][Next]_vars

-----------------------------------------------------------------------------
TypeOK ==
  /\ locked \in BOOLEAN
  /\ at \in [Cores -> {"outside", "spinning", "holding", "dead"}]

(* A core that holds the guard, or died holding it. *)
Inside(c) == at[c] \in {"holding", "dead"}

(* At most one core is inside, and the flag is set exactly while one is.   *)
MutualExclusion ==
  /\ \A c, d \in Cores : Inside(c) /\ Inside(d) => c = d
  /\ locked <=> \E c \in Cores : Inside(c)

=============================================================================
