------------------------------ MODULE Interrupt ------------------------------
(***************************************************************************)
(* kernel/src/arch/x86_64/interrupt: how an interrupt reaches its handler  *)
(* and how the interrupted code goes on.  One core; the stubs of isrs.rs   *)
(* and isr_common_stub are followed word by word on the interrupt stack.   *)
(*                                                                         *)
(* memory[k] is the k-th word below the top of that stack, and rsp the     *)
(* number of words on it, MainStack while the core is on another stack.    *)
(* A word is a pair of what was pushed and its value.                      *)
(***************************************************************************)
EXTENDS Integers, Sequences, SequencesExt

CONSTANTS Vectors,      \* the interrupts that occur
          Handled,      \* those that may be given a handler of their own
          Exceptions    \* those that may occur inside a handler

ASSUME VectorsAssumption ==
  /\ Vectors \subseteq 0 .. 255
  /\ Handled \subseteq Vectors /\ Exceptions \subseteq Vectors

VARIABLES pc,           \* the code that runs
          idt,          \* the stub of each vector, by its number
          HANDLERS,
          regs,         \* the registers that the common stub saves
          rsp, memory,
          locked,       \* which code has the lock of the terminal
          taken,        \* history: what the processor interrupted last
          nested        \* history: an exception has hit a handler

stack == <<rsp, memory>>
vars == <<pc, idt, HANDLERS, regs, stack, locked, taken, nested>>

MainStack == -1
NoStub == -1

-----------------------------------------------------------------------------
(* The frame.                                                              *)

(* The order of the pushes in isr_common_stub. *)
PushOrder_swapped == <<"rax", "rbx", "rcx", "rdx", "rdi", "rsi", "rbp",  \* mutant
                       "r8", "r9", "r10", "r11", "r12", "r13", "r14", "r15">>

PushOrder == <<"rax", "rbx", "rcx", "rdx", "rsi", "rdi", "rbp",
               "r8", "r9", "r10", "r11", "r12", "r13", "r14", "r15">>

(* And of the pops. *)
PopOrder_swapped == <<"r15", "r14", "r13", "r12", "r11", "r10", "r9", "r8",  \* mutant
                      "rbp", "rsi", "rdi", "rdx", "rcx", "rbx", "rax">>

PopOrder == <<"r15", "r14", "r13", "r12", "r11", "r10", "r9", "r8",
              "rbp", "rdi", "rsi", "rdx", "rcx", "rbx", "rax">>

(* The fields of InterruptInfo, from the lowest address up. *)
InterruptInfo ==
  <<"r15", "r14", "r13", "r12", "r11", "r10", "r9", "r8", "rbp", "rdi", "rsi", "rdx",
    "rcx", "rbx", "rax", "int_number", "error_code", "rip", "cs", "rflags", "rsp", "ss">>

Registers == ToSet(PushOrder)

FRAME == Len(InterruptInfo)
CALL == FRAME + 2       \* with the padding and the return address of the call
WORDS == 4 * CALL       \* of the 2048 words of the stack

(* A field of the InterruptInfo whose lowest word is the n-th on the stack. *)
Position(n, field) == n + 1 - (CHOOSE k \in 1 .. FRAME : InterruptInfo[k] = field)

Push(n, words) ==
  /\ rsp' = n + Len(words)
  /\ memory' = [k \in 1 .. WORDS |->
                  IF k \in n + 1 .. n + Len(words) THEN words[k - n] ELSE memory[k]]

(* The vectors for which the processor pushes an error code. *)
PushesError == {8} \cup 10 .. 14 \cup {17}

CODE == 5               \* some error code

(* Mutant: alignment checks are declared without an error code. *)
has_error_but_17(stub) == stub \in {8} \cup 10 .. 14

(* The stubs declared with `error` in isrs.rs. *)
has_error(stub) == stub \in {8} \cup 10 .. 14 \cup {17}

(* Mutant: gates without an interrupt stack: the current one is used on. *)
ist_unused == IF rsp = MainStack THEN 0 ELSE rsp

(* `ist: 1` in every gate: the stack is used from its top. *)
ist == 0

-----------------------------------------------------------------------------
(* The steps.                                                              *)

(* set_isrs.rs has one set_idt_entry for each vector, with its own stub. *)
set_isrs == [v \in Vectors |-> v]

(* interrupt::init; for the page of the table see module KernelBoot. *)
init ==
  /\ pc = "init"
  /\ idt' = set_isrs
  /\ pc' = "init_core"
  /\ UNCHANGED <<HANDLERS, regs, stack, locked, taken, nested>>

(* The interrupt stack is allocated and set, and the table loaded. *)
init_core ==
  /\ pc = "init_core"
  /\ pc' = "main"
  /\ UNCHANGED <<idt, HANDLERS, regs, stack, locked, taken, nested>>

set_isr_handler(index, handler) ==
  /\ pc = "main"
  /\ HANDLERS' = [HANDLERS EXCEPT ![index] = handler]
  /\ UNCHANGED <<pc, idt, regs, stack, locked, taken, nested>>

(***************************************************************************)
(* The main code gets into print() or clear() and takes the lock of the    *)
(* terminal, and gives it back when it is through, see module Terminal.    *)
(***************************************************************************)
print ==
  /\ pc = "main" /\ locked = "none"
  /\ locked' = "main"
  /\ UNCHANGED <<pc, idt, HANDLERS, regs, stack, taken, nested>>

print_done ==
  /\ pc = "main" /\ locked = "main"
  /\ locked' = "none"
  /\ UNCHANGED <<pc, idt, HANDLERS, regs, stack, taken, nested>>

(***************************************************************************)
(* The processor takes an interrupt: in the main code, or as an exception  *)
(* in a handler, where the interrupt gates keep all others out.            *)
(***************************************************************************)
deliver(v) ==
  /\ pc = "main" \/ (pc \in {"handler", "warning"} /\ v \in Exceptions)
  /\ LET frame == <<<<"ss", 0>>, <<"rsp", rsp>>, <<"rflags", pc = "main">>, <<"cs", 8>>,
                    <<"rip", pc>>>>
     IN  Push(ist, IF v \in PushesError THEN frame \o <<<<"error_code", CODE>>>> ELSE frame)
  /\ taken' = [int_number |-> v, rip |-> pc, rsp |-> rsp, rflags |-> pc = "main",
               regs |-> regs]
  /\ nested' = (nested \/ pc # "main")
  /\ pc' = "stub"
  /\ UNCHANGED <<idt, HANDLERS, regs, locked>>

(* isr!: the stub of the vector evens out the error code. *)
isr_stub ==
  /\ pc = "stub"
  /\ LET stub == idt[taken.int_number]
         number == <<<<"int_number", stub>>>>
     IN  Push(rsp, IF has_error(stub) THEN number ELSE <<<<"error_code", 0>>>> \o number)
  /\ pc' = "isr_common_stub"
  /\ UNCHANGED <<idt, HANDLERS, regs, locked, taken, nested>>

(* The pushes, the padding and the call; the handler uses all registers. *)
isr_common_stub ==
  /\ pc = "isr_common_stub"
  /\ Push(rsp, [k \in DOMAIN PushOrder |-> <<PushOrder[k], regs[PushOrder[k]]>>]
                 \o <<<<"padding", 0>>, <<"return", 0>>>>)
  /\ regs' = [r \in Registers |-> "scratch"]
  /\ pc' = "handler"
  /\ UNCHANGED <<idt, HANDLERS, locked, taken, nested>>

(* The argument: rdi = rsp before the padding and the return address. *)
info == rsp - 2

Field(field) == memory[Position(info, field)][2]

(***************************************************************************)
(* The default handler prints a line: warning! waits for the lock of the   *)
(* terminal.  A try that fails changes nothing here.  The line is written  *)
(* in pieces, each under the lock: one stands for them.                    *)
(***************************************************************************)
isr_default_handler ==
  /\ HANDLERS[Field("int_number")] = "default"
  /\ locked = "none"
  /\ locked' = "handler"
  /\ pc' = "warning"
  /\ UNCHANGED memory

(* Others change the frame, here the register rax in it, and do not print. *)
own_handler ==
  /\ HANDLERS[Field("int_number")] # "default"
  /\ memory' = [memory EXCEPT ![Position(info, "rax")] = <<"rax", "result">>]
  /\ pc' = "return"
  /\ UNCHANGED locked

(* The handler of the number in the frame is called. *)
isr_common_handler ==
  /\ pc = "handler"
  /\ isr_default_handler \/ own_handler
  /\ UNCHANGED <<idt, HANDLERS, regs, rsp, taken, nested>>

(* Mutant: the lock is kept when the line is printed. *)
warning_keeps_lock ==
  /\ pc = "warning"
  /\ pc' = "return"
  /\ UNCHANGED <<idt, HANDLERS, regs, stack, locked, taken, nested>>

(* The line is printed, the lock given back, and the handler returns. *)
warning ==
  /\ pc = "warning"
  /\ locked' = "none"
  /\ pc' = "return"
  /\ UNCHANGED <<idt, HANDLERS, regs, stack, taken, nested>>

(* The pops, the `add rsp, 16` over number and error code, and iretq. *)
iretq ==
  /\ pc = "return"
  /\ LET Popped(k) == memory[info + 1 - k][2]
         first == Len(PopOrder) + 2
     IN  /\ regs' = [r \in Registers |-> Popped(CHOOSE k \in DOMAIN PopOrder : PopOrder[k] = r)]
         /\ pc' = Popped(first + 1)
         /\ rsp' = Popped(first + 4)
  /\ UNCHANGED <<idt, HANDLERS, memory, locked, taken, nested>>

Init ==
  /\ pc = "init"
  /\ idt = [v \in Vectors |-> NoStub]
  /\ HANDLERS = [v \in Vectors |-> "default"]
  /\ regs = [r \in Registers |-> r]
  /\ rsp = MainStack
  /\ memory = [k \in 1 .. WORDS |-> <<"unused", 0>>]
  /\ locked = "none"
  /\ taken = [int_number |-> NoStub]
  /\ nested = FALSE

Step == isr_stub \/ isr_common_stub \/ isr_common_handler \/ warning \/ iretq

Next ==
  \/ init \/ init_core \/ print \/ print_done \/ Step
  \/ \E v \in Vectors : deliver(v)
  \/ \E v \in Handled, handler \in {"default", "changes"} : set_isr_handler(v, handler)

Spec == Init /\ [][Next]_vars

FairSpec == Spec /\ WF_vars(init \/ init_core) /\ WF_vars(Step)

-----------------------------------------------------------------------------
(* The properties.                                                         *)

TypeOK ==
  /\ pc \in {"init", "init_core", "main", "stub", "isr_common_stub", "handler", "warning", "return"}
  /\ idt \in [Vectors -> Vectors \cup {NoStub}]
  /\ HANDLERS \in [Vectors -> {"default", "changes"}]
  /\ regs \in [Registers -> Registers \cup {"scratch", "result"}]
  /\ rsp \in MainStack .. CALL
  /\ DOMAIN memory = 1 .. WORDS
  /\ locked \in {"none", "main", "handler"}
  /\ nested \in BOOLEAN

(***************************************************************************)
(* What a handler sees: when isr_common_handler is called, every field of  *)
(* the InterruptInfo it gets is at its place and holds what the processor  *)
(* was doing (number, error code or 0, and the state of the interrupted    *)
(* code), whether or not the processor pushed an error code.  An exception *)
(* in the handler has written over the frame when it returns, so this is   *)
(* about the interrupts before it.                                         *)
(***************************************************************************)
InfoMatches ==
  pc = "handler" /\ ~ nested =>
    /\ \A k \in 1 .. FRAME : memory[info + 1 - k][1] = InterruptInfo[k]
    /\ Field("int_number") = taken.int_number
    /\ Field("error_code") = IF taken.int_number \in PushesError THEN CODE ELSE 0
    /\ Field("rip") = taken.rip /\ Field("rsp") = taken.rsp
    /\ Field("rflags") = taken.rflags
    /\ \A r \in Registers : Field(r) = taken.regs[r]

(***************************************************************************)
(* isr_common_stub "restore[s] the pre-interrupt processor state": after   *)
(* iretq the interrupted code has its stack and all its registers back,    *)
(* except rax if a handler has set it in the frame.                        *)
(***************************************************************************)
Resumes ==
  iretq /\ ~ nested =>
    /\ pc' = taken.rip /\ rsp' = taken.rsp
    /\ \A r \in Registers :
         \/ regs'[r] = taken.regs[r]
         \/ r = "rax" /\ HANDLERS[taken.int_number] = "changes" /\ regs'[r] = "result"

StateRestored == [][Resumes]_vars

(***************************************************************************)
(* One stack for all interrupts "makes nested interrupts impossible"       *)
(* (init_core): once an exception has hit a handler, the frame of the      *)
(* handler is gone, and the main code never runs again.                    *)
(***************************************************************************)
NestingLosesMain == nested => pc # "main"

(***************************************************************************)
(* The default handler waits for the lock that the code it interrupted has *)
(* taken in print() or clear().                                            *)
(***************************************************************************)
HandlerStuck ==
  pc = "handler" /\ locked = "main" /\ HANDLERS[Field("int_number")] = "default"

(***************************************************************************)
(* An interrupted core gets back to its main code.  Only two things keep   *)
(* it: an exception in the handler, and an interrupt without a handler of  *)
(* its own in the middle of print() or clear().  A handler that prints     *)
(* leaves the lock free for the interrupts after it.                       *)
(***************************************************************************)
HandlersReturn == pc # "main" ~> pc = "main" \/ nested \/ HandlerStuck

(***************************************************************************)
(* The comment in isr_common_stub says that the padding results "in the    *)
(* correct alignment" for the call.  The System V ABI wants rsp to be a    *)
(* multiple of 16 just before the return address is pushed; the top of the *)
(* stack is page-aligned and a word has 8 bytes.                           *)
(***************************************************************************)
CallIsAligned == pc = "handler" => (rsp - 1) % 2 = 0

=============================================================================
