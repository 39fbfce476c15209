---------------------------- MODULE InterruptProofs --------------------------
(***************************************************************************)
(* The interrupt stubs, for every set of vectors, handlers and exceptions: *)
(* the frame that a handler gets, what iretq restores, and what an         *)
(* exception in a handler costs.                                           *)
(***************************************************************************)
EXTENDS Interrupt, TLAPS

USE ZenonT(60), SMTT(60)

-----------------------------------------------------------------------------
(* The order of the words in a frame.                                      *)

(* The sizes of a frame and of the stacks. *)
LEMMA Sizes == FRAME = 22 /\ CALL = 24 /\ WORDS = 96 /\ MainStack = -1
BY SMTT(60) DEF FRAME, CALL, WORDS, InterruptInfo, MainStack

(* The pops are the pushes backwards, and the struct begins like the pops. *)
LEMMA Orders ==
  /\ Len(PushOrder) = 15 /\ DOMAIN PushOrder = 1 .. 15
  /\ Len(PopOrder) = 15 /\ DOMAIN PopOrder = 1 .. 15
  /\ \A k \in 1 .. 15 : PopOrder[k] = PushOrder[16 - k] /\ InterruptInfo[k] = PopOrder[k]
  /\ PushOrder[1] = "rax"
BY SMTT(60) DEF PushOrder, PopOrder, InterruptInfo

(* And goes on with what the stub and the processor push. *)
LEMMA Rest ==
  /\ InterruptInfo[16] = "int_number" /\ InterruptInfo[17] = "error_code"
  /\ InterruptInfo[18] = "rip" /\ InterruptInfo[19] = "cs" /\ InterruptInfo[20] = "rflags"
  /\ InterruptInfo[21] = "rsp" /\ InterruptInfo[22] = "ss"
BY DEF InterruptInfo

(* No field and no register occurs twice. *)
LEMMA Distinct ==
  /\ \A j, k \in 1 .. 22 : InterruptInfo[j] = InterruptInfo[k] => j = k
  /\ \A j, k \in 1 .. 15 : PopOrder[j] = PopOrder[k] => j = k
  /\ \A k \in 2 .. 15 : PushOrder[k] # "rax"
BY SMTT(60) DEF InterruptInfo, PopOrder, PushOrder

(* The stub pushes all of the registers. *)
LEMMA RegistersAre == Registers = {PushOrder[k] : k \in 1 .. 15}
BY Orders DEF Registers, ToSet

(* The k-th field of the struct is the k-th word from its lowest one. *)
LEMMA Places ==
  ASSUME NEW k \in 1 .. 22
  PROVE  Position(22, InterruptInfo[k]) = 23 - k
<1>1. \A j \in 1 .. FRAME : InterruptInfo[j] = InterruptInfo[k] => j = k
  BY Distinct, Sizes
<1>2. k \in 1 .. FRAME
  BY Sizes
<1>3. (CHOOSE j \in 1 .. FRAME : InterruptInfo[j] = InterruptInfo[k]) = k
  BY <1>1, <1>2
<1>4. Position(22, InterruptInfo[k]) = 22 + 1 - k
  BY <1>3 DEF Position
<1> QED BY SMTT(60), <1>4

-----------------------------------------------------------------------------
(* The inductive invariant.                                                *)

Values == Registers \cup {"scratch", "result"}

(* What the processor pushed for the interrupt taken last. *)
Hardware ==
  /\ memory[1] = <<"ss", 0>> /\ memory[2] = <<"rsp", taken.rsp>>
  /\ memory[3] = <<"rflags", taken.rflags>> /\ memory[4] = <<"cs", 8>>
  /\ memory[5] = <<"rip", taken.rip>>

(* The error code and the number, whoever pushed them. *)
Numbered ==
  /\ memory[6] = <<"error_code", IF taken.int_number \in PushesError THEN CODE ELSE 0>>
  /\ memory[7] = <<"int_number", taken.int_number>>

(* The registers, of which a handler may have changed rax. *)
Changed ==
  /\ memory[8] = <<"rax", "result">>
  /\ nested \/ (pc = "return" /\ HANDLERS[taken.int_number] = "changes")

(* The registers as they were when the interrupt came, but for rax if the *)
(* handler changed it.                                                     *)
Saved ==
  \A k \in 1 .. 15 :
    \/ memory[7 + k] = <<PushOrder[k], taken.regs[PushOrder[k]]>>
    \/ k = 1 /\ Changed

(* The interrupt that is served: of the main code, until one has nested. *)
Taken ==
  /\ taken.int_number \in Vectors
  /\ taken.regs \in [Registers -> Values]
  /\ IF nested THEN taken.rip \in {"handler", "warning"} ELSE taken.rip = "main"
  /\ taken.rsp = IF nested THEN CALL ELSE MainStack

(* The inductive invariant. *)
IInv ==
  /\ TypeOK
  /\ pc = "init" \/ idt = set_isrs
  /\ pc \in {"init", "init_core", "main"} => rsp = MainStack /\ ~ nested
  /\ pc \in {"stub", "isr_common_stub", "handler", "warning", "return"} => Taken /\ Hardware
  /\ pc = "stub" =>
       /\ regs = taken.regs
       /\ rsp = IF taken.int_number \in PushesError THEN 6 ELSE 5
       /\ taken.int_number \in PushesError => memory[6] = <<"error_code", CODE>>
  /\ pc = "isr_common_stub" => regs = taken.regs /\ rsp = 7 /\ Numbered
  /\ pc \in {"handler", "warning", "return"} => rsp = CALL /\ Numbered /\ Saved

(* The first state. *)
LEMMA InitOK == Init => IInv
<1> SUFFICES ASSUME Init PROVE IInv
  OBVIOUS
<1>1. TypeOK
  <2>1. rsp \in MainStack .. CALL /\ DOMAIN memory = 1 .. WORDS
    BY SMTT(60), Sizes DEF Init
  <2>2. regs \in [Registers -> Registers \cup {"scratch", "result"}]
    BY DEF Init
  <2> QED BY <2>1, <2>2 DEF Init, TypeOK
<1> QED BY <1>1 DEF Init, IInv

(* The processor starts a new frame at the top of the stack. *)
LEMMA DeliverKeeps ==
  ASSUME IInv, NEW v \in Vectors, deliver(v)
  PROVE  IInv'
<1> DEFINE frame == <<<<"ss", 0>>, <<"rsp", rsp>>, <<"rflags", pc = "main">>, <<"cs", 8>>,
                      <<"rip", pc>>>>
           words == IF v \in PushesError THEN frame \o <<<<"error_code", CODE>>>> ELSE frame
<1>1. /\ Len(words) = IF v \in PushesError THEN 6 ELSE 5
      /\ words[1] = <<"ss", 0>> /\ words[2] = <<"rsp", rsp>>
      /\ words[3] = <<"rflags", pc = "main">> /\ words[4] = <<"cs", 8>>
      /\ words[5] = <<"rip", pc>>
      /\ v \in PushesError => words[6] = <<"error_code", CODE>>
  BY SMTT(60)
<1>2. /\ rsp' = 0 + Len(words)
      /\ memory' = [k \in 1 .. 96 |->
                      IF k \in 1 .. Len(words) THEN words[k] ELSE memory[k]]
  BY SMTT(60), Sizes DEF deliver, Push, ist
<1> HIDE DEF words
<1>3. /\ memory'[1] = <<"ss", 0>> /\ memory'[2] = <<"rsp", rsp>>
      /\ memory'[3] = <<"rflags", pc = "main">> /\ memory'[4] = <<"cs", 8>>
      /\ memory'[5] = <<"rip", pc>>
      /\ v \in PushesError => memory'[6] = <<"error_code", CODE>>
  BY SMTT(60), <1>1, <1>2
<1>4. Hardware' /\ Taken'
  BY <1>3, Sizes DEF Hardware, Taken, deliver, IInv, TypeOK, Values
<1>5. TypeOK'
  BY SMTT(60), <1>1, <1>2, Sizes DEF IInv, TypeOK, deliver
<1> QED
  BY SMTT(60), <1>1, <1>2, <1>3, <1>4, <1>5 DEF IInv, deliver

(* The stub pushes what the processor did not. *)
LEMMA StubKeeps ==
  ASSUME IInv, isr_stub
  PROVE  IInv'
<1> DEFINE v == taken.int_number
           number == <<<<"int_number", v>>>>
           words == IF v \in PushesError THEN number ELSE <<<<"error_code", 0>>>> \o number
<1>1. idt[v] = v /\ (has_error(v) <=> v \in PushesError) /\ Taken /\ Hardware
  BY DEF IInv, isr_stub, set_isrs, has_error, PushesError, Taken
<1>2. /\ rsp' = rsp + Len(words)
      /\ memory' = [k \in 1 .. 96 |->
                      IF k \in rsp + 1 .. rsp + Len(words) THEN words[k - rsp] ELSE memory[k]]
  BY <1>1, Sizes DEF isr_stub, Push
<1>3. /\ v \in PushesError => Len(words) = 1 /\ words[1] = <<"int_number", v>>
      /\ v \notin PushesError =>
           Len(words) = 2 /\ words[1] = <<"error_code", 0>> /\ words[2] = <<"int_number", v>>
  BY SMTT(60)
<1> HIDE DEF words
<1>4. rsp = IF v \in PushesError THEN 6 ELSE 5
  BY DEF IInv, isr_stub
<1>5. /\ rsp' = 7
      /\ \A k \in 1 .. 5 : memory'[k] = memory[k]
      /\ memory'[6] = IF v \in PushesError THEN memory[6] ELSE <<"error_code", 0>>
      /\ memory'[7] = <<"int_number", v>>
  <2>1. CASE v \in PushesError
    <3>0. rsp = 6 /\ Len(words) = 1
      BY <2>1, <1>3, <1>4
    <3>1. memory' = [k \in 1 .. 96 |-> IF k \in 7 .. 7 THEN words[k - 6] ELSE memory[k]]
      BY SMTT(60), <3>0, <1>2
    <3>2. rsp' = 7
      BY SMTT(60), <3>0, <1>2
    <3> QED BY SMTT(60), <2>1, <3>1, <3>2, <1>3
  <2>2. CASE v \notin PushesError
    <3>0. rsp = 5 /\ Len(words) = 2
      BY <2>2, <1>3, <1>4
    <3>1. memory' = [k \in 1 .. 96 |-> IF k \in 6 .. 7 THEN words[k - 5] ELSE memory[k]]
      BY SMTT(60), <3>0, <1>2
    <3>2. rsp' = 7
      BY SMTT(60), <3>0, <1>2
    <3> QED BY SMTT(60), <2>2, <3>1, <3>2, <1>3
  <2> QED BY <2>1, <2>2
<1>6. Hardware' /\ Taken'
  BY SMTT(60), <1>1, <1>5 DEF Hardware, Taken, isr_stub
<1>7. Numbered'
  BY <1>5 DEF Numbered, IInv, isr_stub
<1>8. TypeOK'
  <2>1. rsp' \in MainStack .. CALL /\ DOMAIN memory' = 1 .. WORDS
    BY SMTT(60), <1>2, <1>5, Sizes
  <2> QED BY <2>1 DEF IInv, TypeOK, isr_stub
<1> QED
  BY <1>1, <1>5, <1>6, <1>7, <1>8 DEF IInv, isr_stub

(* The words of one sequence behind those of another. *)
LEMMA Join ==
  ASSUME NEW S, NEW a \in Seq(S), NEW b \in Seq(S)
  PROVE  Len(a \o b) = Len(a) + Len(b) /\ \A k \in 1 .. Len(a) : (a \o b)[k] = a[k]
BY SMTT(60)

(* The common stub pushes all registers. *)
LEMMA CommonStubKeeps ==
  ASSUME IInv, isr_common_stub
  PROVE  IInv'
<1> DEFINE pushed == [k \in DOMAIN PushOrder |-> <<PushOrder[k], regs[PushOrder[k]]>>]
           call == <<<<"padding", 0>>, <<"return", 0>>>>
           words == pushed \o call
<1>1. Len(words) = 17 /\ \A k \in 1 .. 15 : words[k] = <<PushOrder[k], regs[PushOrder[k]]>>
  <2> DEFINE S == {pushed[k] : k \in 1 .. 15} \cup {call[1], call[2]}
  <2>1. pushed = [k \in 1 .. 15 |-> <<PushOrder[k], regs[PushOrder[k]]>>]
    BY Orders
  <2>2. call = [k \in 1 .. 2 |-> call[k]]
    BY SMTT(60)
  <2> HIDE DEF pushed, call
  <2>3. pushed \in Seq(S) /\ Len(pushed) = 15
    BY SMTT(60), <2>1
  <2>4. call \in Seq(S) /\ Len(call) = 2
    BY SMTT(60), <2>2
  <2> HIDE DEF S
  <2>5. Len(words) = Len(pushed) + Len(call) /\ \A k \in 1 .. Len(pushed) : words[k] = pushed[k]
    BY <2>3, <2>4, Join
  <2> QED BY SMTT(60), <2>1, <2>3, <2>4, <2>5
<1>2. rsp = 7 /\ regs = taken.regs /\ Taken /\ Hardware /\ Numbered
  BY DEF IInv, isr_common_stub
<1>3. /\ rsp' = rsp + Len(words)
      /\ memory' = [k \in 1 .. 96 |->
                      IF k \in rsp + 1 .. rsp + Len(words) THEN words[k - rsp] ELSE memory[k]]
  BY Sizes DEF isr_common_stub, Push
<1> HIDE DEF words
<1>4. /\ rsp' = 24
      /\ \A k \in 1 .. 7 : memory'[k] = memory[k]
      /\ \A k \in 1 .. 15 : memory'[7 + k] = <<PushOrder[k], regs[PushOrder[k]]>>
  <2>1. \A k \in 1 .. 15 : 7 + k \in 8 .. 24 /\ 7 + k \in 1 .. 96 /\ 7 + k - 7 = k
    BY SMTT(60)
  <2> QED BY SMTT(60), <1>1, <1>2, <1>3, <2>1
<1>5. Hardware' /\ Taken' /\ Numbered'
  BY SMTT(60), <1>2, <1>4 DEF Hardware, Taken, Numbered, isr_common_stub
<1>6. Saved'
  BY <1>2, <1>4 DEF Saved, isr_common_stub
<1>7. TypeOK'
  <2>1. rsp' \in MainStack .. CALL /\ DOMAIN memory' = 1 .. WORDS
    BY SMTT(60), <1>3, <1>4, Sizes
  <2>2. regs' \in [Registers -> Registers \cup {"scratch", "result"}]
    BY DEF isr_common_stub
  <2> QED BY <2>1, <2>2 DEF IInv, TypeOK, isr_common_stub
<1> QED
  BY <1>4, <1>5, <1>6, <1>7, Sizes DEF IInv, isr_common_stub

(* In a handler the struct is the 22 words below the padding. *)
LEMMA Fields ==
  ASSUME pc \in {"handler", "return"}, IInv
  PROVE  /\ info = 22
         /\ Field("int_number") = taken.int_number
         /\ Position(info, "rax") = 8
<1>1. info = 22
  BY SMTT(60), Sizes DEF IInv, info
<1>2. Position(22, "int_number") = 7
  BY SMTT(60), Places, Rest
<1>3. Position(22, "rax") = 8
  BY SMTT(60), Places, Orders
<1> QED
  BY SMTT(60), <1>1, <1>2, <1>3 DEF Field, IInv, Numbered

(* A handler changes at most the rax of its frame. *)
LEMMA HandlerKeeps ==
  ASSUME IInv, isr_common_handler
  PROVE  IInv'
<1>1. Taken /\ Hardware /\ Numbered /\ Saved /\ rsp = CALL /\ TypeOK
  BY DEF IInv, isr_common_handler
<1>2. CASE isr_default_handler
  <2>1. Hardware' /\ Numbered' /\ Taken'
    BY <1>1, <1>2 DEF Hardware, Numbered, Taken, isr_common_handler, isr_default_handler
  <2>2. Saved'
    BY <1>1, <1>2 DEF Saved, Changed, isr_common_handler, isr_default_handler
  <2> QED
    BY <1>1, <1>2, <2>1, <2>2 DEF IInv, TypeOK, isr_common_handler, isr_default_handler
<1>3. CASE own_handler
  <2>1. memory' = [memory EXCEPT ![8] = <<"rax", "result">>]
    BY <1>3, Fields DEF isr_common_handler, own_handler
  <2>2. HANDLERS[taken.int_number] = "changes"
    BY <1>1, <1>3, Fields DEF TypeOK, Taken, isr_common_handler, own_handler
  <2>3. /\ DOMAIN memory' = 1 .. 96 /\ memory'[8] = <<"rax", "result">>
        /\ \A k \in (1 .. 96) \ {8} : memory'[k] = memory[k]
    BY SMTT(60), <1>1, <2>1, Sizes DEF TypeOK
  <2>4. Hardware' /\ Numbered' /\ Taken'
    BY SMTT(60), <1>1, <2>3 DEF Hardware, Numbered, Taken, isr_common_handler
  <2>5. Saved'
    <3>1. Changed'
      BY <1>3, <2>2, <2>3 DEF Changed, isr_common_handler, own_handler
    <3>2. \A k \in 2 .. 15 : memory'[7 + k] = memory[7 + k]
      BY SMTT(60), <2>3
    <3> QED BY SMTT(60), <1>1, <3>1, <3>2 DEF Saved, isr_common_handler
  <2> QED
    BY <1>1, <1>3, <2>3, <2>4, <2>5, Sizes DEF IInv, TypeOK, isr_common_handler, own_handler
<1> QED BY <1>2, <1>3 DEF isr_common_handler

(* The end of the default handler leaves the frame alone. *)
LEMMA WarningKeeps ==
  ASSUME IInv, warning
  PROVE  IInv'
<1>1. Taken /\ Hardware /\ Numbered /\ Saved /\ rsp = CALL /\ TypeOK
  BY DEF IInv, warning
<1>2. Hardware' /\ Numbered' /\ Taken'
  BY <1>1 DEF Hardware, Numbered, Taken, warning, stack
<1>3. Saved'
  BY <1>1 DEF Saved, Changed, warning, stack, IInv
<1> QED BY <1>1, <1>2, <1>3 DEF IInv, TypeOK, warning, stack

(* What iretq pops. *)
LEMMA Pops ==
  ASSUME IInv, iretq
  PROVE  /\ pc' = taken.rip /\ rsp' = taken.rsp
         /\ regs' \in [Registers -> Values]
         /\ \A r \in Registers :
              \/ regs'[r] = taken.regs[r]
              \/ r = "rax" /\ regs'[r] = "result" /\ Changed
<1>1. Taken /\ Hardware /\ Saved /\ info = 22
  BY Fields DEF IInv, iretq
<1>2. pc' = memory[5][2] /\ rsp' = memory[2][2]
  BY SMTT(60), <1>1, Orders DEF iretq
<1>3. ASSUME NEW k \in 1 .. 15
      PROVE  regs'[PushOrder[k]] = memory[7 + k][2]
  <2>1. PushOrder[k] = PopOrder[16 - k] /\ PushOrder[k] \in Registers /\ 16 - k \in 1 .. 15
    <3>1. 16 - k \in 1 .. 15 /\ 16 - (16 - k) = k
      BY SMTT(60)
    <3> QED BY <3>1, Orders, RegistersAre
  <2>2. \A j \in DOMAIN PopOrder : PopOrder[j] = PushOrder[k] => j = 16 - k
    BY <2>1, Orders, Distinct
  <2>3. 16 - k \in DOMAIN PopOrder
    BY <2>1, Orders
  <2>4. (CHOOSE j \in DOMAIN PopOrder : PopOrder[j] = PushOrder[k]) = 16 - k
    BY <2>1, <2>2, <2>3
  <2>5. regs'[PushOrder[k]] = memory[info + 1 - (16 - k)][2]
    BY <2>1, <2>4 DEF iretq
  <2>6. 22 + 1 - (16 - k) = 7 + k
    BY SMTT(60)
  <2> QED BY <2>5, <2>6, <1>1
<1>4. \A r \in Registers :
        \/ regs'[r] = taken.regs[r]
        \/ r = "rax" /\ regs'[r] = "result" /\ Changed
  <2> SUFFICES ASSUME NEW k \in 1 .. 15
               PROVE  \/ regs'[PushOrder[k]] = taken.regs[PushOrder[k]]
                      \/ PushOrder[k] = "rax" /\ regs'[PushOrder[k]] = "result" /\ Changed
    BY RegistersAre
  <2>1. CASE memory[7 + k] = <<PushOrder[k], taken.regs[PushOrder[k]]>>
    BY SMTT(60), <2>1, <1>3
  <2>2. CASE k = 1 /\ Changed
    BY SMTT(60), <2>2, <1>3, Orders DEF Changed
  <2> QED BY <2>1, <2>2, <1>1 DEF Saved
<1>5. regs' \in [Registers -> Values]
  BY <1>1, <1>4 DEF iretq, Taken, Values
<1> QED BY SMTT(60), <1>1, <1>2, <1>4, <1>5 DEF Hardware

(* Back to the main code, or for good into the handler that was hit. *)
LEMMA IretqKeeps ==
  ASSUME IInv, iretq
  PROVE  IInv'
<1>1. Taken /\ Hardware /\ Numbered /\ Saved /\ TypeOK
  BY DEF IInv, iretq
<1>2. TypeOK'
  <2>1. rsp' \in MainStack .. CALL /\ pc' \in {"main", "handler", "warning"}
    BY SMTT(60), <1>1, Pops, Sizes DEF Taken
  <2>2. regs' \in [Registers -> Registers \cup {"scratch", "result"}]
    BY Pops DEF Values
  <2> QED BY <1>1, <2>1, <2>2 DEF TypeOK, iretq
<1>3. CASE nested
  <2>1. Hardware' /\ Numbered' /\ Taken'
    BY <1>1 DEF Hardware, Numbered, Taken, iretq
  <2>2. Saved'
    BY <1>1, <1>3 DEF Saved, Changed, iretq
  <2> QED BY <1>1, <1>2, <1>3, <2>1, <2>2, Pops DEF IInv, Taken, iretq
<1>4. CASE ~ nested
  BY <1>1, <1>2, <1>4, Pops DEF IInv, Taken, iretq
<1> QED BY <1>3, <1>4, <1>1 DEF TypeOK

(* Every step keeps the invariant. *)
LEMMA Invariance == IInv /\ [Next]_vars => IInv'
<1> SUFFICES ASSUME IInv, [Next]_vars PROVE IInv'
  OBVIOUS
<1>1. CASE UNCHANGED vars
  BY <1>1 DEF vars, stack, IInv, TypeOK, Taken, Hardware, Numbered, Saved, Changed
<1>2. CASE init
  BY <1>2 DEF init, stack, IInv, TypeOK, set_isrs
<1>3. CASE init_core
  BY <1>3 DEF init_core, stack, IInv, TypeOK
<1>4. CASE \E v \in Handled, handler \in {"default", "changes"} : set_isr_handler(v, handler)
  <2>1. HANDLERS' \in [Vectors -> {"default", "changes"}]
    BY <1>4 DEF set_isr_handler, IInv, TypeOK
  <2> QED BY SMTT(60), <1>4, <2>1 DEF set_isr_handler, stack, IInv, TypeOK
<1>5. CASE \E v \in Vectors : deliver(v)
  BY <1>5, DeliverKeeps
<1>6. CASE print \/ print_done
  BY SMTT(60), <1>6 DEF print, print_done, stack, IInv, TypeOK
<1> QED
  BY <1>1, <1>2, <1>3, <1>4, <1>5, <1>6, StubKeeps, CommonStubKeeps, HandlerKeeps, WarningKeeps,
     IretqKeeps DEF Next, Step

(* So it holds in every state that is reached. *)
LEMMA Inductive == Spec => []IInv
BY InitOK, Invariance, PTL DEF Spec

-----------------------------------------------------------------------------
(* The theorems.                                                           *)

(* The stack never holds more than the words of one frame and the call. *)
THEOREM InterruptTypes == Spec => []TypeOK
<1>1. IInv => TypeOK
  BY DEF IInv
<1> QED BY <1>1, Inductive, PTL

(***************************************************************************)
(* For every vector, with or without an error code, isr_common_handler is  *)
(* given a frame in which each field is in its place and holds the state   *)
(* of the interrupted code.                                                *)
(***************************************************************************)
THEOREM HandlerSeesFrame == Spec => []InfoMatches
<1>1. IInv => InfoMatches
  <2> SUFFICES ASSUME IInv, pc = "handler", ~ nested
               PROVE  /\ \A k \in 1 .. FRAME : memory[info + 1 - k][1] = InterruptInfo[k]
                      /\ Field("int_number") = taken.int_number
                      /\ Field("error_code") =
                           IF taken.int_number \in PushesError THEN CODE ELSE 0
                      /\ Field("rip") = taken.rip /\ Field("rsp") = taken.rsp
                      /\ Field("rflags") = taken.rflags
                      /\ \A r \in Registers : Field(r) = taken.regs[r]
    BY DEF InfoMatches
  <2>1. info = 22 /\ Hardware /\ Numbered /\ Saved /\ ~ Changed
    BY Fields DEF IInv, Changed
  <2>2. \A k \in 1 .. 15 : memory[7 + k] = <<PushOrder[k], taken.regs[PushOrder[k]]>>
    BY <2>1 DEF Saved
  <2>3. \A k \in 1 .. 22 : Field(InterruptInfo[k]) = memory[23 - k][2]
    BY <2>1, Places DEF Field
  <2>4. ASSUME NEW k \in 1 .. 22
        PROVE  memory[23 - k][1] = InterruptInfo[k]
    <3>1. CASE k \in 1 .. 15
      <4>1. 16 - k \in 1 .. 15 /\ 23 - k = 7 + (16 - k)
        BY SMTT(60), <3>1
      <4>2. memory[23 - k][1] = PushOrder[16 - k]
        BY SMTT(60), <4>1, <2>2
      <4> QED BY <4>2, <3>1, Orders
    <3>2. CASE k \in 16 .. 22
      BY SMTT(60), <3>2, <2>1, Rest DEF Hardware, Numbered
    <3> QED BY SMTT(60), <3>1, <3>2
  <2>5. \A k \in 1 .. 15 : Field(PushOrder[k]) = taken.regs[PushOrder[k]]
    <3> TAKE k \in 1 .. 15
    <3>1. 16 - k \in 1 .. 15 /\ 16 - (16 - k) = k /\ 23 - (16 - k) = 7 + k /\ 16 - k \in 1 .. 22
      BY SMTT(60)
    <3>2. PushOrder[k] = InterruptInfo[16 - k]
      BY <3>1, Orders
    <3>3. Field(InterruptInfo[16 - k]) = memory[7 + k][2]
      BY <3>1, <2>3
    <3> QED BY SMTT(60), <3>2, <3>3, <2>2
  <2>6. /\ Field("error_code") = memory[6][2] /\ Field("rip") = memory[5][2]
        /\ Field("rflags") = memory[3][2] /\ Field("rsp") = memory[2][2]
    BY SMTT(60), <2>3, Rest
  <2>7. \A k \in 1 .. FRAME : memory[info + 1 - k][1] = InterruptInfo[k]
    BY SMTT(60), <2>1, <2>4, Sizes
  <2>8. \A r \in Registers : Field(r) = taken.regs[r]
    BY <2>5, RegistersAre
  <2>9. Field("int_number") = taken.int_number
    BY Fields
  <2> QED
    BY SMTT(60), <2>1, <2>6, <2>7, <2>8, <2>9 DEF Hardware, Numbered
<1> QED BY <1>1, Inductive, PTL

(***************************************************************************)
(* Once an exception has hit a handler, iretq of the exception returns to  *)
(* that handler, whose own iretq returns to it again: never to main.       *)
(***************************************************************************)
THEOREM NestedNeverReturns == Spec => []NestingLosesMain
<1>1. IInv => NestingLosesMain
  BY DEF IInv, NestingLosesMain
<1> QED BY <1>1, Inductive, PTL

(***************************************************************************)
(* iretq gives the interrupted code its stack and its registers back; only *)
(* rax can differ, and only if the handler has set it.                     *)
(***************************************************************************)
THEOREM IretqRestores == Spec => StateRestored
<1>1. IInv /\ [Next]_vars => [Resumes]_vars
  <2> SUFFICES ASSUME IInv, iretq, ~ nested
               PROVE  /\ pc' = taken.rip /\ rsp' = taken.rsp
                      /\ \A r \in Registers :
                           \/ regs'[r] = taken.regs[r]
                           \/ /\ r = "rax" /\ HANDLERS[taken.int_number] = "changes"
                              /\ regs'[r] = "result"
    BY DEF Resumes
  <2> QED BY Pops DEF Changed
<1> QED BY <1>1, Inductive, PTL DEF Spec, StateRestored

=============================================================================
