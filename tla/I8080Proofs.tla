------------------------------ MODULE I8080Proofs ------------------------------
(***************************************************************************)
(* Proofs about the interrupt control of the 8080 emulator, for every set  *)
(* of vectors: types, the wake-up invariants, the fate of a request, and   *)
(* the exact grace and latency that EI gives.                              *)
(***************************************************************************)
EXTENDS InterruptLatency, SequenceTheorems, TLAPS

(* Literal sequences of at most four elements of a set are sequences over it. *)
LEMMA ShortSequences ==
  ASSUME NEW S, NEW a \in S, NEW b \in S, NEW c \in S, NEW d \in S
  PROVE  {<< >>, <<a>>, <<a, b>>, <<a, b, c>>, <<a, b, c, d>>} \subseteq Seq(S)
<1>1. << >> \in Seq(S)
  BY EmptySeq
<1>2. <<a>> \in Seq(S)
  OBVIOUS
<1>3. <<a, b>> \in Seq(S)
  OBVIOUS
<1>4. <<a, b, c>> \in Seq(S)
  OBVIOUS
<1>5. <<a, b, c, d>> \in Seq(S)
  OBVIOUS
<1> QED
  BY <1>1, <1>2, <1>3, <1>4, <1>5

(* Every tail of bus cycles that execute may log is made of status words. *)
LEMMA TailsType ==
  ASSUME NEW op \in Opcode, NEW tail \in Tails(op)
  PROVE  tail \in Seq(Status)
<1>1. {MEMR, MEMW, STACKR, STACKW, INPR, OUTW} \subseteq Status
  BY DEF Status
<1>2. {<< >>, <<MEMR>>, <<MEMR, MEMR>>, <<MEMR, MEMR, MEMR>>,
       <<MEMR, MEMR, MEMR, MEMR>>} \subseteq Seq(Status)
  BY <1>1, ShortSequences
<1>3. {<<MEMW>>, <<MEMR, MEMW>>, <<MEMR, MEMR, MEMW>>,
       <<MEMR, MEMR, MEMW, MEMW>>} \subseteq Seq(Status)
  BY <1>1, ShortSequences
<1>4. {<<STACKW, STACKW>>, <<STACKR, STACKR>>,
       <<STACKR, STACKR, STACKW, STACKW>>,
       <<MEMR, MEMR, STACKW, STACKW>>} \subseteq Seq(Status)
  <2>1. <<STACKW, STACKW>> \in Seq(Status)
    BY <1>1
  <2>2. <<STACKR, STACKR>> \in Seq(Status)
    BY <1>1
  <2>3. <<STACKR, STACKR, STACKW, STACKW>> \in Seq(Status)
    BY <1>1
  <2>4. <<MEMR, MEMR, STACKW, STACKW>> \in Seq(Status)
    BY <1>1
  <2> QED
    BY <2>1, <2>2, <2>3, <2>4
<1>5. {<<MEMR, INPR>>, <<MEMR, OUTW>>} \subseteq Seq(Status)
  BY <1>1
<1> QED
  BY <1>2, <1>3, <1>4, <1>5, Zenon DEF Opcode, Tails

(* A step's trace, first cycle and tail together, is made of status words. *)
LEMMA TraceType ==
  ASSUME NEW op \in Opcode, NEW tail \in Tails(op),
         NEW first \in {FETCH, INTA, INTA_HALT}
  PROVE  <<first>> \o tail \in Seq(Status)
<1>1. tail \in Seq(Status)
  BY TailsType
<1>2. <<first>> \in Seq(Status)
  BY DEF Status
<1> QED
  BY <1>1, <1>2

-----------------------------------------------------------------------------
(* The inductive invariant.  HaltedCanWake needs GraceOnlyWhileEnabled and   *)
(* the type of int_delay: HLT may execute with the grace of EI still owed,   *)
(* and it is that very instruction that consumes it.                         *)
IInv == TypeOK /\ HaltedCanWake /\ GraceOnlyWhileEnabled

(* The invariant holds after a reset. *)
LEMMA InitIInv == Init => IInv
<1> SUFFICES ASSUME Init
             PROVE  IInv
  OBVIOUS
<1>1. TypeOK
  <2>1. inte \in BOOLEAN /\ halted \in BOOLEAN /\ int_pending \in BOOLEAN
    BY DEF Init
  <2>2. int_vector \in Opcode /\ int_delay \in {0, 1}
    BY DEF Init, Opcode
  <2>3. mc \in Seq(Status)
    BY DEF Init
  <2> QED
    BY <2>1, <2>2, <2>3, Zenon DEF TypeOK
<1>2. HaltedCanWake
  BY DEF Init, HaltedCanWake
<1>3. GraceOnlyWhileEnabled
  BY DEF Init, GraceOnlyWhileEnabled
<1> QED
  BY <1>1, <1>2, <1>3, Zenon DEF IInv

(* The delay an instruction leaves is 0 or 1, and it is 1 only after an EI    *)
(* that found no delay owed.                                                  *)
LEMMA DelayType ==
  ASSUME NEW op, NEW d \in {0, 1}
  PROVE  /\ DelayAfter(op, d) \in {0, 1}
         /\ GraceAfter(op, d) \in {0, 1}
         /\ GraceAfter(op, d) = 1 <=> op = "EI" /\ d = 0
<1>1. CASE op = "EI"
  BY <1>1 DEF DelayAfter, GraceAfter
<1>2. CASE op = "DI"
  BY <1>2 DEF DelayAfter, GraceAfter
<1>3. CASE op # "EI" /\ op # "DI"
  BY <1>3 DEF DelayAfter, GraceAfter
<1> QED
  BY <1>1, <1>2, <1>3

(* Every step keeps the types. *)
LEMMA NextTypeOK == TypeOK /\ [Next]_vars => TypeOK'
<1> SUFFICES ASSUME TypeOK, [Next]_vars
             PROVE  TypeOK'
  OBVIOUS
<1>1. inte' \in BOOLEAN /\ halted' \in BOOLEAN /\ int_pending' \in BOOLEAN
  BY DEF TypeOK, Next, vars, CpuStep, Reset, Interrupt, Acknowledge, HaltCycle,
         Instruction, InteAfter, HaltedAfter
<1>2. int_vector' \in Opcode
  BY VectorsAssumption DEF TypeOK, Next, vars, CpuStep, Reset, Interrupt,
     Acknowledge, HaltCycle, Instruction, Opcode
<1>3. int_delay' \in {0, 1}
  BY DelayType DEF TypeOK, Next, vars, CpuStep, Reset, Interrupt, Acknowledge,
     HaltCycle, Instruction
<1>4. mc' \in Seq(Status)
  <2>1. CASE Acknowledge
    <3>1. PICK tail \in Tails(int_vector) :
             mc' = <<IF halted THEN INTA_HALT ELSE INTA>> \o tail
      BY <2>1 DEF Acknowledge
    <3>2. int_vector \in Opcode
      BY DEF TypeOK
    <3> QED
      BY <3>1, <3>2, TraceType
  <2>2. ASSUME NEW op \in Opcode, Instruction(op)
        PROVE  mc' \in Seq(Status)
    <3>1. PICK tail \in Tails(op) : mc' = <<FETCH>> \o tail
      BY <2>2 DEF Instruction
    <3> QED
      BY <3>1, TraceType
  <2>3. CASE HaltCycle
    BY <2>3 DEF HaltCycle, Status
  <2>4. CASE Reset
    BY <2>4 DEF Reset
  <2>5. CASE UNCHANGED mc
    BY <2>5 DEF TypeOK
  <2> QED
    BY <2>1, <2>2, <2>3, <2>4, <2>5 DEF Next, CpuStep, Interrupt, vars
<1> QED
  BY <1>1, <1>2, <1>3, <1>4, Zenon DEF TypeOK

(* Every step keeps the invariant. *)
LEMMA NextIInv == IInv /\ [Next]_vars => IInv'
<1> SUFFICES ASSUME IInv, [Next]_vars
             PROVE  IInv'
  OBVIOUS
<1> USE DEF IInv, HaltedCanWake, GraceOnlyWhileEnabled
<1>1. TypeOK'
  BY NextTypeOK
<1>2. HaltedCanWake' /\ GraceOnlyWhileEnabled'
  <2>1. CASE Reset
    BY <2>1 DEF Reset
  <2>2. CASE Acknowledge
    <3>1. CASE int_vector = "EI"
      BY <2>2, <3>1 DEF Acknowledge, InteAfter, HaltedAfter
    <3>2. CASE int_vector # "EI"
      <4>1. int_delay' = 0
        BY <2>2, <3>2 DEF Acknowledge, CanAcknowledge, DelayAfter
      <4> QED
        BY <4>1
    <3> QED
      BY <3>1, <3>2
  <2>3. ASSUME NEW op \in Opcode, Instruction(op)
        PROVE  HaltedCanWake' /\ GraceOnlyWhileEnabled'
    <3>1. CASE op = "EI"
      BY <2>3, <3>1 DEF Instruction, InteAfter, HaltedAfter, GraceAfter, DelayAfter
    <3>2. CASE op = "DI"
      BY <2>3, <3>2 DEF Instruction, InteAfter, HaltedAfter, GraceAfter, DelayAfter
    <3>3. CASE op \notin {"EI", "DI"}
      <4>1. int_delay' = 0
        BY <2>3, <3>3 DEF TypeOK, Instruction, GraceAfter, DelayAfter
      <4> QED
        BY <4>1
    <3> QED
      BY <3>1, <3>2, <3>3
  <2>4. CASE UNCHANGED <<inte, halted, int_delay>>
    BY <2>4
  <2> QED
    BY <2>1, <2>2, <2>3, <2>4 DEF Next, CpuStep, Interrupt, HaltCycle, vars
<1> QED
  BY <1>1, <1>2

(* The invariant is one of the specification. *)
LEMMA IInvAlways == Spec => []IInv
BY InitIInv, NextIInv, PTL DEF Spec

(* Every variable keeps the type the C structure gives it, int_delay the     *)
(* values 0 and 1 only.                                                      *)
THEOREM TypeCorrect == Spec => []TypeOK
<1>1. IInv => TypeOK
  BY DEF IInv
<1> QED
  BY <1>1, IInvAlways, PTL

(* A halted CPU never owes a grace instruction, so a request can wake it.    *)
THEOREM HaltedAlwaysCanWake == Spec => []HaltedCanWake
<1>1. IInv => HaltedCanWake
  BY DEF IInv
<1> QED
  BY <1>1, IInvAlways, PTL

(* Grace is owed only while INTE is set.                                     *)
THEOREM GraceNeedsEnable == Spec => []GraceOnlyWhileEnabled
<1>1. IInv => GraceOnlyWhileEnabled
  BY DEF IInv
<1> QED
  BY <1>1, IInvAlways, PTL

(* A request leaves the latch only by a reset, or by an INTA cycle taken     *)
(* when the CPU may recognise it.                                            *)
THEOREM RequestsNeverLost == Spec => NoRequestLost
<1>1. ASSUME TypeOK, Next, int_pending, ~int_pending'
      PROVE  \/ mc' = << >>
             \/ CanAcknowledge /\ Head(mc') \in {INTA, INTA_HALT}
  <2>1. CASE Reset
    BY <2>1 DEF Reset
  <2>2. CASE Acknowledge
    <3> DEFINE first == IF halted THEN INTA_HALT ELSE INTA
    <3>1. PICK tail \in Tails(int_vector) : mc' = <<first>> \o tail
      BY <2>2 DEF Acknowledge
    <3>2. tail \in Seq(Status) /\ first \in Status
      BY <1>1, <3>1, TailsType DEF TypeOK, Status
    <3>3. Head(mc') = first
      <4> HIDE DEF first
      <4> QED
        BY <3>1, <3>2
    <3> QED
      BY <2>2, <3>3 DEF Acknowledge
  <2> QED
    BY <1>1, <2>1, <2>2 DEF Next, CpuStep, Interrupt, HaltCycle, Instruction
<1> QED
  BY <1>1, TypeCorrect, PTL DEF Spec, NoRequestLost, vars

-----------------------------------------------------------------------------
(* The latency invariant.  A request that has already waited for one         *)
(* instruction is recognisable at once: pending, enabled, no grace owed.     *)
HInv ==
  /\ IInv
  /\ ei_run \in 0..2
  /\ DelayIsParity
  /\ waited \in {0, 1}
  /\ waited = 1 => CanAcknowledge

(* The invariant with history holds after a reset. *)
LEMMA InitHInv == HInit => HInv
<1> SUFFICES ASSUME HInit
             PROVE  HInv
  OBVIOUS
<1>1. IInv
  BY InitIInv DEF HInit
<1>2. ei_run = 0 /\ waited = 0 /\ int_delay = 0
  BY DEF HInit, Init
<1> QED
  BY <1>1, <1>2 DEF HInv, DelayIsParity

(* Hiding the history gives a step of I8080Interrupts.                       *)
LEMMA HNextIsNext == [HNext]_hvars => [Next]_vars
BY DEF HNext, hvars, Next, CpuStep, HReset, HInterrupt, HAcknowledge,
       HHaltCycle, HInstruction

(* Every step keeps the invariant with history. *)
LEMMA NextHInv == HInv /\ [HNext]_hvars => HInv'
<1> SUFFICES ASSUME HInv, [HNext]_hvars
             PROVE  HInv'
  OBVIOUS
<1>1. IInv'
  BY HNextIsNext, NextIInv DEF HInv
<1>2. /\ int_delay \in {0, 1} /\ int_delay' \in {0, 1}
      /\ ei_run \in 0..2
      /\ waited \in {0, 1}
      /\ int_delay = 1 <=> ei_run = 1
      /\ waited = 1 => CanAcknowledge
      /\ halted => int_delay = 0
  BY <1>1 DEF HInv, IInv, TypeOK, DelayIsParity, HaltedCanWake
<1>3. ei_run' \in 0..2 /\ (int_delay' = 1 <=> ei_run' = 1)
  <2>1. CASE HReset
    BY <2>1 DEF HReset, Reset
  <2>2. CASE HAcknowledge
    <3>1. ei_run # 1
      BY <1>2, <2>2 DEF HAcknowledge, Acknowledge, CanAcknowledge
    <3> QED
      BY <1>2, <2>2, <3>1
         DEF HAcknowledge, Acknowledge, CanAcknowledge, DelayAfter, RunAfter
  <2>3. ASSUME NEW op \in Opcode, HInstruction(op)
        PROVE  ei_run' \in 0..2 /\ (int_delay' = 1 <=> ei_run' = 1)
    <3>1. int_delay' = 1 <=> op = "EI" /\ int_delay = 0
      BY <1>2, <2>3, DelayType DEF HInstruction, Instruction
    <3>2. ei_run' = RunAfter(op)
      BY <2>3 DEF HInstruction
    <3> QED
      BY <1>2, <3>1, <3>2 DEF RunAfter
  <2>4. CASE UNCHANGED <<int_delay, ei_run>>
    BY <1>2, <2>4
  <2> QED
    BY <2>1, <2>2, <2>3, <2>4
       DEF HNext, hvars, vars, HInterrupt, Interrupt, HHaltCycle, HaltCycle
<1>4. waited' \in {0, 1} /\ (waited' = 1 => CanAcknowledge')
  <2>1. CASE HReset
    BY <2>1 DEF HReset
  <2>2. CASE HAcknowledge
    <3>1. waited' = 0
      BY <2>2 DEF HAcknowledge, Acknowledge, WaitAfterStep
    <3> QED
      BY <3>1
  <2>3. CASE HHaltCycle
    <3>1. ~(int_pending /\ inte)
      BY <1>2, <2>3 DEF HHaltCycle, HaltCycle, CanAcknowledge
    <3>2. waited' = 0
      BY <2>3, <3>1 DEF HHaltCycle, WaitAfterStep
    <3> QED
      BY <3>2
  <2>4. ASSUME NEW op \in Opcode, HInstruction(op)
        PROVE  waited' \in {0, 1} /\ (waited' = 1 => CanAcknowledge')
    <3>1. waited = 0
      BY <1>2, <2>4 DEF HInstruction, Instruction
    <3>2. CASE int_pending /\ inte /\ int_pending' /\ inte'
      <4>1. int_delay = 1
        BY <1>2, <2>4, <3>2 DEF HInstruction, Instruction, CanAcknowledge
      <4>2. int_delay' = 0
        BY <1>2, <2>4, <4>1, DelayType DEF HInstruction, Instruction
      <4> QED
        BY <2>4, <3>1, <3>2, <4>2 DEF HInstruction, WaitAfterStep, CanAcknowledge
    <3>3. CASE ~(int_pending /\ inte /\ int_pending' /\ inte')
      <4>1. waited' = 0
        BY <2>4, <3>3 DEF HInstruction, WaitAfterStep
      <4> QED
        BY <4>1
    <3> QED
      BY <3>2, <3>3
  <2>5. CASE HInterrupt
    BY <1>2, <2>5 DEF HInterrupt, Interrupt, CanAcknowledge
  <2>6. CASE UNCHANGED hvars
    BY <1>2, <2>6 DEF hvars, vars, CanAcknowledge
  <2> QED
    BY <2>1, <2>2, <2>3, <2>4, <2>5, <2>6 DEF HNext
<1> QED
  BY <1>1, <1>3, <1>4 DEF HInv, DelayIsParity

(* The invariant with history is one of the specification with history. *)
LEMMA HInvAlways == HSpec => []HInv
BY InitHInv, NextHInv, PTL DEF HSpec

(* The history records without constraining.                                 *)
THEOREM HistoryRefines == HSpec => Spec
<1>1. HInit => Init
  BY DEF HInit
<1> QED
  BY <1>1, HNextIsNext, PTL DEF HSpec, Spec

(* The grace of EI is owed exactly after an odd run of EIs.                  *)
THEOREM GraceIsParity == HSpec => []DelayIsParity
<1>1. HInv => DelayIsParity
  BY DEF HInv
<1> QED
  BY <1>1, HInvAlways, PTL

(* A request that finds interrupts enabled waits for at most one instruction. *)
THEOREM LatencyBound == HSpec => []AtMostOneInstructionLate
<1>1. HInv => AtMostOneInstructionLate
  BY DEF HInv, AtMostOneInstructionLate
<1> QED
  BY <1>1, HInvAlways, PTL
=============================================================================
