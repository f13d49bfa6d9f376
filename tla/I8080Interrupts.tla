--------------------------- MODULE I8080Interrupts ---------------------------
(***************************************************************************)
(* Interrupt, halt and machine-cycle control of the 8080 emulator          *)
(* (core/src/i8080.c).  Registers, memory and T states are abstracted      *)
(* away: the fetched opcode is any opcode, named by the class that fixes   *)
(* which bus cycles `execute` makes and what it does to INTE, HLT and the  *)
(* grace instruction of EI.  Module Machine runs real opcodes and is shown *)
(* to implement this one.                                                  *)
(***************************************************************************)
EXTENDS Integers, Sequences

CONSTANT Vectors  \* opcode classes the interrupt logic may jam in at INTA

(* Status words of the 8080's machine cycles. *)
FETCH     == \hA2
MEMR      == \h82
MEMW      == \h00
STACKR    == \h86
STACKW    == \h04
INPR      == \h42
OUTW      == \h10
INTA      == \h23
HALTA     == \h8A
INTA_HALT == \h2B

Status == {FETCH, MEMR, MEMW, STACKR, STACKW, INPR, OUTW, INTA, HALTA, INTA_HALT}

(***************************************************************************)
(* Opcode classes: one for every way `execute` drives the bus.             *)
(*   REG   register-only (MOV r,r; ALU r; rotates; DAD; XCHG; NOP ...)     *)
(*   READ  one read or one immediate (LDAX, MOV r,M, ALU M, MVI r, ALI)    *)
(*   WRITE one write (STAX, MOV M,r)    RMW  INR M, DCR M, MVI M           *)
(*   IMM2  LXI, JMP, Jcc                CCC, RCC  conditional call/return  *)
(***************************************************************************)
Opcode == {"REG", "EI", "DI", "HLT", "READ", "WRITE", "RMW", "IMM2", "STA",
           "LDA", "SHLD", "LHLD", "PUSH", "RST", "POP", "RET", "RCC", "XTHL",
           "CALL", "CCC", "IN", "OUT"}

ASSUME VectorsAssumption == Vectors \subseteq Opcode

(* The status words `execute` may log for an opcode, after the first cycle. *)
Tails(op) ==
  CASE op \in {"REG", "EI", "DI", "HLT"} -> {<< >>}
    [] op = "READ"            -> {<<MEMR>>}
    [] op = "WRITE"           -> {<<MEMW>>}
    [] op = "RMW"             -> {<<MEMR, MEMW>>}
    [] op = "IMM2"            -> {<<MEMR, MEMR>>}
    [] op = "STA"             -> {<<MEMR, MEMR, MEMW>>}
    [] op = "LDA"             -> {<<MEMR, MEMR, MEMR>>}
    [] op = "SHLD"            -> {<<MEMR, MEMR, MEMW, MEMW>>}
    [] op = "LHLD"            -> {<<MEMR, MEMR, MEMR, MEMR>>}
    [] op \in {"PUSH", "RST"} -> {<<STACKW, STACKW>>}
    [] op \in {"POP", "RET"}  -> {<<STACKR, STACKR>>}
    [] op = "RCC"             -> {<< >>, <<STACKR, STACKR>>}
    [] op = "XTHL"            -> {<<STACKR, STACKR, STACKW, STACKW>>}
    [] op = "CALL"            -> {<<MEMR, MEMR, STACKW, STACKW>>}
    [] op = "CCC"             -> {<<MEMR, MEMR>>, <<MEMR, MEMR, STACKW, STACKW>>}
    [] op = "IN"              -> {<<MEMR, INPR>>}
    [] op = "OUT"             -> {<<MEMR, OUTW>>}

(* What `execute` leaves in INTE, the HLT flag and the EI delay. *)
InteAfter(op, i)   == op = "EI" \/ (i /\ op # "DI")
HaltedAfter(op, h) == h \/ op = "HLT"
DelayAfter_Counts(op, d) == IF op = "EI" THEN d + 1    \* mutant: int_delay++
                            ELSE IF op = "DI" THEN 0 ELSE d
DelayAfter(op, d)  == IF op = "EI" THEN 1 ELSE IF op = "DI" THEN 0 ELSE d

-----------------------------------------------------------------------------
VARIABLES
  inte,         \* interrupt enable flip-flop
  halted,       \* inside HLT
  int_pending,  \* a request is waiting (one latch: requests coalesce)
  int_vector,   \* the opcode that request jams in
  int_delay,    \* grace instructions EI still owes before recognition
  mc            \* status words of the last i8080_step's machine cycles

vars == <<inte, halted, int_pending, int_vector, int_delay, mc>>

TypeOK ==
  /\ inte \in BOOLEAN
  /\ halted \in BOOLEAN
  /\ int_pending \in BOOLEAN
  /\ int_vector \in Opcode
  /\ int_delay \in {0, 1}
  /\ mc \in Seq(Status)

Init ==
  /\ inte = FALSE
  /\ halted = FALSE
  /\ int_pending = FALSE
  /\ int_vector = "REG"       \* 0, which decodes as NOP
  /\ int_delay = 0
  /\ mc = << >>

(* i8080_reset *)
Reset ==
  /\ inte' = FALSE
  /\ halted' = FALSE
  /\ int_pending' = FALSE
  /\ int_vector' = "REG"
  /\ int_delay' = 0
  /\ mc' = << >>

(* i8080_interrupt: a second request before service only replaces the vector. *)
Interrupt(v) ==
  /\ int_pending' = TRUE
  /\ int_vector' = v
  /\ UNCHANGED <<inte, halted, int_delay, mc>>

CanAcknowledge_AtOnce == int_pending /\ inte          \* mutant: no grace
CanAcknowledge == int_pending /\ inte /\ int_delay = 0

(* First branch of i8080_step: INTA, then the jammed opcode executes without *)
(* a fetch and without the grace bookkeeping of an ordinary instruction.     *)
Acknowledge ==
  /\ CanAcknowledge
  /\ int_pending' = FALSE
  /\ inte' = InteAfter(int_vector, FALSE)
  /\ halted' = HaltedAfter(int_vector, FALSE)
  /\ int_delay' = DelayAfter(int_vector, int_delay)
  /\ \E tail \in Tails(int_vector) :
        mc' = <<IF halted THEN INTA_HALT ELSE INTA>> \o tail
  /\ UNCHANGED int_vector

HaltCycle_Consumes ==    \* mutant: the request is dropped while halted
  /\ ~CanAcknowledge
  /\ halted
  /\ mc' = <<HALTA>>
  /\ int_pending' = FALSE
  /\ UNCHANGED <<inte, halted, int_vector, int_delay>>

(* Second branch: while halted, only halt-acknowledge cycles. *)
HaltCycle ==
  /\ ~CanAcknowledge
  /\ halted
  /\ mc' = <<HALTA>>
  /\ UNCHANGED <<inte, halted, int_pending, int_vector, int_delay>>

GraceAfter_Kept(op, before) == DelayAfter(op, before)   \* mutant: never consumed

GraceAfter_Rearmed(op, before) ==                       \* mutant: every EI re-arms
  IF op = "EI" THEN 1 ELSE 0

(* The grace of EI is consumed by the next instruction, unless that          *)
(* instruction changed the delay itself.                                     *)
GraceAfter(op, before) ==
  LET after == DelayAfter(op, before)
  IN  IF before > 0 /\ after = before THEN after - 1 ELSE after

(* Third branch: fetch and execute one instruction. *)
Instruction(op) ==
  /\ ~CanAcknowledge
  /\ ~halted
  /\ inte' = InteAfter(op, inte)
  /\ halted' = HaltedAfter(op, halted)
  /\ int_delay' = GraceAfter(op, int_delay)
  /\ \E tail \in Tails(op) : mc' = <<FETCH>> \o tail
  /\ UNCHANGED <<int_pending, int_vector>>

(* i8080_step *)
CpuStep ==
  \/ Acknowledge
  \/ HaltCycle
  \/ \E op \in Opcode : Instruction(op)

Next ==
  \/ Reset
  \/ \E v \in Vectors : Interrupt(v)
  \/ CpuStep

Spec == Init /\ [][Next]_vars

-----------------------------------------------------------------------------
(* A halted CPU never owes a grace instruction: no instruction would ever    *)
(* consume it, so an interrupt could no longer wake the CPU (EI; HLT is the  *)
(* idle loop of every interrupt-driven program).                             *)
HaltedCanWake == halted => int_delay = 0

(* Grace is owed only while interrupts are enabled: DI cancels it, and so    *)
(* does the disabling that comes with an acknowledgement.                    *)
GraceOnlyWhileEnabled == int_delay > 0 => inte

(* A pending request disappears only by being acknowledged on the bus, at a  *)
(* moment when the CPU may recognise it, or by a reset.                      *)
NoRequestLost ==
  [][int_pending /\ ~int_pending' =>
       \/ mc' = << >>
       \/ CanAcknowledge /\ Head(mc') \in {INTA, INTA_HALT}]_vars

(* A request that finds interrupts enabled is acknowledged, unless the       *)
(* program disables interrupts (or the machine is reset) first.              *)
RequestServed == int_pending /\ inte ~> ~int_pending \/ ~inte

(* A halted CPU with interrupts enabled is woken by a request, unless the    *)
(* opcode jammed in is itself a HLT, which halts it again.                   *)
WakesFromHalt == halted /\ int_pending /\ inte ~> ~halted \/ int_vector = "HLT"
=============================================================================
