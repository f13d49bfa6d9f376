--------------------------- MODULE InterruptLatency ---------------------------
(***************************************************************************)
(* I8080Interrupts with two history variables, to state what the grace     *)
(* instruction of EI does to the latency of an interrupt.  The history     *)
(* variables record, they never constrain: hiding them gives back          *)
(* I8080Interrupts!Spec.                                                   *)
(***************************************************************************)
EXTENDS I8080Interrupts

VARIABLES
  ei_run,  \* the run of EIs that just executed: 0 empty, 1 odd, 2 even
  waited   \* instructions run since a request first found INTE set, to 2 at most

hvars == <<vars, ei_run, waited>>

HInit ==
  /\ Init
  /\ ei_run = 0
  /\ waited = 0

(* An opcode that executes either extends the run of EIs or ends it. *)
RunAfter(op) == IF op # "EI" THEN 0 ELSE IF ei_run = 1 THEN 2 ELSE 1

(* The wait goes on while the request is pending and INTE stays set. *)
WaitAfterStep ==
  waited' = IF ~(int_pending /\ inte /\ int_pending' /\ inte') THEN 0
            ELSE IF waited < 2 THEN waited + 1 ELSE waited

HReset == Reset /\ ei_run' = 0 /\ waited' = 0

HInterrupt ==
  /\ \E v \in Vectors : Interrupt(v)
  /\ UNCHANGED <<ei_run, waited>>

HAcknowledge ==
  /\ Acknowledge
  /\ ei_run' = RunAfter(int_vector)
  /\ WaitAfterStep

HHaltCycle ==
  /\ HaltCycle
  /\ UNCHANGED ei_run
  /\ WaitAfterStep

HInstruction(op) ==
  /\ Instruction(op)
  /\ ei_run' = RunAfter(op)
  /\ WaitAfterStep

HNext ==
  \/ HReset
  \/ HInterrupt
  \/ HAcknowledge
  \/ HHaltCycle
  \/ \E op \in Opcode : HInstruction(op)

HSpec == HInit /\ [][HNext]_hvars

(* The host keeps calling i8080_step: umk_run_cycles in the event loop, or   *)
(* presses of the step button.  Resets and requests may never come.          *)
HStep == HAcknowledge \/ HHaltCycle \/ \E op \in Opcode : HInstruction(op)

HFairSpec == HSpec /\ WF_hvars(HStep)

-----------------------------------------------------------------------------
HTypeOK == TypeOK /\ ei_run \in 0..2 /\ waited \in 0..2

(* The delay is owed exactly after an odd run of EIs: an EI that follows an  *)
(* EI whose grace is still owed is itself that grace instruction.            *)
DelayIsParity == int_delay = 1 <=> ei_run = 1

(* A request that finds interrupts enabled waits for at most one             *)
(* instruction, however many EIs the program executes.                       *)
AtMostOneInstructionLate == waited <= 1

(* i8080.h on int_delay, read for every EI: "after EI one more instruction   *)
(* executes before an interrupt can be recognised".  The second EI of a pair *)
(* breaks it.                                                                *)
NoInterruptRightAfterEI == ei_run > 0 => ~CanAcknowledge
=============================================================================
