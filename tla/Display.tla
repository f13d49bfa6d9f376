------------------------------- MODULE Display -------------------------------
(***************************************************************************)
(* The display integrator of core/src/machine.c: a leaky accumulator for   *)
(* every (digit, segment) pair, for every digit and for the whole window,  *)
(* driven by the instructions the CPU executes.  Ports A and B are the     *)
(* sets of digits selected and segments lit.                               *)
(*                                                                         *)
(* The decay loop of display_advance is one conditional step here: every   *)
(* caller integrates at most one instruction, which is shorter than a      *)
(* decay step (IntervalAssumption), so the loop never runs twice and its   *)
(* 512-step cut-off is never reached.                                      *)
(***************************************************************************)
EXTENDS Integers

CONSTANTS
  DIGITS, SEGMENTS,  \* six digits of eight segments
  ENERGY_SCALE,      \* 256
  DecayDivisor,      \* 2^DECAY_SHIFT = 64
  StepSize,          \* tau_cycles >> DECAY_SHIFT: T states between decays
  Word,              \* one more than the largest uint32_t
  Durations,         \* T states of the instructions that are not OUT
  Selections,        \* values written to port A
  Masks,             \* values written to port B
  MaxCycles          \* bound on the T states between two resets

Digit   == 0 .. DIGITS - 1
Segment == 0 .. SEGMENTS - 1
Cell    == Digit \X Segment

(* An OUT takes 10 T states and changes the port at the seventh. *)
OUT_WRITE_OFFSET == 7
OUT_CYCLES == 10

ASSUME SizeAssumption ==
  /\ {DIGITS, SEGMENTS, ENERGY_SCALE, DecayDivisor, StepSize, Word} \subseteq Nat \ {0}
  /\ Selections \subseteq SUBSET Digit
  /\ Masks \subseteq SUBSET Segment
  /\ MaxCycles \in Nat

(* No interval between two integrations is longer than a decay step. *)
ASSUME IntervalAssumption == Durations \cup {OUT_CYCLES} \subseteq 1 .. StepSize

(* The persistence is short enough for the accumulators: with the scale of   *)
(* the code, tau below 15 million T states (it is 40000).                    *)
ASSUME WordAssumption == ENERGY_SCALE * (DecayDivisor * StepSize + 2 * StepSize) < Word

VARIABLES
  energy,         \* [Cell -> uint32]
  energy_digit,   \* [Digit -> uint32]
  total,          \* uint32
  decay_acc,      \* T states since the last decay step
  integrated_to,  \* T state integrated up to
  bit0_is_left,   \* digit orientation
  sel, seg,       \* the output latches of ports A and B
  a_is_out, b_is_out, \* whether the mode word makes them outputs
  cycles,         \* the CPU's T-state counter
  lit, unlit      \* history: cells ever lit, ever dark, while their digit was
                  \* selected, since the accumulators were cleared

vars == <<energy, energy_digit, total, decay_acc, integrated_to, bit0_is_left,
          sel, seg, a_is_out, b_is_out, cycles, lit, unlit>>

-----------------------------------------------------------------------------
(* display_decay_step on one accumulator. *)
Decayed_Not(x) == x        \* mutant: a shift that leaves nothing to subtract
Decayed(x) == x - x \div DecayDivisor

Position(bit) == IF bit0_is_left THEN bit ELSE DIGITS - 1 - bit

(* Mutant: a digit is charged after the decay, its segments before. *)
display_advance_LateDigit(d, a, b, to) ==
  LET dt       == to - d.integrated_to
      dose     == dt * ENERGY_SCALE
      selected == {Position(bit) : bit \in a}
      due      == d.decay_acc + dt >= StepSize
      After(x) == IF due THEN Decayed(x) ELSE x
  IN  IF to <= d.integrated_to THEN d
      ELSE [d EXCEPT
             !.energy = [c \in Cell |-> After(IF c \in selected \X b THEN @[c] + dose ELSE @[c])],
             !.energy_digit = [p \in Digit |-> After(@[p]) + (IF p \in selected THEN dose ELSE 0)],
             !.total = After(@ + dose),
             !.decay_acc = IF due THEN @ + dt - StepSize ELSE @ + dt,
             !.integrated_to = to]

(* display_advance(to) on a display d, with ports A and B showing a and b. *)
display_advance(d, a, b, to) ==
  LET dt       == to - d.integrated_to
      dose     == dt * ENERGY_SCALE
      selected == {Position(bit) : bit \in a}
      shown    == selected \X b
      dark     == selected \X (Segment \ b)
      Charged(x, on) == IF on THEN (x + dose) % Word ELSE x
      due      == d.decay_acc + dt >= StepSize
      After(x) == IF due THEN Decayed(x) ELSE x
  IN  IF to <= d.integrated_to THEN d
      ELSE [energy        |-> [c \in Cell |-> After(Charged(d.energy[c], c \in shown))],
            energy_digit  |-> [p \in Digit |-> After(Charged(d.energy_digit[p], p \in selected))],
            total         |-> After(Charged(d.total, TRUE)),
            decay_acc     |-> IF due THEN d.decay_acc + dt - StepSize ELSE d.decay_acc + dt,
            integrated_to |-> to,
            lit           |-> d.lit \cup shown,
            unlit         |-> d.unlit \cup dark]

Now == [energy |-> energy, energy_digit |-> energy_digit, total |-> total,
        decay_acc |-> decay_acc, integrated_to |-> integrated_to,
        lit |-> lit, unlit |-> unlit]

Becomes(d) ==
  /\ energy' = d.energy /\ energy_digit' = d.energy_digit /\ total' = d.total
  /\ decay_acc' = d.decay_acc /\ integrated_to' = d.integrated_to
  /\ lit' = d.lit /\ unlit' = d.unlit

(* Mutant: the energies of the digits survive. *)
Cleared_KeepsDigits(now) ==
  [energy |-> [c \in Cell |-> 0], energy_digit |-> energy_digit,
   total |-> 0, decay_acc |-> 0, integrated_to |-> now, lit |-> {}, unlit |-> {}]

(* umk_display_clear_accumulator, the clock standing at `now`. *)
Cleared(now) ==
  [energy |-> [c \in Cell |-> 0], energy_digit |-> [p \in Digit |-> 0],
   total |-> 0, decay_acc |-> 0, integrated_to |-> now, lit |-> {}, unlit |-> {}]

-----------------------------------------------------------------------------
Init ==
  /\ energy = [c \in Cell |-> 0]
  /\ energy_digit = [p \in Digit |-> 0]
  /\ total = 0
  /\ decay_acc = 0
  /\ integrated_to = 0
  /\ bit0_is_left = TRUE
  /\ sel = {} /\ seg = {}
  /\ a_is_out = FALSE /\ b_is_out = FALSE
  /\ cycles = 0
  /\ lit = {} /\ unlit = {}

WithinBound == cycles < MaxCycles

(* exec_one of an instruction that does not write ports A, B or control. *)
Execute(t) ==
  /\ WithinBound
  /\ cycles' = cycles + t
  /\ Becomes(display_advance(Now, sel, seg, cycles + t))
  /\ UNCHANGED <<bit0_is_left, sel, seg, a_is_out, b_is_out>>

(* exec_one of an OUT: bus_out integrates up to the write, with the old      *)
(* ports, and exec_one the rest with the new ones.                           *)
Out(a, b) ==
  LET before == display_advance(Now, sel, seg, cycles + OUT_WRITE_OFFSET)
  IN  /\ WithinBound
      /\ cycles' = cycles + OUT_CYCLES
      /\ sel' = a /\ seg' = b
      /\ Becomes(display_advance(before, a, b, cycles + OUT_CYCLES))
      /\ UNCHANGED bit0_is_left

(* A port that is an input ignores the write, after the display has already *)
(* been integrated up to it.                                                 *)
OutA ==
  /\ \E a \in Selections : Out(IF a_is_out THEN a ELSE sel, seg)
  /\ UNCHANGED <<a_is_out, b_is_out>>

OutB ==
  /\ \E b \in Masks : Out(sel, IF b_is_out THEN b ELSE seg)
  /\ UNCHANGED <<a_is_out, b_is_out>>

(* A mode word sets the directions and clears the latches; a bit set or      *)
(* reset of port C only integrates.                                          *)
OutMode ==
  /\ Out({}, {})
  /\ a_is_out' \in BOOLEAN /\ b_is_out' \in BOOLEAN

OutBit == Out(sel, seg) /\ UNCHANGED <<a_is_out, b_is_out>>

(* Mutant: the accumulators are cleared before the CPU is reset. *)
Reset_DisplayFirst ==
  /\ cycles' = 0
  /\ sel' = {} /\ seg' = {}
  /\ a_is_out' = FALSE /\ b_is_out' = FALSE
  /\ Becomes(Cleared(cycles))
  /\ UNCHANGED bit0_is_left

(* umk_reset: the CPU's clock restarts and the port latches are cleared. *)
Reset ==
  /\ cycles' = 0
  /\ sel' = {} /\ seg' = {}
  /\ a_is_out' = FALSE /\ b_is_out' = FALSE
  /\ Becomes(Cleared(0))
  /\ UNCHANGED bit0_is_left

Clear ==
  /\ Becomes(Cleared(cycles))
  /\ UNCHANGED <<bit0_is_left, sel, seg, a_is_out, b_is_out, cycles>>

(* umk_display_set_digit_order: energies of the old order make no sense. *)
SetDigitOrder ==
  /\ bit0_is_left' \in BOOLEAN
  /\ Becomes(Cleared(cycles))
  /\ UNCHANGED <<sel, seg, a_is_out, b_is_out, cycles>>

Next ==
  \/ \E t \in Durations : Execute(t)
  \/ OutA
  \/ OutB
  \/ OutMode
  \/ OutBit
  \/ Reset
  \/ Clear
  \/ SetDigitOrder

Spec == Init /\ [][Next]_vars

-----------------------------------------------------------------------------
TypeOK ==
  /\ energy \in [Cell -> Nat]
  /\ energy_digit \in [Digit -> Nat]
  /\ total \in Nat
  /\ decay_acc \in 0 .. StepSize - 1
  /\ cycles \in Nat
  /\ integrated_to = cycles
  /\ bit0_is_left \in BOOLEAN
  /\ sel \subseteq Digit /\ seg \subseteq Segment
  /\ a_is_out \in BOOLEAN /\ b_is_out \in BOOLEAN
  /\ lit \subseteq Cell /\ unlit \subseteq Cell

(* A segment never holds more energy than its digit, nor a digit more than   *)
(* the window: the shifts of the decay, which round differently for every    *)
(* accumulator, never invert them, so the clamps at 255 of                   *)
(* umk_display_intensity and umk_display_relative never act.                 *)
EnergyOrdered ==
  \A p \in Digit :
    /\ \A s \in Segment : energy[<<p, s>>] <= energy_digit[p]
    /\ energy_digit[p] <= total

(* "A clean digit gives 255 or 0 on every segment" (umk80.h): a segment lit  *)
(* whenever its digit was selected has exactly the energy of the digit, one  *)
(* never lit has none.                                                       *)
CleanDigitIsExact ==
  \A p \in Digit, s \in Segment :
    /\ <<p, s>> \notin unlit => energy[<<p, s>>] = energy_digit[p]
    /\ <<p, s>> \notin lit => energy[<<p, s>>] = 0

(* The decay keeps the window below a fixed bound, so the 32-bit             *)
(* accumulators never wrap.                                                  *)
TotalBounded == total <= ENERGY_SCALE * (DecayDivisor * StepSize + decay_acc)
=============================================================================
