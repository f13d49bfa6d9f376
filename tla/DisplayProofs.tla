---------------------------- MODULE DisplayProofs ----------------------------
(***************************************************************************)
(* Safety of the display integrator for every number of digits and         *)
(* segments and every persistence that WordAssumption allows.              *)
(***************************************************************************)
EXTENDS Display, TLAPS

-----------------------------------------------------------------------------
(* Arithmetic of the decay.                                                *)

(* The quotient as the only integer it can be. *)
LEMMA DivBounds ==
  ASSUME NEW D \in Nat \ {0}, NEW x \in Nat
  PROVE  /\ x \div D \in Nat
         /\ D * (x \div D) <= x
         /\ x < D * (x \div D) + D
OBVIOUS

(* Multiplication by a natural number is monotone. *)
LEMMA TimesMonotone ==
  ASSUME NEW D \in Nat, NEW a \in Int, NEW b \in Int, a <= b
  PROVE  D * a <= D * b
OBVIOUS

(* A quotient is at least k as soon as k divisors fit. *)
LEMMA DivAtLeast ==
  ASSUME NEW D \in Nat \ {0}, NEW x \in Nat, NEW k \in Nat, D * k <= x
  PROVE  k <= x \div D
<1>1. SUFFICES ASSUME x \div D + 1 <= k PROVE FALSE
  BY DivBounds
<1>2. D * (x \div D + 1) <= D * k
  BY <1>1, TimesMonotone, DivBounds
<1>3. D * (x \div D + 1) = D * (x \div D) + D
  BY DivBounds
<1> QED
  BY <1>2, <1>3, DivBounds

(* A decay step gives a natural number, never a larger one. *)
LEMMA DecayedSmaller ==
  ASSUME NEW x \in Nat
  PROVE  Decayed(x) \in Nat /\ Decayed(x) <= x
<1>1. /\ x \div DecayDivisor \in Nat
      /\ DecayDivisor * (x \div DecayDivisor) <= x
      /\ DecayDivisor \in Nat \ {0}
  BY DivBounds, SizeAssumption
<1>2. x \div DecayDivisor <= DecayDivisor * (x \div DecayDivisor)
  BY <1>1
<1> QED
  BY <1>1, <1>2 DEF Decayed

(* The rounded decay keeps the order of two accumulators. *)
LEMMA DecayedMonotone ==
  ASSUME NEW x \in Nat, NEW y \in Nat, x <= y
  PROVE  Decayed(x) <= Decayed(y)
<1> DEFINE D == DecayDivisor
           p == x \div DecayDivisor
           q == y \div DecayDivisor
<1>1. /\ D \in Nat \ {0}
      /\ p \in Nat /\ D * p <= x /\ x < D * p + D
      /\ q \in Nat /\ D * q <= y /\ y < D * q + D
  BY DivBounds, SizeAssumption
<1>2. Decayed(x) = x - p /\ Decayed(y) = y - q
  BY DEF Decayed
<1> HIDE DEF D, p, q
<1>3. CASE q <= p
  BY <1>1, <1>2, <1>3
<1>4. CASE q >= p + 1
  <2>1. q - p - 1 \in Nat
    BY <1>1, <1>4
  <2>2. D * q - D * p - D = D * (q - p - 1)
    BY <1>1
  <2>3. D * (q - p - 1) >= q - p - 1
    BY <1>1, <2>1
  <2>4. y - x >= q - p
    BY <1>1, <2>2, <2>3
  <2> QED
    BY <2>4, <1>1, <1>2
<1> QED
  BY <1>1, <1>3, <1>4

-----------------------------------------------------------------------------
(* The invariant, of a display d: the properties of Display with d's fields  *)
(* in place of the variables.                                                *)
Bound(acc) == ENERGY_SCALE * (DecayDivisor * StepSize + acc)

ValidType(d) ==
  /\ d.energy \in [Cell -> Nat]
  /\ d.energy_digit \in [Digit -> Nat]
  /\ d.total \in Nat
  /\ d.decay_acc \in 0 .. StepSize - 1
  /\ d.integrated_to \in Nat
  /\ d.lit \subseteq Cell
  /\ d.unlit \subseteq Cell

ValidOrder(d) ==
  \A p \in Digit :
    /\ \A s \in Segment : d.energy[<<p, s>>] <= d.energy_digit[p]
    /\ d.energy_digit[p] <= d.total

ValidClean(d) ==
  \A p \in Digit, s \in Segment :
    /\ <<p, s>> \notin d.unlit => d.energy[<<p, s>>] = d.energy_digit[p]
    /\ <<p, s>> \notin d.lit => d.energy[<<p, s>>] = 0

ValidBound(d) == d.total <= Bound(d.decay_acc)

Valid(d) == ValidType(d) /\ ValidOrder(d) /\ ValidClean(d) /\ ValidBound(d)

(* Every bit of port A selects a position of the window. *)
LEMMA PositionInRange ==
  ASSUME NEW bit \in Digit
  PROVE  Position(bit) \in Digit
BY SizeAssumption DEF Digit, Position

(* A dose fits: the accumulators never wrap at Word. *)
LEMMA NoWrap ==
  ASSUME NEW total0 \in Nat, NEW acc \in 0 .. StepSize - 1, total0 <= Bound(acc),
         NEW dt \in 1 .. StepSize, NEW x \in Nat, x <= total0
  PROVE  (x + dt * ENERGY_SCALE) % Word = x + dt * ENERGY_SCALE
<1> DEFINE S == ENERGY_SCALE
           full == DecayDivisor * StepSize
<1>1. S \in Nat /\ full \in Nat /\ StepSize \in Nat /\ Word \in Nat
  BY SizeAssumption
<1>2. S * (full + 2 * StepSize) < Word
  BY WordAssumption
<1>3. x <= S * (full + acc)
  <2>1. Bound(acc) = S * (full + acc)
    BY DEF Bound
  <2>2. S * (full + acc) \in Nat
    BY <1>1
  <2> HIDE DEF full
  <2> QED
    BY <2>1, <2>2
<1> HIDE DEF full
<1>4. x + dt * S <= S * (full + acc + dt)
  <2>1. S * (full + acc + dt) = S * (full + acc) + dt * S
    BY <1>1
  <2> QED
    BY <2>1, <1>1, <1>3
<1>5. S * (full + acc + dt) <= S * (full + 2 * StepSize)
  BY <1>1, TimesMonotone
<1>6. x + dt * S \in Nat /\ x + dt * S < Word
  BY <1>1, <1>2, <1>4, <1>5
<1> QED
  BY <1>1, <1>6

(* One decay step brings a total that has grown by a dose back to the bound. *)
LEMMA DecayRestoresBound ==
  ASSUME NEW x \in Nat, NEW acc \in StepSize .. 2 * StepSize,
         x <= Bound(acc)
  PROVE  Decayed(x) <= Bound(acc - StepSize)
<1> DEFINE S == ENERGY_SCALE
           D == DecayDivisor
           full == D * StepSize
           low  == S * (full + (acc - StepSize))
<1>1. /\ S \in Nat /\ D \in Nat \ {0} /\ StepSize \in Nat /\ full \in Nat
      /\ acc - StepSize \in Nat /\ acc \in Nat
  BY SizeAssumption
<1>2. Bound(acc - StepSize) = low /\ Bound(acc) = low + S * StepSize /\ low \in Nat
  BY <1>1 DEF Bound
<1>3. D * (S * StepSize) = S * full
  BY <1>1
<1>4. S * full <= low
  BY <1>1, TimesMonotone
<1>5. S * StepSize \in Nat
  BY <1>1
<1>6. Decayed(x) \in Nat /\ Decayed(x) <= x
  BY DecayedSmaller
<1> HIDE DEF low, full
<1>7. CASE x <= low
  BY <1>2, <1>6, <1>7
<1>8. CASE x > low
  <2>1. D * (S * StepSize) <= x
    BY <1>1, <1>2, <1>3, <1>4, <1>5, <1>8
  <2>2. S * StepSize <= x \div D
    BY <1>1, <1>5, <2>1, DivAtLeast
  <2>3. x \div D \in Nat
    BY <1>1, DivBounds
  <2> QED
    BY <1>2, <1>5, <2>2, <2>3 DEF Decayed
<1> QED
  BY <1>2, <1>7, <1>8

-----------------------------------------------------------------------------
(* Integrating an interval no longer than a decay step keeps the display     *)
(* valid, whatever the ports show, and reaches the T state asked for.        *)
LEMMA AdvanceValid ==
  ASSUME NEW d, Valid(d), NEW a \in SUBSET Digit, NEW b \in SUBSET Segment,
         NEW to \in Nat, to - d.integrated_to \in 0 .. StepSize
  PROVE  /\ Valid(display_advance(d, a, b, to))
         /\ display_advance(d, a, b, to).integrated_to = to
<1>1. CASE to = d.integrated_to
  BY <1>1 DEF display_advance, Valid, ValidType
<1>2. CASE to # d.integrated_to
  <2> DEFINE dt       == to - d.integrated_to
             dose     == dt * ENERGY_SCALE
             selected == {Position(bit) : bit \in a}
             shown    == selected \X b
             dark     == selected \X (Segment \ b)
             Charged(x, on) == IF on THEN (x + dose) % Word ELSE x
             due      == d.decay_acc + dt >= StepSize
             After(x) == IF due THEN Decayed(x) ELSE x
             r        == display_advance(d, a, b, to)
  <2> USE SizeAssumption
  <2>1. dt \in 1 .. StepSize /\ dose \in Nat
    BY <1>2 DEF Valid, ValidType
  <2>2. /\ r.energy = [c \in Cell |-> After(Charged(d.energy[c], c \in shown))]
        /\ r.energy_digit = [p \in Digit |-> After(Charged(d.energy_digit[p], p \in selected))]
        /\ r.total = After(Charged(d.total, TRUE))
        /\ r.decay_acc = IF due THEN d.decay_acc + dt - StepSize ELSE d.decay_acc + dt
        /\ r.integrated_to = to
        /\ r.lit = d.lit \cup shown
        /\ r.unlit = d.unlit \cup dark
    BY <1>2, <2>1 DEF display_advance, Valid, ValidType
  <2>3. selected \subseteq Digit /\ shown \subseteq Cell /\ dark \subseteq Cell
    BY PositionInRange DEF Cell
  <2>4. ASSUME NEW x \in Nat, x <= d.total
        PROVE  (x + dose) % Word = x + dose
    BY <2>1, <2>4, NoWrap DEF Valid, ValidType, ValidBound
  <2>5. ASSUME NEW x \in Nat
        PROVE  After(x) \in Nat /\ After(x) <= x
    BY DecayedSmaller
  <2>6. ASSUME NEW x \in Nat, NEW y \in Nat, x <= y
        PROVE  After(x) <= After(y)
    BY <2>6, DecayedMonotone
  <2>7. ASSUME NEW p \in Digit, NEW s \in Segment
        PROVE  /\ <<p, s>> \in Cell
               /\ d.energy[<<p, s>>] \in Nat /\ d.energy_digit[p] \in Nat /\ d.total \in Nat
               /\ d.energy[<<p, s>>] <= d.energy_digit[p]
               /\ d.energy_digit[p] <= d.total
               /\ d.energy[<<p, s>>] <= d.total
               /\ (<<p, s>> \in shown) <=> (p \in selected /\ s \in b)
               /\ (<<p, s>> \in dark) <=> (p \in selected /\ s \notin b)
    <3>1. <<p, s>> \in Cell
      BY DEF Cell
    <3>2. /\ d.energy[<<p, s>>] \in Nat /\ d.energy_digit[p] \in Nat /\ d.total \in Nat
      BY <3>1 DEF Valid, ValidType
    <3>3. d.energy[<<p, s>>] <= d.energy_digit[p] /\ d.energy_digit[p] <= d.total
      BY DEF Valid, ValidOrder
    <3> QED
      BY <3>1, <3>2, <3>3
  <2>8. ASSUME NEW p \in Digit
        PROVE  d.energy_digit[p] \in Nat /\ d.total \in Nat /\ d.energy_digit[p] <= d.total
    BY DEF Valid, ValidType, ValidOrder
  <2> HIDE DEF r, shown, dark, selected, Charged, After, due, dose, dt
  <2>9. ValidType(r)
    <3>1. r.energy \in [Cell -> Nat]
      <4>1. ASSUME NEW c \in Cell
            PROVE  After(Charged(d.energy[c], c \in shown)) \in Nat
        <5>1. PICK p \in Digit, s \in Segment : c = <<p, s>>
          BY DEF Cell
        <5>2. Charged(d.energy[c], c \in shown) \in Nat
          BY <5>1, <2>1, <2>4, <2>7 DEF Charged
        <5> QED
          BY <5>2, <2>5
      <4> QED
        BY <2>2, <4>1
    <3>2. r.energy_digit \in [Digit -> Nat]
      <4>1. ASSUME NEW p \in Digit
            PROVE  After(Charged(d.energy_digit[p], p \in selected)) \in Nat
        <5>1. Charged(d.energy_digit[p], p \in selected) \in Nat
          BY <2>1, <2>4, <2>8 DEF Charged
        <5> QED
          BY <5>1, <2>5
      <4> QED
        BY <2>2, <4>1
    <3>3. r.total \in Nat
      <4>1. d.total \in Nat
        BY DEF Valid, ValidType
      <4>2. Charged(d.total, TRUE) \in Nat
        BY <4>1, <2>1, <2>4 DEF Charged
      <4> QED
        BY <2>2, <2>5, <4>2
    <3>4. r.decay_acc \in 0 .. StepSize - 1
      BY <2>1, <2>2 DEF due, Valid, ValidType
    <3>5. r.integrated_to \in Nat /\ r.lit \subseteq Cell /\ r.unlit \subseteq Cell
      BY <2>2, <2>3 DEF Valid, ValidType
    <3> QED
      BY <3>1, <3>2, <3>3, <3>4, <3>5 DEF ValidType
  <2>10. ValidOrder(r)
    <3>1. ASSUME NEW p \in Digit, NEW s \in Segment
          PROVE  r.energy[<<p, s>>] <= r.energy_digit[p]
      <4>1. Charged(d.energy[<<p, s>>], <<p, s>> \in shown)
              <= Charged(d.energy_digit[p], p \in selected)
        BY <2>1, <2>4, <2>7 DEF Charged
      <4>2. /\ Charged(d.energy[<<p, s>>], <<p, s>> \in shown) \in Nat
            /\ Charged(d.energy_digit[p], p \in selected) \in Nat
        BY <2>1, <2>4, <2>7 DEF Charged
      <4> QED
        BY <2>2, <2>6, <2>7, <4>1, <4>2
    <3>2. ASSUME NEW p \in Digit
          PROVE  r.energy_digit[p] <= r.total
      <4>1. /\ Charged(d.energy_digit[p], p \in selected) <= Charged(d.total, TRUE)
            /\ Charged(d.energy_digit[p], p \in selected) \in Nat
            /\ Charged(d.total, TRUE) \in Nat
        BY <2>1, <2>4, <2>8 DEF Charged
      <4> QED
        BY <2>2, <2>6, <4>1
    <3> QED
      BY <3>1, <3>2 DEF ValidOrder
  <2>11. ValidClean(r)
    <3> SUFFICES ASSUME NEW p \in Digit, NEW s \in Segment
                 PROVE  /\ <<p, s>> \notin r.unlit => r.energy[<<p, s>>] = r.energy_digit[p]
                        /\ <<p, s>> \notin r.lit => r.energy[<<p, s>>] = 0
      BY DEF ValidClean
    <3>1. ASSUME <<p, s>> \notin r.unlit
          PROVE  r.energy[<<p, s>>] = r.energy_digit[p]
      <4>1. d.energy[<<p, s>>] = d.energy_digit[p]
        BY <2>2, <3>1 DEF Valid, ValidClean
      <4>2. (<<p, s>> \in shown) <=> (p \in selected)
        BY <2>2, <2>7, <3>1
      <4>3. Charged(d.energy[<<p, s>>], <<p, s>> \in shown)
              = Charged(d.energy_digit[p], p \in selected)
        BY <4>1, <4>2, <2>4, <2>7 DEF Charged
      <4> QED
        BY <2>2, <2>7, <4>3
    <3>2. ASSUME <<p, s>> \notin r.lit
          PROVE  r.energy[<<p, s>>] = 0
      <4>1. d.energy[<<p, s>>] = 0 /\ <<p, s>> \notin shown
        BY <2>2, <3>2 DEF Valid, ValidClean
      <4>2. Charged(d.energy[<<p, s>>], <<p, s>> \in shown) = 0
        BY <4>1, <2>4, <2>7 DEF Charged
      <4>3. After(0) = 0
        BY <2>5
      <4> QED
        BY <2>2, <2>7, <4>2, <4>3
    <3> QED
      BY <3>1, <3>2
  <2>12. ValidBound(r)
    <3>1. d.total \in Nat /\ d.total <= Bound(d.decay_acc) /\ d.decay_acc \in 0 .. StepSize - 1
      BY DEF Valid, ValidType, ValidBound
    <3>2. Charged(d.total, TRUE) = d.total + dose
      BY <2>4, <3>1 DEF Charged
    <3>3. d.total + dose <= Bound(d.decay_acc + dt)
      <4>1. Bound(d.decay_acc + dt) = Bound(d.decay_acc) + dose
        BY <2>1, <3>1 DEF Bound, dose
      <4>2. Bound(d.decay_acc) \in Nat
        BY <3>1 DEF Bound
      <4> QED
        BY <2>1, <3>1, <4>1, <4>2
    <3>4. CASE due
      <4>1. d.decay_acc + dt \in StepSize .. 2 * StepSize
        BY <2>1, <3>1, <3>4 DEF due
      <4>2. Decayed(d.total + dose) <= Bound(d.decay_acc + dt - StepSize)
        BY <2>1, <3>1, <3>3, <4>1, DecayRestoresBound
      <4> QED
        BY <2>2, <3>2, <3>4, <4>2 DEF After, ValidBound
    <3>5. CASE ~due
      BY <2>2, <3>2, <3>3, <3>5 DEF After, ValidBound
    <3> QED
      BY <3>4, <3>5
  <2>13. r.integrated_to = to
    BY <2>2
  <2> QED
    BY <2>9, <2>10, <2>11, <2>12, <2>13 DEF r, Valid
<1> QED
  BY <1>1, <1>2

(* Clearing the accumulators leaves a valid display. *)
LEMMA ClearedValid ==
  ASSUME NEW now \in Nat
  PROVE  Valid(Cleared(now)) /\ Cleared(now).integrated_to = now
<1> USE SizeAssumption
<1>1. ValidType(Cleared(now))
  BY DEF ValidType, Cleared
<1>2. ValidOrder(Cleared(now)) /\ ValidClean(Cleared(now))
  BY DEF ValidOrder, ValidClean, Cleared, Cell
<1>3. ValidBound(Cleared(now))
  BY DEF ValidBound, Bound, Cleared
<1> QED
  BY <1>1, <1>2, <1>3 DEF Valid, Cleared

-----------------------------------------------------------------------------
(* The inductive invariant: a valid display, in step with the CPU's clock.   *)
PortsOK ==
  /\ cycles \in Nat
  /\ bit0_is_left \in BOOLEAN
  /\ sel \in SUBSET Digit
  /\ seg \in SUBSET Segment
  /\ a_is_out \in BOOLEAN
  /\ b_is_out \in BOOLEAN

IInv == PortsOK /\ Valid(Now) /\ integrated_to = cycles

(* A step that makes the display equal to d, valid and in step, keeps IInv. *)
LEMMA BecomesValid ==
  ASSUME NEW d, Becomes(d), Valid(d), d.integrated_to = cycles', PortsOK'
  PROVE  IInv'
<1>1. Valid(Now')
  BY DEF Becomes, Now, Valid, ValidType, ValidOrder, ValidClean, ValidBound
<1>2. (integrated_to = cycles)'
  BY DEF Becomes
<1> QED
  BY <1>1, <1>2 DEF IInv

(* The invariant holds after power-on. *)
LEMMA InitIInv == Init => IInv
<1> SUFFICES ASSUME Init PROVE IInv
  OBVIOUS
<1>1. Now = Cleared(0)
  BY DEF Init, Now, Cleared
<1>2. PortsOK /\ integrated_to = cycles
  BY DEF Init, PortsOK
<1> QED
  BY <1>1, <1>2, ClearedValid DEF IInv

(* Every step keeps it. *)
LEMMA NextIInv == IInv /\ [Next]_vars => IInv'
<1> SUFFICES ASSUME IInv, [Next]_vars PROVE IInv'
  OBVIOUS
<1> USE SizeAssumption, IntervalAssumption
<1>0. /\ Valid(Now) /\ Now.integrated_to = cycles
      /\ cycles \in Nat /\ sel \in SUBSET Digit /\ seg \in SUBSET Segment
      /\ bit0_is_left \in BOOLEAN /\ a_is_out \in BOOLEAN /\ b_is_out \in BOOLEAN
  BY DEF IInv, PortsOK, Now
<1>1. ASSUME NEW t \in Durations, Execute(t) PROVE IInv'
  <2> DEFINE d == display_advance(Now, sel, seg, cycles + t)
  <2>1. t \in 1 .. StepSize
    OBVIOUS
  <2>2. Valid(d) /\ d.integrated_to = cycles + t
    BY <1>0, <2>1, AdvanceValid
  <2>3. Becomes(d) /\ cycles' = cycles + t /\ PortsOK'
    BY <1>0, <1>1, <2>1 DEF Execute, PortsOK
  <2> QED
    BY <2>2, <2>3, BecomesValid
<1>2. ASSUME NEW a \in SUBSET Digit, NEW b \in SUBSET Segment, Out(a, b),
             (a_is_out \in BOOLEAN /\ b_is_out \in BOOLEAN)'
      PROVE IInv'
  <2> DEFINE before == display_advance(Now, sel, seg, cycles + OUT_WRITE_OFFSET)
             d      == display_advance(before, a, b, cycles + OUT_CYCLES)
  <2>1. 10 <= StepSize /\ StepSize \in Nat
    BY DEF OUT_CYCLES
  <2>2. Valid(before) /\ before.integrated_to = cycles + 7
    BY <1>0, <2>1, AdvanceValid DEF OUT_WRITE_OFFSET
  <2>3. Becomes(d) /\ cycles' = cycles + 10 /\ PortsOK'
    BY <1>0, <1>2 DEF Out, PortsOK, OUT_CYCLES
  <2> HIDE DEF before
  <2>4. Valid(d) /\ d.integrated_to = cycles + 10
    BY <1>0, <2>1, <2>2, AdvanceValid DEF OUT_CYCLES
  <2> QED
    BY <2>3, <2>4, BecomesValid
<1>3. CASE OutA
  <2>1. PICK a \in SUBSET Digit : Out(a, seg)
    BY <1>0, <1>3 DEF OutA
  <2> QED
    BY <1>0, <1>2, <1>3, <2>1 DEF OutA
<1>4. CASE OutB
  <2>1. PICK b \in SUBSET Segment : Out(sel, b)
    BY <1>0, <1>4 DEF OutB
  <2> QED
    BY <1>0, <1>2, <1>4, <2>1 DEF OutB
<1>5. CASE OutMode
  BY <1>2, <1>5 DEF OutMode
<1>6. CASE OutBit
  BY <1>0, <1>2, <1>6 DEF OutBit
<1>7. CASE Reset
  <2>1. Becomes(Cleared(0)) /\ cycles' = 0 /\ PortsOK'
    BY <1>0, <1>7 DEF Reset, PortsOK
  <2> QED
    BY <2>1, ClearedValid, BecomesValid
<1>8. CASE Clear
  <2>1. Becomes(Cleared(cycles)) /\ cycles' = cycles /\ PortsOK'
    BY <1>0, <1>8 DEF Clear, PortsOK
  <2> QED
    BY <1>0, <2>1, ClearedValid, BecomesValid
<1>9. CASE SetDigitOrder
  <2>1. Becomes(Cleared(cycles)) /\ cycles' = cycles /\ PortsOK'
    BY <1>0, <1>9 DEF SetDigitOrder, PortsOK
  <2> QED
    BY <1>0, <2>1, ClearedValid, BecomesValid
<1>10. CASE UNCHANGED vars
  <2>1. Now' = Now /\ PortsOK' /\ integrated_to' = integrated_to /\ cycles' = cycles
    BY <1>0, <1>10 DEF vars, Now, PortsOK
  <2> QED
    BY <2>1 DEF IInv, Valid, ValidType, ValidOrder, ValidClean, ValidBound
<1> QED
  BY <1>1, <1>3, <1>4, <1>5, <1>6, <1>7, <1>8, <1>9, <1>10 DEF Next

(* The invariant is one of the specification. *)
LEMMA IInvAlways == Spec => []IInv
<1> QED
  BY InitIInv, NextIInv, PTL DEF Spec

-----------------------------------------------------------------------------
(* The display is always integrated exactly up to the CPU's clock, and its   *)
(* accumulators have their types.                                            *)
THEOREM TypeCorrect == Spec => []TypeOK
<1>1. IInv => TypeOK
  BY DEF IInv, PortsOK, Valid, ValidType, Now, TypeOK
<1> QED
  BY <1>1, IInvAlways, PTL

(* No rounding of the decay ever lets a segment overtake its digit, nor a    *)
(* digit the window: the clamps of umk_display_intensity and                 *)
(* umk_display_relative are dead code for every persistence.                 *)
THEOREM EnergyAlwaysOrdered == Spec => []EnergyOrdered
<1>1. IInv => EnergyOrdered
  BY DEF IInv, Valid, ValidOrder, Now, EnergyOrdered
<1> QED
  BY <1>1, IInvAlways, PTL

(* A clean digit reads exactly 255 or 0 on every segment, however long the   *)
(* program runs and wherever the decay steps fall.                           *)
THEOREM CleanDigitAlwaysExact == Spec => []CleanDigitIsExact
<1>1. IInv => CleanDigitIsExact
  BY DEF IInv, Valid, ValidClean, Now, CleanDigitIsExact
<1> QED
  BY <1>1, IInvAlways, PTL

(* The accumulators never wrap: the decay holds the total below a bound that *)
(* depends on the persistence only.                                          *)
THEOREM TotalAlwaysBounded == Spec => []TotalBounded
<1>1. IInv => TotalBounded
  BY DEF IInv, Valid, ValidBound, Bound, Now, TotalBounded
<1> QED
  BY <1>1, IInvAlways, PTL
=============================================================================
