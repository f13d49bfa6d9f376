---------------------------------- MODULE Alu ----------------------------------
(***************************************************************************)
(* The accumulator, the flags byte and the arithmetic unit of the 8080     *)
(* (core/src/i8080.c), bit by bit as the code computes them.  The other    *)
(* registers only supply operands; DAD, which leaves A alone, is left out. *)
(***************************************************************************)
EXTENDS Integers

CONSTANTS
  Operands,  \* values of the second operand, and of MVI A
  Words      \* words that POP PSW may find on the stack

Byte == 0 .. 255
ASSUME OperandAssumption == Operands \subseteq Byte
ASSUME StackAssumption == \A w \in Words : w \in Nat /\ w < 65536

F_C == \h01   F_ONE == \h02   F_P == \h04   F_AC == \h10   F_Z == \h40   F_S == \h80

VARIABLES
  a, f,      \* accumulator and flags
  decimal    \* history: {} or the sum of two BCD numbers that A is to be adjusted to

vars == <<a, f, decimal>>

Now == [a |-> a, f |-> f]

-----------------------------------------------------------------------------
Bit(x, mask) == (x \div mask) % 2            \* for a mask of one bit
has(byte, mask) == Bit(byte, mask) = 1
put(byte, mask, on) ==
  IF has(byte, mask) = on THEN byte ELSE IF on THEN byte + mask ELSE byte - mask

(* The byte with the given bit at every mask, and the operators on bytes. *)
OfBits(bit(_)) == bit(1) + 2 * bit(2) + 4 * bit(4) + 8 * bit(8)
                  + 16 * bit(16) + 32 * bit(32) + 64 * bit(64) + 128 * bit(128)

And(x, y) == LET bit(m) == IF has(x, m) /\ has(y, m) THEN 1 ELSE 0 IN OfBits(bit)
Or(x, y)  == LET bit(m) == IF has(x, m) \/ has(y, m) THEN 1 ELSE 0 IN OfBits(bit)
Xor(x, y) == LET bit(m) == (Bit(x, m) + Bit(y, m)) % 2 IN OfBits(bit)

parity8(v) ==
  LET v4 == Xor(v, v \div 16)
      v2 == Xor(v4, v4 \div 4)
      v1 == Xor(v2, v2 \div 2)
  IN  v1 % 2 = 0

(* Carry out of the bit below mask in x + y + cy, where cy is 0 or 1: the bit *)
(* at mask of sum ^ x ^ y.                                                    *)
carry_out(mask, x, y, cy) == (Bit(x + y + cy, mask) + Bit(x, mask) + Bit(y, mask)) % 2 = 1

get_flag(c, mask) == has(c.f, mask)
set_flag(c, mask, on) == [c EXCEPT !.f = put(@, mask, on)]
(* v & I8080_F_MASK | I8080_F_ONE: bits 3 and 5 are always 0, bit 1 is always 1. *)
Masked(v) == put(put(put(v, \h20, FALSE), \h08, FALSE), F_ONE, TRUE)

Carry(c) == IF get_flag(c, F_C) THEN 1 ELSE 0

set_szp(c, v) ==
  LET szp == set_flag(set_flag(set_flag(c, F_S, v >= 128), F_Z, v = 0), F_P, parity8(v))
  IN  [szp EXCEPT !.f = Masked(@)]

Result(c, v, cy, ac) ==   \* A and all the flags
  [set_szp(set_flag(set_flag(c, F_C, cy), F_AC, ac), v) EXCEPT !.a = v]

alu_add(c, val, cy) ==
  Result(c, (c.a + val + cy) % 256, carry_out(256, c.a, val, cy), carry_out(16, c.a, val, cy))

alu_sub_PlainBorrow(c, val, cy) ==   \* mutant: the borrow is not inverted on its way in
  LET sum == alu_add(c, 255 - val, cy) IN set_flag(sum, F_C, ~get_flag(sum, F_C))

alu_sub(c, val, cy) ==
  LET sum == alu_add(c, 255 - val, 1 - cy) IN set_flag(sum, F_C, ~get_flag(sum, F_C))

alu_cmp(c, val) == [alu_sub(c, val, 0) EXCEPT !.a = c.a]

alu_ana(c, val) == Result(c, And(c.a, val), FALSE, has(Or(c.a, val), \h08))
alu_xra(c, val) == Result(c, Xor(c.a, val), FALSE, FALSE)
alu_ora(c, val) == Result(c, Or(c.a, val), FALSE, FALSE)

alu_op(c, op, val) ==
  CASE op = "ADD" -> alu_add(c, val, 0)   [] op = "ADC" -> alu_add(c, val, Carry(c))
    [] op = "SUB" -> alu_sub(c, val, 0)   [] op = "SBB" -> alu_sub(c, val, Carry(c))
    [] op = "ANA" -> alu_ana(c, val)      [] op = "XRA" -> alu_xra(c, val)
    [] op = "ORA" -> alu_ora(c, val)      [] op = "CMP" -> alu_cmp(c, val)

AluOps == {"ADD", "ADC", "SUB", "SBB", "ANA", "XRA", "ORA", "CMP"}

(* INR A and DCR A leave the carry alone. *)
alu_inr(c) ==
  LET v == (c.a + 1) % 256
  IN  [set_szp(set_flag(c, F_AC, v % 16 = 0), v) EXCEPT !.a = v]

alu_dcr_BorrowSense(c) ==   \* mutant: AC is set on a half borrow
  LET v == (c.a + 255) % 256
  IN  [set_szp(set_flag(c, F_AC, v % 16 = 15), v) EXCEPT !.a = v]

alu_dcr(c) ==
  LET v == (c.a + 255) % 256
  IN  [set_szp(set_flag(c, F_AC, v % 16 # 15), v) EXCEPT !.a = v]

DecimalCorrection_NibblesApart(c) ==   \* mutant: the 9 that a carry will make a 10
  [low  |-> get_flag(c, F_AC) \/ c.a % 16 > 9, high |-> get_flag(c, F_C) \/ c.a \div 16 > 9]

DecimalCorrection(c) ==
  [low  |-> get_flag(c, F_AC) \/ c.a % 16 > 9,
   high |-> \/ get_flag(c, F_C) \/ c.a \div 16 > 9
            \/ c.a \div 16 >= 9 /\ c.a % 16 > 9]

alu_daa(c) ==
  LET corr == DecimalCorrection(c)
      sum  == alu_add(c, (IF corr.low THEN 6 ELSE 0) + (IF corr.high THEN \h60 ELSE 0), 0)
  IN  set_flag(sum, F_C, corr.high)

(* Rotates, CMA, STC and CMC, and the flags byte on the stack. *)
RLC(c) == set_flag([c EXCEPT !.a = ((2 * @) % 256) + (@ \div 128)], F_C, c.a >= 128)
RRC(c) == set_flag([c EXCEPT !.a = (@ \div 2) + 128 * (@ % 2)], F_C, c.a % 2 = 1)
RAL(c) == set_flag([c EXCEPT !.a = ((2 * @) % 256) + Carry(c)], F_C, c.a >= 128)

RAR_Circular(c) == RRC(c)   \* mutant: the carry is not shifted in

RAR(c) == set_flag([c EXCEPT !.a = (@ \div 2) + 128 * Carry(c)], F_C, c.a % 2 = 1)
CMA(c) == [c EXCEPT !.a = 255 - @]
STC(c) == set_flag(c, F_C, TRUE)
CMC(c) == set_flag(c, F_C, ~get_flag(c, F_C))

PUSH_PSW(c) == 256 * c.a + Masked(c.f)

POP_PSW_Unmasked(w) == [a |-> w \div 256, f |-> w % 256]   \* mutant: the word as it is

POP_PSW(w) == [a |-> w \div 256, f |-> Masked(w % 256)]

cond_true(c, cc) ==
  CASE cc = "NZ" -> ~get_flag(c, F_Z)  [] cc = "Z"  -> get_flag(c, F_Z)
    [] cc = "NC" -> ~get_flag(c, F_C)  [] cc = "C"  -> get_flag(c, F_C)
    [] cc = "PO" -> ~get_flag(c, F_P)  [] cc = "PE" -> get_flag(c, F_P)
    [] cc = "P"  -> ~get_flag(c, F_S)  [] cc = "M"  -> get_flag(c, F_S)

-----------------------------------------------------------------------------
IsBcd(v) == v % 16 <= 9 /\ v \div 16 <= 9
Decimal(v) == 10 * (v \div 16) + (v % 16)

Init == a = 0 /\ f = F_ONE /\ decimal = {}

Becomes(c) == a' = c.a /\ f' = c.f

Immediate(op, val) ==
  /\ Becomes(alu_op(Now, op, val))
  /\ decimal' = IF op \in {"ADD", "ADC"} /\ IsBcd(a) /\ IsBcd(val)
                THEN {Decimal(a) + Decimal(val) + (IF op = "ADC" THEN Carry(Now) ELSE 0)}
                ELSE {}

Single ==
  /\ \/ Becomes(alu_inr(Now)) \/ Becomes(alu_dcr(Now)) \/ Becomes(alu_daa(Now))
     \/ Becomes(RLC(Now)) \/ Becomes(RRC(Now)) \/ Becomes(RAL(Now)) \/ Becomes(RAR(Now))
     \/ Becomes(CMA(Now)) \/ Becomes(STC(Now)) \/ Becomes(CMC(Now))
  /\ decimal' = {}

MoveImmediate == \E v \in Operands : a' = v /\ f' = f /\ decimal' = {}
PopPsw == \E w \in Words : Becomes(POP_PSW(w)) /\ decimal' = {}

Next == (\E op \in AluOps, v \in Operands : Immediate(op, v)) \/ Single \/ MoveImmediate \/ PopPsw

Spec == Init /\ [][Next]_vars

-----------------------------------------------------------------------------
(* Reference definitions, on integers instead of bits. *)
EvenOnes(v) == (Bit(v, 1) + Bit(v, 2) + Bit(v, 4) + Bit(v, 8)
                + Bit(v, 16) + Bit(v, 32) + Bit(v, 64) + Bit(v, 128)) % 2 = 0

ShowsSign(c, v) ==   \* S, Z and P of v, as the conditional jumps see them
  /\ cond_true(c, "M") = (v >= 128) /\ cond_true(c, "P") = (v < 128)
  /\ cond_true(c, "Z") = (v = 0) /\ cond_true(c, "NZ") = (v # 0)
  /\ cond_true(c, "PE") = EvenOnes(v) /\ cond_true(c, "PO") = ~EvenOnes(v)

(* The flags byte always has bit 1 set and bits 3 and 5 clear, whatever word *)
(* POP PSW found on the stack (set_szp and POP PSW restore it, set_flag does *)
(* not).                                                                     *)
TypeOK ==
  /\ a \in Byte
  /\ f \in {F_ONE + c + p + ac + z + s : c \in {0, F_C}, p \in {0, F_P}, ac \in {0, F_AC},
                                         z \in {0, F_Z}, s \in {0, F_S}}
  /\ decimal \subseteq 0 .. 199

(* Sums and differences are exact: result and carry, or borrow, are those of *)
(* the integers, AC is the carry between nibbles (no borrow between them in  *)
(* a difference), and S, Z and P are those of the result.  A comparison      *)
(* orders A and the operand by C and Z and leaves A as it was.  INR and DCR    *)
(* have their own formula for AC; they agree with adding and subtracting 1 in *)
(* all but the carry, which they keep.                                       *)
Sum(val, cy, r) ==
  /\ 256 * Carry(r) + r.a = a + val + cy
  /\ get_flag(r, F_AC) = ((a % 16) + (val % 16) + cy > 15)
  /\ ShowsSign(r, r.a)

Difference(val, cy, r, d) ==
  /\ d - 256 * Carry(r) = a - val - cy
  /\ get_flag(r, F_AC) = ((a % 16) - (val % 16) - cy >= 0)
  /\ ShowsSign(r, d)

KeepingCarry(c) == set_flag(c, F_C, get_flag(Now, F_C))

SumsExact ==
  /\ alu_inr(Now) = KeepingCarry(alu_op(Now, "ADD", 1))
  /\ alu_dcr(Now) = KeepingCarry(alu_op(Now, "SUB", 1))
  /\ \A val \in Operands :
       /\ Sum(val, 0, alu_op(Now, "ADD", val))
       /\ Sum(val, Carry(Now), alu_op(Now, "ADC", val))
       /\ Difference(val, 0, alu_op(Now, "SUB", val), alu_op(Now, "SUB", val).a)
       /\ Difference(val, Carry(Now), alu_op(Now, "SBB", val), alu_op(Now, "SBB", val).a)
       /\ LET r == alu_op(Now, "CMP", val)
          IN  r.a = a /\ cond_true(r, "C") = (a < val) /\ cond_true(r, "Z") = (a = val)
                /\ cond_true(r, "NC") = (a >= val) /\ Difference(val, 0, r, (a - val) % 256)

(* What one instruction does another undoes, in A and in every flag: the     *)
(* rotates through the carry, POP PSW after PUSH PSW, CMA and CMC twice; the *)
(* circular rotates give A back.                                             *)
UndoneExactly ==
  /\ RAR(RAL(Now)) = Now /\ RAL(RAR(Now)) = Now
  /\ RRC(RLC(Now)).a = a /\ RLC(RRC(Now)).a = a
  /\ POP_PSW(PUSH_PSW(Now)) = Now
  /\ CMA(CMA(Now)) = Now /\ CMC(CMC(Now)) = Now

(* DAA right after an addition of two BCD numbers, with a carry from a lower *)
(* pair of digits or without, gives the decimal sum and its carry.           *)
DecimalSum ==
  \A total \in decimal :
    LET r == alu_daa(Now)
    IN  IsBcd(r.a) /\ Decimal(r.a) + 100 * Carry(r) = total
=============================================================================
