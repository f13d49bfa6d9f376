------------------------------- MODULE AluProofs -------------------------------
(***************************************************************************)
(* Theorems about Alu, for every set of operands and words: the flags byte *)
(* is one of the 32 legal ones, the arithmetic is that of the integers.    *)
(***************************************************************************)
EXTENDS Alu, TLAPS

One(b) == IF b THEN 1 ELSE 0

-----------------------------------------------------------------------------
(* A byte is the sum of its bits. *)
LEMMA BitsOf ==
  ASSUME NEW n \in Byte
  PROVE  /\ Bit(n, 1) \in 0 .. 1 /\ Bit(n, 2) \in 0 .. 1 /\ Bit(n, 4) \in 0 .. 1 /\ Bit(n, 8) \in 0 .. 1
         /\ Bit(n, 16) \in 0 .. 1 /\ Bit(n, 32) \in 0 .. 1 /\ Bit(n, 64) \in 0 .. 1 /\ Bit(n, 128) \in 0 .. 1
         /\ n = Bit(n, 1) + 2 * Bit(n, 2) + 4 * Bit(n, 4) + 8 * Bit(n, 8)
                + 16 * Bit(n, 16) + 32 * Bit(n, 32) + 64 * Bit(n, 64) + 128 * Bit(n, 128)
BY SMTT(30) DEF Byte, Bit

LEMMA BitsOfSum ==
  ASSUME NEW b1 \in 0 .. 1, NEW b2 \in 0 .. 1, NEW b4 \in 0 .. 1, NEW b8 \in 0 .. 1,
         NEW b16 \in 0 .. 1, NEW b32 \in 0 .. 1, NEW b64 \in 0 .. 1, NEW b128 \in 0 .. 1,
         NEW n, n = b1 + 2 * b2 + 4 * b4 + 8 * b8 + 16 * b16 + 32 * b32 + 64 * b64 + 128 * b128
  PROVE  /\ n \in Byte
         /\ Bit(n, 1) = b1 /\ Bit(n, 2) = b2 /\ Bit(n, 4) = b4 /\ Bit(n, 8) = b8
         /\ Bit(n, 16) = b16 /\ Bit(n, 32) = b32 /\ Bit(n, 64) = b64 /\ Bit(n, 128) = b128
<1>1. n \in Byte
  BY DEF Byte
<1>2. Bit(n, 1) = b1 /\ Bit(n, 2) = b2
  BY DEF Bit
<1>3. Bit(n, 4) = b4 /\ Bit(n, 8) = b8
  BY DEF Bit
<1>4. Bit(n, 16) = b16 /\ Bit(n, 32) = b32
  BY DEF Bit
<1>5. Bit(n, 64) = b64 /\ Bit(n, 128) = b128
  BY DEF Bit
<1> QED
  BY <1>1, <1>2, <1>3, <1>4, <1>5

LEMMA OfBitsInByte ==
  ASSUME NEW x \in Byte, NEW y \in Byte
  PROVE  And(x, y) \in Byte /\ Or(x, y) \in Byte /\ Xor(x, y) \in Byte
<1>1. And(x, y) \in Byte
  BY DEF And, OfBits, Byte
<1>2. Or(x, y) \in Byte
  BY DEF Or, OfBits, Byte
<1>3. Xor(x, y) \in Byte
  <2> DEFINE b(m) == (Bit(x, m) + Bit(y, m)) % 2
  <2>1. /\ b(1) \in 0 .. 1 /\ b(2) \in 0 .. 1 /\ b(4) \in 0 .. 1 /\ b(8) \in 0 .. 1
        /\ b(16) \in 0 .. 1 /\ b(32) \in 0 .. 1 /\ b(64) \in 0 .. 1 /\ b(128) \in 0 .. 1
    BY BitsOf
  <2>2. Xor(x, y) = b(1) + 2 * b(2) + 4 * b(4) + 8 * b(8)
                    + 16 * b(16) + 32 * b(32) + 64 * b(64) + 128 * b(128)
    BY DEF Xor, OfBits
  <2> HIDE DEF b
  <2> QED
    BY <2>1, <2>2 DEF Byte
<1> QED
  BY <1>1, <1>2, <1>3

LEMMA XorBits ==
  ASSUME NEW x \in Byte, NEW y \in Byte
  PROVE  /\ Xor(x, y) \in Byte
         /\ Bit(Xor(x, y), 1) = (Bit(x, 1) + Bit(y, 1)) % 2
         /\ Bit(Xor(x, y), 2) = (Bit(x, 2) + Bit(y, 2)) % 2
         /\ Bit(Xor(x, y), 4) = (Bit(x, 4) + Bit(y, 4)) % 2
         /\ Bit(Xor(x, y), 8) = (Bit(x, 8) + Bit(y, 8)) % 2
<1> DEFINE b(m) == (Bit(x, m) + Bit(y, m)) % 2
           n == Xor(x, y)
<1>1. /\ b(1) \in 0 .. 1 /\ b(2) \in 0 .. 1 /\ b(4) \in 0 .. 1 /\ b(8) \in 0 .. 1
      /\ b(16) \in 0 .. 1 /\ b(32) \in 0 .. 1 /\ b(64) \in 0 .. 1 /\ b(128) \in 0 .. 1
  BY BitsOf
<1>2. n = b(1) + 2 * b(2) + 4 * b(4) + 8 * b(8) + 16 * b(16) + 32 * b(32) + 64 * b(64) + 128 * b(128)
  BY DEF Xor, OfBits
<1> HIDE DEF b, n
<1>3. n \in Byte /\ Bit(n, 1) = b(1) /\ Bit(n, 2) = b(2) /\ Bit(n, 4) = b(4) /\ Bit(n, 8) = b(8)
  BY <1>1, <1>2, BitsOfSum
<1> QED
  BY <1>3 DEF b, n

(* The parity the code folds together by shifts is that of the eight bits. *)
LEMMA ParityIsEvenOnes ==
  ASSUME NEW v \in Byte
  PROVE  parity8(v) = EvenOnes(v)
<1> DEFINE v4 == Xor(v, v \div 16)
           v2 == Xor(v4, v4 \div 4)
           v1 == Xor(v2, v2 \div 2)
<1>1. v4 \in Byte /\ v2 \in Byte /\ v1 \in Byte
  <2>1. \A x \in Byte : x \div 16 \in Byte /\ x \div 4 \in Byte /\ x \div 2 \in Byte
    BY DEF Byte
  <2>2. v4 \in Byte
    BY <2>1, OfBitsInByte
  <2>3. v2 \in Byte
    <3> HIDE DEF v4
    <3> QED
      BY <2>1, <2>2, OfBitsInByte
  <2> HIDE DEF v2
  <2> QED
    BY <2>1, <2>2, <2>3, OfBitsInByte
<1>2. /\ Bit(v4, 1) = (Bit(v, 1) + Bit(v, 16)) % 2 /\ Bit(v4, 2) = (Bit(v, 2) + Bit(v, 32)) % 2
      /\ Bit(v4, 4) = (Bit(v, 4) + Bit(v, 64)) % 2 /\ Bit(v4, 8) = (Bit(v, 8) + Bit(v, 128)) % 2
  <2>1. v \div 16 \in Byte
    BY DEF Byte
  <2>2. /\ Bit(v \div 16, 1) = Bit(v, 16) /\ Bit(v \div 16, 2) = Bit(v, 32)
        /\ Bit(v \div 16, 4) = Bit(v, 64) /\ Bit(v \div 16, 8) = Bit(v, 128)
    BY DEF Bit, Byte
  <2> QED
    BY <2>1, <2>2, XorBits
<1>3. Bit(v2, 1) = (Bit(v4, 1) + Bit(v4, 4)) % 2 /\ Bit(v2, 2) = (Bit(v4, 2) + Bit(v4, 8)) % 2
  <2> HIDE DEF v4
  <2>1. v4 \div 4 \in Byte
    BY <1>1 DEF Byte
  <2>2. Bit(v4 \div 4, 1) = Bit(v4, 4) /\ Bit(v4 \div 4, 2) = Bit(v4, 8)
    BY <1>1 DEF Bit, Byte
  <2> QED
    BY <1>1, <2>1, <2>2, XorBits
<1>4. Bit(v1, 1) = (Bit(v2, 1) + Bit(v2, 2)) % 2
  <2> HIDE DEF v2
  <2>1. v2 \div 2 \in Byte
    BY <1>1 DEF Byte
  <2>2. Bit(v2 \div 2, 1) = Bit(v2, 2)
    BY <1>1 DEF Bit, Byte
  <2> QED
    BY <1>1, <2>1, <2>2, XorBits
<1>5. parity8(v) = (v1 % 2 = 0)
  BY DEF parity8
<1> HIDE DEF v4, v2, v1
<1>6. (v1 % 2 = 0) = (Bit(v1, 1) = 0)
  BY <1>1 DEF Bit, Byte
<1>7. Bit(v1, 1) = (Bit(v, 1) + Bit(v, 2) + Bit(v, 4) + Bit(v, 8)
                    + Bit(v, 16) + Bit(v, 32) + Bit(v, 64) + Bit(v, 128)) % 2
  BY <1>2, <1>3, <1>4, BitsOf
<1> QED
  BY <1>5, <1>6, <1>7 DEF EvenOnes

-----------------------------------------------------------------------------
(* The legal flags bytes, by their five flags. *)
Flags(c, p, ac, z, s) == 2 + c + 4 * p + 16 * ac + 64 * z + 128 * s

LEMMA FlagBits ==
  ASSUME NEW c \in 0 .. 1, NEW p \in 0 .. 1, NEW ac \in 0 .. 1, NEW z \in 0 .. 1, NEW s \in 0 .. 1
  PROVE  LET n == Flags(c, p, ac, z, s)
         IN  /\ n \in Byte
             /\ Bit(n, F_C) = c /\ Bit(n, F_ONE) = 1 /\ Bit(n, F_P) = p /\ Bit(n, \h08) = 0
             /\ Bit(n, F_AC) = ac /\ Bit(n, \h20) = 0 /\ Bit(n, F_Z) = z /\ Bit(n, F_S) = s
<1> DEFINE n == Flags(c, p, ac, z, s)
<1>1. n = c + 2 * 1 + 4 * p + 8 * 0 + 16 * ac + 32 * 0 + 64 * z + 128 * s
  BY DEF Flags
<1> HIDE DEF n
<1>2. /\ n \in Byte
      /\ Bit(n, 1) = c /\ Bit(n, 2) = 1 /\ Bit(n, 4) = p /\ Bit(n, 8) = 0
      /\ Bit(n, 16) = ac /\ Bit(n, 32) = 0 /\ Bit(n, 64) = z /\ Bit(n, 128) = s
  BY <1>1, BitsOfSum
<1> QED
  BY <1>2 DEF n, F_C, F_ONE, F_P, F_AC, F_Z, F_S

(* put replaces one bit. *)
Masks == {1, 2, 4, 8, 16, 32, 64, 128}

LEMMA PutBits ==
  ASSUME NEW n \in Byte, NEW mask \in Masks, NEW on \in BOOLEAN
  PROVE  /\ put(n, mask, on) \in Byte
         /\ Bit(put(n, mask, on), mask) = One(on)
         /\ \A m \in Masks \ {mask} : Bit(put(n, mask, on), m) = Bit(n, m)
<1> DEFINE b(m) == IF m = mask THEN One(on) ELSE Bit(n, m)
           r == put(n, mask, on)
<1>1. \A m \in Masks : Bit(n, m) \in 0 .. 1 /\ b(m) \in 0 .. 1
  BY BitsOf DEF Masks, One
<1>2. n = Bit(n, 1) + 2 * Bit(n, 2) + 4 * Bit(n, 4) + 8 * Bit(n, 8)
          + 16 * Bit(n, 16) + 32 * Bit(n, 32) + 64 * Bit(n, 64) + 128 * Bit(n, 128)
  BY BitsOf
<1>3. r = IF Bit(n, mask) = One(on) THEN n ELSE IF on THEN n + mask ELSE n - mask
  BY <1>1 DEF put, has, One
<1>4. r = b(1) + 2 * b(2) + 4 * b(4) + 8 * b(8) + 16 * b(16) + 32 * b(32) + 64 * b(64) + 128 * b(128)
  <2> HIDE DEF r
  <2>1. CASE mask = 1   BY <1>1, <1>2, <1>3, <2>1 DEF Masks, One
  <2>2. CASE mask = 2   BY <1>1, <1>2, <1>3, <2>2 DEF Masks, One
  <2>3. CASE mask = 4   BY <1>1, <1>2, <1>3, <2>3 DEF Masks, One
  <2>4. CASE mask = 8   BY <1>1, <1>2, <1>3, <2>4 DEF Masks, One
  <2>5. CASE mask = 16  BY <1>1, <1>2, <1>3, <2>5 DEF Masks, One
  <2>6. CASE mask = 32  BY <1>1, <1>2, <1>3, <2>6 DEF Masks, One
  <2>7. CASE mask = 64  BY <1>1, <1>2, <1>3, <2>7 DEF Masks, One
  <2>8. CASE mask = 128 BY <1>1, <1>2, <1>3, <2>8 DEF Masks, One
  <2> QED
    BY <2>1, <2>2, <2>3, <2>4, <2>5, <2>6, <2>7, <2>8 DEF Masks
<1> HIDE DEF b, r
<1>5. b(1) \in 0 .. 1 /\ b(2) \in 0 .. 1 /\ b(4) \in 0 .. 1 /\ b(8) \in 0 .. 1
  BY <1>1 DEF Masks
<1>6. b(16) \in 0 .. 1 /\ b(32) \in 0 .. 1 /\ b(64) \in 0 .. 1 /\ b(128) \in 0 .. 1
  BY <1>1 DEF Masks
<1>7. /\ r \in Byte
      /\ Bit(r, 1) = b(1) /\ Bit(r, 2) = b(2) /\ Bit(r, 4) = b(4) /\ Bit(r, 8) = b(8)
      /\ Bit(r, 16) = b(16) /\ Bit(r, 32) = b(32) /\ Bit(r, 64) = b(64) /\ Bit(r, 128) = b(128)
  BY <1>4, <1>5, <1>6, BitsOfSum
<1>8. r \in Byte /\ \A m \in Masks : Bit(r, m) = b(m)
  BY <1>7 DEF Masks
<1> QED
  BY <1>8 DEF r, b

(* The flags of a result do not depend on the flags before it. *)
State == [a : Byte, f : Byte]

LEMMA FlagsByBits ==
  ASSUME NEW n \in Byte, Bit(n, 2) = 1, Bit(n, 8) = 0, Bit(n, 32) = 0
  PROVE  n = Flags(Bit(n, 1), Bit(n, 4), Bit(n, 16), Bit(n, 64), Bit(n, 128))
BY BitsOf DEF Flags

LEMMA ResultFlags ==
  ASSUME NEW n \in Byte, NEW cy \in BOOLEAN, NEW ac \in BOOLEAN,
         NEW s \in BOOLEAN, NEW z \in BOOLEAN, NEW p \in BOOLEAN
  PROVE  Masked(put(put(put(put(put(n, F_C, cy), F_AC, ac), F_S, s), F_Z, z), F_P, p))
           = Flags(One(cy), One(p), One(ac), One(z), One(s))
<1> DEFINE n1 == put(n, 1, cy)
           n2 == put(n1, 16, ac)
           n3 == put(n2, 128, s)
           n4 == put(n3, 64, z)
           n5 == put(n4, 4, p)
           n6 == put(n5, 32, FALSE)
           n7 == put(n6, 8, FALSE)
           n8 == put(n7, 2, TRUE)
<1>0. One(TRUE) = 1 /\ One(FALSE) = 0
  BY DEF One
<1>m. 1 \in Masks /\ 2 \in Masks /\ 4 \in Masks /\ 8 \in Masks /\ 16 \in Masks /\ 32 \in Masks
      /\ 64 \in Masks /\ 128 \in Masks /\ TRUE \in BOOLEAN /\ FALSE \in BOOLEAN
  BY DEF Masks
<1>1. n1 \in Byte /\ Bit(n1, 1) = One(cy)
  BY <1>m, PutBits
<1> HIDE DEF n1
<1>2. n2 \in Byte /\ Bit(n2, 16) = One(ac) /\ \A m \in Masks \ {16} : Bit(n2, m) = Bit(n1, m)
  BY <1>1, <1>m, PutBits
<1> HIDE DEF n2
<1>3. n3 \in Byte /\ Bit(n3, 128) = One(s) /\ \A m \in Masks \ {128} : Bit(n3, m) = Bit(n2, m)
  BY <1>2, <1>m, PutBits
<1> HIDE DEF n3
<1>4. n4 \in Byte /\ Bit(n4, 64) = One(z) /\ \A m \in Masks \ {64} : Bit(n4, m) = Bit(n3, m)
  BY <1>3, <1>m, PutBits
<1> HIDE DEF n4
<1>5. n5 \in Byte /\ Bit(n5, 4) = One(p) /\ \A m \in Masks \ {4} : Bit(n5, m) = Bit(n4, m)
  BY <1>4, <1>m, PutBits
<1> HIDE DEF n5
<1>6. n6 \in Byte /\ Bit(n6, 32) = One(FALSE) /\ \A m \in Masks \ {32} : Bit(n6, m) = Bit(n5, m)
  BY ZenonT(60), <1>5, <1>m, PutBits
<1> HIDE DEF n6
<1>7. n7 \in Byte /\ Bit(n7, 8) = One(FALSE) /\ \A m \in Masks \ {8} : Bit(n7, m) = Bit(n6, m)
  BY ZenonT(60), <1>6, <1>m, PutBits
<1> HIDE DEF n7
<1>8. n8 \in Byte /\ Bit(n8, 2) = One(TRUE) /\ \A m \in Masks \ {2} : Bit(n8, m) = Bit(n7, m)
  BY ZenonT(60), <1>7, <1>m, PutBits
<1>9. Masked(put(put(put(put(put(n, F_C, cy), F_AC, ac), F_S, s), F_Z, z), F_P, p)) = n8
  BY Zenon DEF Masked, F_C, F_AC, F_S, F_Z, F_P, F_ONE, n1, n2, n3, n4, n5, n6, n7
<1> HIDE DEF n8
<1>10. /\ Bit(n8, 2) = 1 /\ Bit(n8, 8) = 0 /\ Bit(n8, 32) = 0
       /\ Bit(n8, 1) = One(cy) /\ Bit(n8, 16) = One(ac) /\ Bit(n8, 128) = One(s)
       /\ Bit(n8, 64) = One(z) /\ Bit(n8, 4) = One(p)
  <2>0. Bit(n8, 2) = 1 /\ Bit(n7, 8) = 0 /\ Bit(n6, 32) = 0
    BY Zenon, <1>0, <1>6, <1>7, <1>8
  <2>1. Bit(n8, 2) = 1 /\ Bit(n8, 8) = 0
    BY <2>0, <1>7, <1>8 DEF Masks
  <2>2. Bit(n8, 32) = 0
    BY <2>0, <1>7, <1>8 DEF Masks
  <2>3. Bit(n8, 4) = One(p)
    BY <1>5, <1>6, <1>7, <1>8 DEF Masks
  <2>4. \A m \in {1, 16, 64, 128} : Bit(n8, m) = Bit(n4, m)
    BY <1>5, <1>6, <1>7, <1>8 DEF Masks
  <2>5. Bit(n8, 64) = One(z) /\ Bit(n8, 128) = One(s)
    BY <1>3, <1>4, <2>4 DEF Masks
  <2>6. Bit(n8, 1) = One(cy) /\ Bit(n8, 16) = One(ac)
    BY <1>1, <1>2, <1>3, <1>4, <2>4 DEF Masks
  <2> QED
    BY <2>1, <2>2, <2>3, <2>5, <2>6
<1> QED
  BY <1>8, <1>9, <1>10, FlagsByBits

LEMMA SetFlagIs ==
  ASSUME NEW c \in State, NEW mask, NEW on
  PROVE  set_flag(c, mask, on) = [a |-> c.a, f |-> put(c.f, mask, on)]
BY DEF set_flag, State

LEMMA SetFlagOn ==
  ASSUME NEW x, NEW n, NEW mask, NEW on \in BOOLEAN
  PROVE  set_flag([a |-> x, f |-> n], mask, on) = [a |-> x, f |-> put(n, mask, on)]
BY DEF set_flag

LEMMA SzpIs ==
  ASSUME NEW x, NEW n, NEW v \in Byte
  PROVE  set_szp([a |-> x, f |-> n], v)
           = [a |-> x, f |-> Masked(put(put(put(n, F_S, v >= 128), F_Z, v = 0), F_P, parity8(v)))]
<1>1. parity8(v) \in BOOLEAN /\ (v >= 128) \in BOOLEAN /\ (v = 0) \in BOOLEAN
  BY DEF parity8
<1> DEFINE n1 == put(n, F_S, v >= 128)
           n2 == put(n1, F_Z, v = 0)
           n3 == put(n2, F_P, parity8(v))
<1>2. set_flag([a |-> x, f |-> n], F_S, v >= 128) = [a |-> x, f |-> n1]
  BY DEF set_flag
<1>3. set_flag([a |-> x, f |-> n1], F_Z, v = 0) = [a |-> x, f |-> n2]
  <2> HIDE DEF n1
  <2> QED
    BY DEF set_flag
<1>4. set_flag([a |-> x, f |-> n2], F_P, parity8(v)) = [a |-> x, f |-> n3]
  <2> HIDE DEF n2
  <2> QED
    BY DEF set_flag
<1>5. set_szp([a |-> x, f |-> n], v) = [[a |-> x, f |-> n3] EXCEPT !.f = Masked(@)]
  <2> HIDE DEF n1, n2, n3
  <2> QED
    BY ZenonT(60), <1>2, <1>3, <1>4 DEF set_szp
<1> HIDE DEF n3
<1>6. [[a |-> x, f |-> n3] EXCEPT !.f = Masked(@)] = [a |-> x, f |-> Masked(n3)]
  OBVIOUS
<1> QED
  BY <1>5, <1>6 DEF n3

(* The flags after an operation whose result is v. *)
FlagsOf(v, cy, ac) == Flags(One(cy), One(EvenOnes(v)), One(ac), One(v = 0), One(v >= 128))

LEMMA ResultIs ==
  ASSUME NEW x, NEW n \in Byte, NEW v \in Byte, NEW cy \in BOOLEAN, NEW ac \in BOOLEAN
  PROVE  Result([a |-> x, f |-> n], v, cy, ac) = [a |-> v, f |-> FlagsOf(v, cy, ac)]
<1> DEFINE n1 == put(n, F_C, cy)
           n2 == put(n1, F_AC, ac)
           n3 == Masked(put(put(put(n2, F_S, v >= 128), F_Z, v = 0), F_P, parity8(v)))
<1>1. set_flag(set_flag([a |-> x, f |-> n], F_C, cy), F_AC, ac) = [a |-> x, f |-> n2]
  <2>1. set_flag([a |-> x, f |-> n], F_C, cy) = [a |-> x, f |-> n1]
    BY SetFlagOn
  <2> HIDE DEF n1
  <2>2. set_flag([a |-> x, f |-> n1], F_AC, ac) = [a |-> x, f |-> n2]
    BY SetFlagOn
  <2> QED
    BY Zenon, <2>1, <2>2
<1>2. n3 = FlagsOf(v, cy, ac)
  <2>1. parity8(v) = EvenOnes(v) /\ parity8(v) \in BOOLEAN
    BY ParityIsEvenOnes DEF parity8
  <2>2. \A s \in BOOLEAN, z \in BOOLEAN, p \in BOOLEAN :
          Masked(put(put(put(n2, F_S, s), F_Z, z), F_P, p)) = Flags(One(cy), One(p), One(ac), One(z), One(s))
    BY ResultFlags
  <2>3. (v >= 128) \in BOOLEAN /\ (v = 0) \in BOOLEAN
    OBVIOUS
  <2>4. n3 = Flags(One(cy), One(parity8(v)), One(ac), One(v = 0), One(v >= 128))
    BY ZenonT(60), <2>1, <2>2, <2>3
  <2> QED
    BY Zenon, <2>1, <2>4 DEF FlagsOf
<1> HIDE DEF n2
<1>3. set_szp([a |-> x, f |-> n2], v) = [a |-> x, f |-> n3]
  BY SzpIs
<1> HIDE DEF n3
<1>4. Result([a |-> x, f |-> n], v, cy, ac) = [[a |-> x, f |-> n3] EXCEPT !.a = v]
  BY Zenon, <1>1, <1>3 DEF Result
<1>5. [[a |-> x, f |-> n3] EXCEPT !.a = v] = [a |-> v, f |-> n3]
  OBVIOUS
<1> QED
  BY <1>2, <1>4, <1>5

LEMMA OneBit ==
  ASSUME NEW b \in BOOLEAN
  PROVE  One(b) \in 0 .. 1 /\ (One(b) = 1) = b
BY DEF One

LEMMA FlagsOfBits ==
  ASSUME NEW v \in Byte, NEW cy \in BOOLEAN, NEW ac \in BOOLEAN
  PROVE  LET n == FlagsOf(v, cy, ac)
         IN  /\ n \in Byte
             /\ has(n, F_C) = cy /\ has(n, F_AC) = ac /\ has(n, F_P) = EvenOnes(v)
             /\ has(n, F_Z) = (v = 0) /\ has(n, F_S) = (v >= 128)
<1> DEFINE c == One(cy)
           p == One(EvenOnes(v))
           h == One(ac)
           z == One(v = 0)
           s == One(v >= 128)
           n == Flags(c, p, h, z, s)
<1>1. c \in 0 .. 1 /\ p \in 0 .. 1 /\ h \in 0 .. 1 /\ z \in 0 .. 1 /\ s \in 0 .. 1
  BY DEF One
<1>2. (c = 1) = cy /\ (p = 1) = EvenOnes(v) /\ (h = 1) = ac /\ (z = 1) = (v = 0) /\ (s = 1) = (v >= 128)
  BY DEF One, EvenOnes
<1> HIDE DEF c, p, h, z, s
<1>3. /\ n \in Byte /\ Bit(n, F_C) = c /\ Bit(n, F_P) = p
      /\ Bit(n, F_AC) = h /\ Bit(n, F_Z) = z /\ Bit(n, F_S) = s
  BY <1>1, FlagBits
<1>4. n = FlagsOf(v, cy, ac)
  BY DEF FlagsOf, c, p, h, z, s
<1> HIDE DEF n
<1> QED
  BY <1>2, <1>3, <1>4 DEF has

(* set_flag on legal flags. *)
LEMMA PutCarry ==
  ASSUME NEW c \in 0 .. 1, NEW p \in 0 .. 1, NEW h \in 0 .. 1, NEW z \in 0 .. 1, NEW s \in 0 .. 1,
         NEW on \in BOOLEAN
  PROVE  put(Flags(c, p, h, z, s), F_C, on) = Flags(One(on), p, h, z, s)
<1>1. has(Flags(c, p, h, z, s), F_C) = (c = 1)
  BY FlagBits DEF has
<1> QED
  BY <1>1 DEF put, Flags, One, F_C

-----------------------------------------------------------------------------
(* The carries of a sum: out of the byte, and out of its low nibble. *)
LEMMA CarriesOut ==
  ASSUME NEW x \in Byte, NEW y \in Byte, NEW cy \in 0 .. 1
  PROVE  /\ carry_out(256, x, y, cy) = (x + y + cy >= 256)
         /\ carry_out(16, x, y, cy) = ((x % 16) + (y % 16) + cy > 15)
<1>1. carry_out(256, x, y, cy) = (x + y + cy >= 256)
  BY DEF carry_out, Bit, Byte
<1>2. carry_out(16, x, y, cy) = ((x % 16) + (y % 16) + cy > 15)
  BY SMTT(30) DEF carry_out, Bit, Byte
<1> QED
  BY <1>1, <1>2

(* A + val + cy and A - val - cy, with A and the flags. *)
Added(x, y, cy) ==
  LET v == (x + y + cy) % 256
  IN  [a |-> v, f |-> FlagsOf(v, x + y + cy >= 256, (x % 16) + (y % 16) + cy > 15)]

LEMMA AddIs ==
  ASSUME NEW x \in Byte, NEW n \in Byte, NEW y \in Byte, NEW cy \in 0 .. 1
  PROVE  alu_add([a |-> x, f |-> n], y, cy) = Added(x, y, cy)
<1> DEFINE v == (x + y + cy) % 256
           co == carry_out(256, x, y, cy)
           ac == carry_out(16, x, y, cy)
<1>1. v \in Byte
  BY DEF Byte
<1>2. co \in BOOLEAN /\ ac \in BOOLEAN
  BY DEF carry_out
<1>3. co = (x + y + cy >= 256) /\ ac = ((x % 16) + (y % 16) + cy > 15)
  BY CarriesOut
<1>4. alu_add([a |-> x, f |-> n], y, cy) = Result([a |-> x, f |-> n], v, co, ac)
  BY DEF alu_add
<1> HIDE DEF v, co, ac
<1>5. alu_add([a |-> x, f |-> n], y, cy) = [a |-> v, f |-> FlagsOf(v, co, ac)]
  BY <1>1, <1>2, <1>4, ResultIs
<1> QED
  BY Zenon, <1>3, <1>5 DEF Added, v

LEMMA PutCarryOf ==
  ASSUME NEW v \in Byte, NEW cy \in BOOLEAN, NEW ac \in BOOLEAN, NEW on \in BOOLEAN
  PROVE  put(FlagsOf(v, cy, ac), F_C, on) = FlagsOf(v, on, ac)
<1> DEFINE p == One(EvenOnes(v))
           z == One(v = 0)
           s == One(v >= 128)
<1>1. One(cy) \in 0 .. 1 /\ p \in 0 .. 1 /\ One(ac) \in 0 .. 1 /\ z \in 0 .. 1 /\ s \in 0 .. 1
  BY DEF One
<1>2. FlagsOf(v, cy, ac) = Flags(One(cy), p, One(ac), z, s) /\ FlagsOf(v, on, ac) = Flags(One(on), p, One(ac), z, s)
  BY Zenon DEF FlagsOf
<1> HIDE DEF p, z, s
<1> QED
  BY <1>1, <1>2, PutCarry

Subtracted(x, y, cy) ==
  LET v == (x - y - cy) % 256
  IN  [a |-> v, f |-> FlagsOf(v, x < y + cy, (x % 16) - (y % 16) - cy >= 0)]

LEMMA SubtractIs ==
  ASSUME NEW x \in Byte, NEW n \in Byte, NEW y \in Byte, NEW cy \in 0 .. 1
  PROVE  alu_sub([a |-> x, f |-> n], y, cy) = Subtracted(x, y, cy)
<1> DEFINE v == (x - y - cy) % 256
           co == x + (255 - y) + (1 - cy) >= 256
           bo == x < y + cy
           ac == (x % 16) - (y % 16) - cy >= 0
           g  == FlagsOf(v, co, ac)
<1>1. v \in Byte /\ 255 - y \in Byte /\ 1 - cy \in 0 .. 1
  BY DEF Byte
<1>2. v = (x + (255 - y) + (1 - cy)) % 256 /\ ac = ((x % 16) + ((255 - y) % 16) + (1 - cy) > 15)
  BY DEF Byte
<1>3. alu_add([a |-> x, f |-> n], 255 - y, 1 - cy) = [a |-> v, f |-> g]
  <2>1. alu_add([a |-> x, f |-> n], 255 - y, 1 - cy) = Added(x, 255 - y, 1 - cy)
    BY <1>1, AddIs
  <2> QED
    BY ZenonT(60), <1>2, <2>1 DEF Added
<1>4. co \in BOOLEAN /\ ac \in BOOLEAN /\ bo \in BOOLEAN /\ bo = ~co
  BY DEF Byte
<1>b. bo \in BOOLEAN
  OBVIOUS
<1> HIDE DEF v, co, bo, ac
<1>5. has(g, F_C) = co
  BY <1>1, <1>4, FlagsOfBits
<1>6. put(g, F_C, bo) = FlagsOf(v, bo, ac)
  BY ZenonT(60), <1>1, <1>4, PutCarryOf
<1>7. alu_sub([a |-> x, f |-> n], y, cy) = set_flag([a |-> v, f |-> g], F_C, ~get_flag([a |-> v, f |-> g], F_C))
  BY Zenon, <1>3 DEF alu_sub
<1>8. get_flag([a |-> v, f |-> g], F_C) = co
  BY <1>5 DEF get_flag
<1> HIDE DEF g
<1>9. set_flag([a |-> v, f |-> g], F_C, bo) = [a |-> v, f |-> put(g, F_C, bo)]
  BY <1>b, SetFlagOn
<1>10. alu_sub([a |-> x, f |-> n], y, cy) = [a |-> v, f |-> FlagsOf(v, bo, ac)]
  BY Zenon, <1>4, <1>6, <1>7, <1>8, <1>9
<1> QED
  BY Zenon, <1>10 DEF Subtracted, v, bo, ac

LEMMA ShowsSignOf ==
  ASSUME NEW x, NEW v \in Byte, NEW cy \in BOOLEAN, NEW ac \in BOOLEAN
  PROVE  LET r == [a |-> x, f |-> FlagsOf(v, cy, ac)]
         IN  /\ ShowsSign(r, v)
             /\ get_flag(r, F_C) = cy /\ get_flag(r, F_AC) = ac /\ Carry(r) = One(cy)
             /\ cond_true(r, "C") = cy /\ cond_true(r, "NC") = ~cy
<1> DEFINE r == [a |-> x, f |-> FlagsOf(v, cy, ac)]
<1>1. /\ get_flag(r, F_C) = cy /\ get_flag(r, F_AC) = ac /\ get_flag(r, F_P) = EvenOnes(v)
      /\ get_flag(r, F_Z) = (v = 0) /\ get_flag(r, F_S) = (v >= 128)
  BY FlagsOfBits DEF get_flag
<1> HIDE DEF r
<1>2. Carry(r) = One(cy)
  BY <1>1 DEF Carry, One
<1>3. cond_true(r, "C") = cy /\ cond_true(r, "NC") = ~cy
  BY <1>1 DEF cond_true
<1>4. cond_true(r, "M") = (v >= 128) /\ cond_true(r, "P") = (v < 128)
  <2>1. cond_true(r, "M") = get_flag(r, F_S) /\ cond_true(r, "P") = ~get_flag(r, F_S)
    BY DEF cond_true
  <2>2. (v < 128) = ~(v >= 128)
    BY DEF Byte
  <2> QED
    BY <1>1, <2>1, <2>2
<1>5. cond_true(r, "Z") = (v = 0) /\ cond_true(r, "NZ") = (v # 0)
  BY <1>1 DEF cond_true
<1>6. cond_true(r, "PE") = EvenOnes(v) /\ cond_true(r, "PO") = ~EvenOnes(v)
  BY <1>1 DEF cond_true
<1> QED
  BY <1>1, <1>2, <1>3, <1>4, <1>5, <1>6 DEF ShowsSign, r

LEMMA SumIsExact ==
  ASSUME a \in Byte, NEW y \in Byte, NEW cy \in 0 .. 1
  PROVE  Sum(y, cy, Added(a, y, cy))
<1> DEFINE v == (a + y + cy) % 256
           co == a + y + cy >= 256
           ac == (a % 16) + (y % 16) + cy > 15
           r == [a |-> v, f |-> FlagsOf(v, co, ac)]
<1>1. v \in Byte /\ co \in BOOLEAN /\ ac \in BOOLEAN
  BY DEF Byte
<1>2. 256 * One(co) + v = a + y + cy
  BY DEF Byte, One
<1>3. r = Added(a, y, cy)
  BY DEF Added
<1>4. get_flag(r, F_AC) = ac /\ Carry(r) = One(co) /\ ShowsSign(r, v) /\ r.a = v
  <2> HIDE DEF v, co, ac
  <2> QED
    BY <1>1, ShowsSignOf
<1> HIDE DEF r
<1> QED
  BY <1>2, <1>3, <1>4 DEF Sum

(* What SUB, SBB and CMP show of A - y - cy. *)
Compares(y, cy, r) ==
  /\ Difference(y, cy, r, (a - y - cy) % 256)
  /\ cond_true(r, "C") = (a < y + cy) /\ cond_true(r, "NC") = (a >= y + cy)
  /\ cond_true(r, "Z") = ((a - y - cy) % 256 = 0)

LEMMA DifferenceIsExact ==
  ASSUME a \in Byte, NEW y \in Byte, NEW cy \in 0 .. 1, NEW x
  PROVE  Compares(y, cy, [a |-> x, f |-> Subtracted(a, y, cy).f])
<1> DEFINE v == (a - y - cy) % 256
           bo == a < y + cy
           ac == (a % 16) - (y % 16) - cy >= 0
           q == [a |-> x, f |-> FlagsOf(v, bo, ac)]
<1>1. v \in Byte /\ bo \in BOOLEAN /\ ac \in BOOLEAN
  <2>1. v \in Byte
    BY DEF Byte
  <2> QED
    BY <2>1
<1>2. v - 256 * One(bo) = a - y - cy /\ (~bo) = (a >= y + cy)
  <2>1. (~bo) = (a >= y + cy)
    BY DEF Byte
  <2>2. CASE bo
    BY <2>2 DEF Byte, One
  <2>3. CASE ~bo
    BY <2>3 DEF Byte, One
  <2> QED
    BY <2>1, <2>2, <2>3
<1>3. q = [a |-> x, f |-> Subtracted(a, y, cy).f]
  BY DEF Subtracted
<1>4. /\ get_flag(q, F_AC) = ac /\ Carry(q) = One(bo) /\ ShowsSign(q, v)
      /\ cond_true(q, "C") = bo /\ cond_true(q, "NC") = ~bo
  <2> HIDE DEF v, bo, ac
  <2> QED
    BY <1>1, ShowsSignOf
<1>5. cond_true(q, "Z") = (v = 0)
  BY <1>4 DEF ShowsSign
<1> HIDE DEF q
<1> QED
  BY <1>2, <1>3, <1>4, <1>5 DEF Difference, Compares

(* INR and DCR: the carry before is the carry after. *)
LEMMA KeepsCarry ==
  ASSUME NEW x, NEW n \in Byte, NEW v \in Byte, NEW ac \in BOOLEAN
  PROVE  [set_szp(set_flag([a |-> x, f |-> n], F_AC, ac), v) EXCEPT !.a = v]
           = [a |-> v, f |-> FlagsOf(v, has(n, F_C), ac)]
<1>1. has(n, F_C) \in BOOLEAN
  BY DEF has
<1>2. put(n, F_C, has(n, F_C)) = n
  BY DEF put
<1>3. set_flag([a |-> x, f |-> n], F_C, has(n, F_C)) = [a |-> x, f |-> n]
  BY <1>1, <1>2, SetFlagOn
<1>4. Result([a |-> x, f |-> n], v, has(n, F_C), ac)
        = [set_szp(set_flag([a |-> x, f |-> n], F_AC, ac), v) EXCEPT !.a = v]
  BY Zenon, <1>3 DEF Result
<1>5. Result([a |-> x, f |-> n], v, has(n, F_C), ac) = [a |-> v, f |-> FlagsOf(v, has(n, F_C), ac)]
  BY <1>1, ResultIs
<1> QED
  BY Zenon, <1>4, <1>5

LEMMA IncrementIs ==
  ASSUME NEW x \in Byte, NEW n \in Byte
  PROVE  alu_inr([a |-> x, f |-> n])
           = [a |-> (x + 1) % 256, f |-> FlagsOf((x + 1) % 256, has(n, F_C), (x % 16) + 1 > 15)]
<1> DEFINE v == (x + 1) % 256
           ac == v % 16 = 0
<1>1. v \in Byte /\ ac = ((x % 16) + 1 > 15)
  BY SMTT(30) DEF Byte
<1>b. ac \in BOOLEAN
  OBVIOUS
<1>v. v \in Byte
  BY <1>1
<1>2. alu_inr([a |-> x, f |-> n]) = [set_szp(set_flag([a |-> x, f |-> n], F_AC, ac), v) EXCEPT !.a = v]
  BY DEF alu_inr
<1> HIDE DEF v, ac
<1>3. alu_inr([a |-> x, f |-> n]) = [a |-> v, f |-> FlagsOf(v, has(n, F_C), ac)]
  BY <1>b, <1>v, <1>2, KeepsCarry
<1> QED
  BY Zenon, <1>1, <1>3 DEF v

LEMMA DecrementIs ==
  ASSUME NEW x \in Byte, NEW n \in Byte
  PROVE  alu_dcr([a |-> x, f |-> n])
           = [a |-> (x - 1) % 256, f |-> FlagsOf((x - 1) % 256, has(n, F_C), (x % 16) - 1 >= 0)]
<1> DEFINE v == (x + 255) % 256
           ac == v % 16 # 15
<1>1. v \in Byte /\ v = (x - 1) % 256 /\ ac = ((x % 16) - 1 >= 0)
  BY SMTT(30) DEF Byte
<1>b. ac \in BOOLEAN
  OBVIOUS
<1>v. v \in Byte
  BY <1>1
<1>2. alu_dcr([a |-> x, f |-> n]) = [set_szp(set_flag([a |-> x, f |-> n], F_AC, ac), v) EXCEPT !.a = v]
  BY DEF alu_dcr
<1> HIDE DEF v, ac
<1>3. alu_dcr([a |-> x, f |-> n]) = [a |-> v, f |-> FlagsOf(v, has(n, F_C), ac)]
  BY <1>b, <1>v, <1>2, KeepsCarry
<1> QED
  BY Zenon, <1>1, <1>3

LEMMA LogicIs ==
  ASSUME NEW x \in Byte, NEW n \in Byte, NEW y \in Byte
  PROVE  /\ alu_ana([a |-> x, f |-> n], y) = [a |-> And(x, y), f |-> FlagsOf(And(x, y), FALSE, has(Or(x, y), \h08))]
         /\ alu_xra([a |-> x, f |-> n], y) = [a |-> Xor(x, y), f |-> FlagsOf(Xor(x, y), FALSE, FALSE)]
         /\ alu_ora([a |-> x, f |-> n], y) = [a |-> Or(x, y), f |-> FlagsOf(Or(x, y), FALSE, FALSE)]
<1> DEFINE c == [a |-> x, f |-> n]
<1>1. And(x, y) \in Byte /\ Or(x, y) \in Byte /\ Xor(x, y) \in Byte
  BY OfBitsInByte
<1>2. FALSE \in BOOLEAN /\ has(Or(x, y), \h08) \in BOOLEAN
  BY DEF has
<1>3. c.a = x
  OBVIOUS
<1>4. /\ alu_ana(c, y) = Result(c, And(x, y), FALSE, has(Or(x, y), \h08))
      /\ alu_xra(c, y) = Result(c, Xor(x, y), FALSE, FALSE)
      /\ alu_ora(c, y) = Result(c, Or(x, y), FALSE, FALSE)
  BY Zenon, <1>3 DEF alu_ana, alu_xra, alu_ora
<1> HIDE DEF c
<1>5. \A v \in Byte, cy \in BOOLEAN, ac \in BOOLEAN : Result(c, v, cy, ac) = [a |-> v, f |-> FlagsOf(v, cy, ac)]
  BY ResultIs DEF c
<1>6. /\ Result(c, And(x, y), FALSE, has(Or(x, y), \h08)) = [a |-> And(x, y), f |-> FlagsOf(And(x, y), FALSE, has(Or(x, y), \h08))]
      /\ Result(c, Xor(x, y), FALSE, FALSE) = [a |-> Xor(x, y), f |-> FlagsOf(Xor(x, y), FALSE, FALSE)]
      /\ Result(c, Or(x, y), FALSE, FALSE) = [a |-> Or(x, y), f |-> FlagsOf(Or(x, y), FALSE, FALSE)]
  BY Zenon, <1>1, <1>2, <1>5
<1> QED
  BY Zenon, <1>4, <1>6 DEF c

-----------------------------------------------------------------------------
(* SumsExact, in every state with the types. *)
Carried == has(f, F_C)

LEMMA NowIs ==
  ASSUME a \in Byte, f \in Byte
  PROVE  /\ Now.a = a /\ Now = [a |-> a, f |-> f] /\ Carry(Now) = One(Carried)
         /\ get_flag(Now, F_C) = Carried /\ Carried \in BOOLEAN /\ One(Carried) \in 0 .. 1
BY DEF Now, Carry, get_flag, One, Carried, has

LEMMA IncrementAgrees ==
  ASSUME a \in Byte, f \in Byte
  PROVE  alu_inr(Now) = KeepingCarry(alu_op(Now, "ADD", 1))
<1> DEFINE v == (a + 1) % 256
           co == a + 1 >= 256
           ac == (a % 16) + 1 > 15
<1>1. alu_inr(Now) = [a |-> v, f |-> FlagsOf(v, Carried, ac)]
  <2>1. alu_inr([a |-> a, f |-> f]) = [a |-> v, f |-> FlagsOf(v, has(f, F_C), ac)]
    BY IncrementIs
  <2> QED
    BY Zenon, <2>1, NowIs DEF Carried
<1>2. v \in Byte /\ co \in BOOLEAN /\ ac \in BOOLEAN /\ 1 \in Byte /\ 0 \in 0 .. 1
  BY DEF Byte
<1>3. v = (a + 1 + 0) % 256 /\ co = (a + 1 + 0 >= 256) /\ ac = ((a % 16) + (1 % 16) + 0 > 15)
  BY DEF Byte
<1>4. alu_op(Now, "ADD", 1) = Added(a, 1, 0)
  <2>1. alu_op(Now, "ADD", 1) = alu_add(Now, 1, 0)
    BY DEF alu_op
  <2> QED
    BY <1>2, <2>1, NowIs, AddIs
<1>5. Added(a, 1, 0) = [a |-> v, f |-> FlagsOf(v, co, ac)]
  BY Zenon, <1>3 DEF Added
<1> HIDE DEF v, co, ac
<1>6. set_flag([a |-> v, f |-> FlagsOf(v, co, ac)], F_C, Carried) = [a |-> v, f |-> put(FlagsOf(v, co, ac), F_C, Carried)]
  BY NowIs, SetFlagOn
<1>7. put(FlagsOf(v, co, ac), F_C, Carried) = FlagsOf(v, Carried, ac)
  BY <1>2, NowIs, PutCarryOf
<1> QED
  BY Zenon, <1>1, <1>4, <1>5, <1>6, <1>7, NowIs DEF KeepingCarry

LEMMA DecrementAgrees ==
  ASSUME a \in Byte, f \in Byte
  PROVE  alu_dcr(Now) = KeepingCarry(alu_op(Now, "SUB", 1))
<1> DEFINE v == (a - 1) % 256
           bo == a < 1
           ac == (a % 16) - 1 >= 0
<1>1. alu_dcr(Now) = [a |-> v, f |-> FlagsOf(v, Carried, ac)]
  <2>1. alu_dcr([a |-> a, f |-> f]) = [a |-> v, f |-> FlagsOf(v, has(f, F_C), ac)]
    BY DecrementIs
  <2> QED
    BY Zenon, <2>1, NowIs DEF Carried
<1>2. v \in Byte /\ bo \in BOOLEAN /\ ac \in BOOLEAN /\ 1 \in Byte /\ 0 \in 0 .. 1
  BY DEF Byte
<1>3. v = (a - 1 - 0) % 256 /\ bo = (a < 1 + 0) /\ ac = ((a % 16) - (1 % 16) - 0 >= 0)
  BY DEF Byte
<1>4. alu_op(Now, "SUB", 1) = Subtracted(a, 1, 0)
  <2>1. alu_op(Now, "SUB", 1) = alu_sub(Now, 1, 0)
    BY DEF alu_op
  <2> QED
    BY <1>2, <2>1, NowIs, SubtractIs
<1>5. Subtracted(a, 1, 0) = [a |-> v, f |-> FlagsOf(v, bo, ac)]
  BY Zenon, <1>3 DEF Subtracted
<1> HIDE DEF v, bo, ac
<1>6. set_flag([a |-> v, f |-> FlagsOf(v, bo, ac)], F_C, Carried) = [a |-> v, f |-> put(FlagsOf(v, bo, ac), F_C, Carried)]
  BY NowIs, SetFlagOn
<1>7. put(FlagsOf(v, bo, ac), F_C, Carried) = FlagsOf(v, Carried, ac)
  BY <1>2, NowIs, PutCarryOf
<1> QED
  BY Zenon, <1>1, <1>4, <1>5, <1>6, <1>7, NowIs DEF KeepingCarry

LEMMA SameModulo ==
  ASSUME NEW x \in Byte, NEW y \in Byte
  PROVE  (x - y) % 256 = 0 <=> x = y
<1>1. x >= y => (x - y) % 256 = x - y
  BY DEF Byte
<1>2. x < y => (x - y) % 256 = x - y + 256
  BY DEF Byte
<1> QED
  BY <1>1, <1>2 DEF Byte

LEMMA OperandsAreBytes ==
  ASSUME NEW val \in Operands
  PROVE  val \in Byte
<1>1. Operands \subseteq Byte
  BY OperandAssumption
<1> QED
  BY <1>1

LEMMA SumsAreExact ==
  ASSUME a \in Byte, f \in Byte
  PROVE  SumsExact
<1>1. ASSUME NEW val \in Operands
      PROVE  /\ Sum(val, 0, alu_op(Now, "ADD", val)) /\ Sum(val, Carry(Now), alu_op(Now, "ADC", val))
  <2>1. val \in Byte /\ Carry(Now) \in 0 .. 1 /\ 0 \in 0 .. 1 /\ Now = [a |-> a, f |-> f]
    <3>1. val \in Byte
      BY <1>1, OperandsAreBytes
    <3> QED
      BY <3>1, NowIs
  <2>2. alu_op(Now, "ADD", val) = alu_add(Now, val, 0) /\ alu_op(Now, "ADC", val) = alu_add(Now, val, Carry(Now))
    BY DEF alu_op
  <2>3. alu_add(Now, val, 0) = Added(a, val, 0) /\ alu_add(Now, val, Carry(Now)) = Added(a, val, Carry(Now))
    BY <2>1, AddIs
  <2> QED
    BY <2>1, <2>2, <2>3, SumIsExact
<1>2. ASSUME NEW val \in Operands
      PROVE  /\ Difference(val, 0, alu_op(Now, "SUB", val), alu_op(Now, "SUB", val).a)
             /\ Difference(val, Carry(Now), alu_op(Now, "SBB", val), alu_op(Now, "SBB", val).a)
             /\ LET r == alu_op(Now, "CMP", val)
                IN  r.a = a /\ cond_true(r, "C") = (a < val) /\ cond_true(r, "Z") = (a = val)
                      /\ cond_true(r, "NC") = (a >= val) /\ Difference(val, 0, r, (a - val) % 256)
  <2>1. val \in Byte /\ Carry(Now) \in 0 .. 1 /\ 0 \in 0 .. 1 /\ Now = [a |-> a, f |-> f]
    <3>1. val \in Byte
      BY <1>2, OperandsAreBytes
    <3> QED
      BY <3>1, NowIs
  <2>2. /\ alu_op(Now, "SUB", val) = alu_sub(Now, val, 0)
        /\ alu_op(Now, "SBB", val) = alu_sub(Now, val, Carry(Now))
        /\ alu_op(Now, "CMP", val) = [alu_sub(Now, val, 0) EXCEPT !.a = Now.a]
    BY DEF alu_op, alu_cmp
  <2>3. alu_sub(Now, val, 0) = Subtracted(a, val, 0) /\ alu_sub(Now, val, Carry(Now)) = Subtracted(a, val, Carry(Now))
    BY <2>1, SubtractIs
  <2>4. \A cy \in 0 .. 1 : LET s == Subtracted(a, val, cy)
                           IN  s = [a |-> s.a, f |-> s.f] /\ s.a = (a - val - cy) % 256
    BY DEF Subtracted
  <2>5. ASSUME NEW cy \in 0 .. 1
        PROVE  Difference(val, cy, Subtracted(a, val, cy), Subtracted(a, val, cy).a)
    <3> DEFINE s == Subtracted(a, val, cy)
    <3>1. s = [a |-> s.a, f |-> s.f] /\ s.a = (a - val - cy) % 256
      BY <2>4
    <3>2. \A x : Difference(val, cy, [a |-> x, f |-> s.f], (a - val - cy) % 256)
      BY <2>1, DifferenceIsExact DEF Compares
    <3> HIDE DEF s
    <3>3. Difference(val, cy, s, s.a)
      BY Zenon, <3>1, <3>2
    <3> QED
      BY <3>3 DEF s
  <2>6. LET r == alu_op(Now, "CMP", val)
        IN  r.a = a /\ cond_true(r, "C") = (a < val) /\ cond_true(r, "Z") = (a = val)
              /\ cond_true(r, "NC") = (a >= val) /\ Difference(val, 0, r, (a - val) % 256)
    <3> DEFINE r == [a |-> a, f |-> Subtracted(a, val, 0).f]
    <3>1. alu_op(Now, "CMP", val) = r
      <4>1. [Subtracted(a, val, 0) EXCEPT !.a = a] = r
        BY <2>4 DEF Subtracted
      <4> QED
        BY Zenon, <2>2, <2>3, <4>1, NowIs
    <3>2. Compares(val, 0, r)
      BY <2>1, DifferenceIsExact
    <3>3. /\ a - val - 0 = a - val /\ (a < val + 0) = (a < val) /\ (a >= val + 0) = (a >= val)
          /\ ((a - val - 0) % 256 = 0) = (a = val)
      <4>1. a - val - 0 = a - val /\ val + 0 = val
        BY <2>1 DEF Byte
      <4>2. (a - val) % 256 = 0 <=> a = val
        BY <2>1, SameModulo
      <4> QED
        BY Zenon, <4>1, <4>2
    <3>4. r.a = a
      OBVIOUS
    <3> HIDE DEF r
    <3> QED
      BY Zenon, <3>1, <3>2, <3>3, <3>4 DEF Compares
  <2>7. Difference(val, 0, alu_op(Now, "SUB", val), alu_op(Now, "SUB", val).a)
    BY Zenon, <2>1, <2>2, <2>3, <2>5
  <2>8. Difference(val, Carry(Now), alu_op(Now, "SBB", val), alu_op(Now, "SBB", val).a)
    BY Zenon, <2>1, <2>2, <2>3, <2>5
  <2> QED
    BY Zenon, <2>6, <2>7, <2>8
<1> QED
  BY Zenon, <1>1, <1>2, IncrementAgrees, DecrementAgrees DEF SumsExact

-----------------------------------------------------------------------------
(* The legal flags bytes, as TypeOK has them. *)
Legal == {F_ONE + c + p + ac + z + s : c \in {0, F_C}, p \in {0, F_P}, ac \in {0, F_AC},
                                       z \in {0, F_Z}, s \in {0, F_S}}

LEMMA FlagsAreLegal ==
  ASSUME NEW c \in 0 .. 1, NEW p \in 0 .. 1, NEW ac \in 0 .. 1, NEW z \in 0 .. 1, NEW s \in 0 .. 1
  PROVE  Flags(c, p, ac, z, s) \in Legal
<1> DEFINE p4 == 4 * p
           h16 == 16 * ac
           z64 == 64 * z
           s128 == 128 * s
<1>1. c \in {0, 1} /\ p4 \in {0, 4} /\ h16 \in {0, 16} /\ z64 \in {0, 64} /\ s128 \in {0, 128}
  OBVIOUS
<1>2. Flags(c, p, ac, z, s) = 2 + c + p4 + h16 + z64 + s128
  BY DEF Flags
<1> HIDE DEF p4, h16, z64, s128
<1> QED
  BY <1>1, <1>2 DEF Legal, F_ONE, F_C, F_P, F_AC, F_Z, F_S

LEMMA LegalAreFlags ==
  ASSUME NEW n \in Legal
  PROVE  /\ n \in Byte
         /\ \E c, p, ac, z, s \in 0 .. 1 : n = Flags(c, p, ac, z, s)
<1>1. PICK c1 \in {0, 1}, p1 \in {0, 4}, h1 \in {0, 16}, z1 \in {0, 64}, s1 \in {0, 128} :
        n = 2 + c1 + p1 + h1 + z1 + s1
  BY DEF Legal, F_ONE, F_C, F_P, F_AC, F_Z, F_S
<1> DEFINE c == c1
           p == IF p1 = 0 THEN 0 ELSE 1
           h == IF h1 = 0 THEN 0 ELSE 1
           z == IF z1 = 0 THEN 0 ELSE 1
           s == IF s1 = 0 THEN 0 ELSE 1
<1>2. c \in 0 .. 1 /\ p \in 0 .. 1 /\ h \in 0 .. 1 /\ z \in 0 .. 1 /\ s \in 0 .. 1
  BY <1>1
<1>3. p1 = 4 * p /\ h1 = 16 * h /\ z1 = 64 * z /\ s1 = 128 * s
  BY <1>1
<1> HIDE DEF p, h, z, s
<1>4. n = Flags(c, p, h, z, s)
  BY <1>1, <1>2, <1>3 DEF Flags
<1>5. Flags(c, p, h, z, s) \in Byte
  BY <1>2, FlagBits
<1> QED
  BY ZenonT(60), <1>2, <1>4, <1>5

LEMMA FlagsOfLegal ==
  ASSUME NEW v \in Byte, NEW cy \in BOOLEAN, NEW ac \in BOOLEAN
  PROVE  FlagsOf(v, cy, ac) \in Legal
<1>1. /\ One(cy) \in 0 .. 1 /\ One(EvenOnes(v)) \in 0 .. 1 /\ One(ac) \in 0 .. 1
      /\ One(v = 0) \in 0 .. 1 /\ One(v >= 128) \in 0 .. 1
  BY DEF One
<1> QED
  BY Zenon, <1>1, FlagsAreLegal DEF FlagsOf

LEMMA CarryPutLegal ==
  ASSUME NEW n \in Legal, NEW on \in BOOLEAN
  PROVE  put(n, F_C, on) \in Legal
<1>1. PICK c \in 0 .. 1, p \in 0 .. 1, h \in 0 .. 1, z \in 0 .. 1, s \in 0 .. 1 : n = Flags(c, p, h, z, s)
  BY Zenon, LegalAreFlags
<1>2. put(n, F_C, on) = Flags(One(on), p, h, z, s)
  BY <1>1, PutCarry
<1>3. One(on) \in 0 .. 1
  BY DEF One
<1> QED
  BY <1>1, <1>2, <1>3, FlagsAreLegal

(* Masked makes any byte legal, and leaves a legal one alone. *)
LEMMA MaskedIsLegal ==
  ASSUME NEW n \in Byte
  PROVE  Masked(n) \in Legal
<1> DEFINE n6 == put(n, 32, FALSE)
           n7 == put(n6, 8, FALSE)
           n8 == put(n7, 2, TRUE)
<1>0. One(TRUE) = 1 /\ One(FALSE) = 0
  BY DEF One
<1>m. 2 \in Masks /\ 8 \in Masks /\ 32 \in Masks /\ TRUE \in BOOLEAN /\ FALSE \in BOOLEAN
  BY DEF Masks
<1>6. n6 \in Byte /\ Bit(n6, 32) = One(FALSE) /\ \A m \in Masks \ {32} : Bit(n6, m) = Bit(n, m)
  BY <1>m, PutBits
<1> HIDE DEF n6
<1>7. n7 \in Byte /\ Bit(n7, 8) = One(FALSE) /\ \A m \in Masks \ {8} : Bit(n7, m) = Bit(n6, m)
  BY <1>6, <1>m, PutBits
<1> HIDE DEF n7
<1>8. n8 \in Byte /\ Bit(n8, 2) = One(TRUE) /\ \A m \in Masks \ {2} : Bit(n8, m) = Bit(n7, m)
  BY <1>7, <1>m, PutBits
<1>9. Masked(n) = n8
  BY Zenon DEF Masked, F_ONE, n6, n7
<1> HIDE DEF n8
<1>10. Bit(n8, 2) = 1 /\ Bit(n7, 8) = 0 /\ Bit(n6, 32) = 0
  BY Zenon, <1>0, <1>6, <1>7, <1>8
<1>11. Bit(n8, 2) = 1 /\ Bit(n8, 8) = 0 /\ Bit(n8, 32) = 0
  BY <1>7, <1>8, <1>10 DEF Masks
<1>12. n8 = Flags(Bit(n8, 1), Bit(n8, 4), Bit(n8, 16), Bit(n8, 64), Bit(n8, 128))
  BY <1>8, <1>11, FlagsByBits
<1>13. /\ Bit(n8, 1) \in 0 .. 1 /\ Bit(n8, 4) \in 0 .. 1 /\ Bit(n8, 16) \in 0 .. 1
       /\ Bit(n8, 64) \in 0 .. 1 /\ Bit(n8, 128) \in 0 .. 1
  BY <1>8, BitsOf
<1>14. Flags(Bit(n8, 1), Bit(n8, 4), Bit(n8, 16), Bit(n8, 64), Bit(n8, 128)) \in Legal
  BY <1>13, FlagsAreLegal
<1> QED
  BY Zenon, <1>9, <1>12, <1>14

LEMMA MaskedKeepsLegal ==
  ASSUME NEW n \in Legal
  PROVE  Masked(n) = n
<1>1. PICK c \in 0 .. 1, p \in 0 .. 1, h \in 0 .. 1, z \in 0 .. 1, s \in 0 .. 1 : n = Flags(c, p, h, z, s)
  BY Zenon, LegalAreFlags
<1>2. Bit(n, F_ONE) = 1 /\ Bit(n, \h08) = 0 /\ Bit(n, \h20) = 0
  BY <1>1, FlagBits
<1>3. has(n, F_ONE) = TRUE /\ has(n, \h08) = FALSE /\ has(n, \h20) = FALSE
  BY <1>2 DEF has
<1>4. put(n, \h20, FALSE) = n /\ put(n, \h08, FALSE) = n /\ put(n, F_ONE, TRUE) = n
  BY Zenon, <1>3 DEF put
<1> QED
  BY Zenon, <1>4 DEF Masked

-----------------------------------------------------------------------------
(* The operations that set the carry alone. *)
LEMMA CarryPut ==
  ASSUME NEW n \in Byte, NEW on \in BOOLEAN
  PROVE  /\ put(n, F_C, on) \in Byte
         /\ has(put(n, F_C, on), F_C) = on
         /\ put(put(n, F_C, on), F_C, has(n, F_C)) = n
<1>1. put(n, F_C, on) \in Byte
  BY DEF put, has, Bit, Byte, F_C
<1>2. has(put(n, F_C, on), F_C) = on
  BY DEF put, has, Bit, Byte, F_C
<1>3. put(put(n, F_C, on), F_C, has(n, F_C)) = n
  BY DEF put, has, Bit, Byte, F_C
<1> QED
  BY <1>1, <1>2, <1>3

LEMMA CarryOf ==
  ASSUME NEW x, NEW n
  PROVE  LET c == [a |-> x, f |-> n]
         IN  Carry(c) = One(has(n, F_C)) /\ get_flag(c, F_C) = has(n, F_C)
BY DEF Carry, One, get_flag

LEMMA RlcIs ==
  ASSUME NEW x \in Byte, NEW n \in Byte
  PROVE  RLC([a |-> x, f |-> n]) = [a |-> ((2 * x) % 256) + (x \div 128), f |-> put(n, F_C, x >= 128)]
<1> DEFINE c == [a |-> x, f |-> n]
<1>1. (x >= 128) \in BOOLEAN /\ c.a = x
  OBVIOUS
<1>2. ASSUME NEW v, NEW on \in BOOLEAN
      PROVE  set_flag([a |-> v, f |-> n], F_C, on) = [a |-> v, f |-> put(n, F_C, on)]
  BY SetFlagOn
<1>3. \A v : set_flag([a |-> v, f |-> n], F_C, x >= 128) = [a |-> v, f |-> put(n, F_C, x >= 128)]
  BY Zenon, <1>1, <1>2
<1>4. [c EXCEPT !.a = ((2 * @) % 256) + (@ \div 128)] = [a |-> ((2 * x) % 256) + (x \div 128), f |-> n]
  OBVIOUS
<1> QED
  BY ZenonT(60), <1>1, <1>3, <1>4 DEF RLC

LEMMA RrcIs ==
  ASSUME NEW x \in Byte, NEW n \in Byte
  PROVE  RRC([a |-> x, f |-> n]) = [a |-> (x \div 2) + 128 * (x % 2), f |-> put(n, F_C, x % 2 = 1)]
<1> DEFINE c == [a |-> x, f |-> n]
<1>1. (x % 2 = 1) \in BOOLEAN /\ c.a = x
  OBVIOUS
<1>2. ASSUME NEW v, NEW on \in BOOLEAN
      PROVE  set_flag([a |-> v, f |-> n], F_C, on) = [a |-> v, f |-> put(n, F_C, on)]
  BY SetFlagOn
<1>3. \A v : set_flag([a |-> v, f |-> n], F_C, x % 2 = 1) = [a |-> v, f |-> put(n, F_C, x % 2 = 1)]
  BY Zenon, <1>1, <1>2
<1>4. [c EXCEPT !.a = (@ \div 2) + 128 * (@ % 2)] = [a |-> (x \div 2) + 128 * (x % 2), f |-> n]
  OBVIOUS
<1> QED
  BY ZenonT(60), <1>1, <1>3, <1>4 DEF RRC

LEMMA RalIs ==
  ASSUME NEW x \in Byte, NEW n \in Byte
  PROVE  RAL([a |-> x, f |-> n]) = [a |-> ((2 * x) % 256) + One(has(n, F_C)), f |-> put(n, F_C, x >= 128)]
<1> DEFINE c == [a |-> x, f |-> n]
<1>1. (x >= 128) \in BOOLEAN /\ c.a = x
  OBVIOUS
<1>2. ASSUME NEW v, NEW on \in BOOLEAN
      PROVE  set_flag([a |-> v, f |-> n], F_C, on) = [a |-> v, f |-> put(n, F_C, on)]
  BY SetFlagOn
<1>3. \A v : set_flag([a |-> v, f |-> n], F_C, x >= 128) = [a |-> v, f |-> put(n, F_C, x >= 128)]
  BY Zenon, <1>1, <1>2
<1>4. [c EXCEPT !.a = ((2 * @) % 256) + Carry(c)] = [a |-> ((2 * x) % 256) + One(has(n, F_C)), f |-> n]
  BY CarryOf
<1> QED
  BY ZenonT(60), <1>1, <1>3, <1>4 DEF RAL

LEMMA RarIs ==
  ASSUME NEW x \in Byte, NEW n \in Byte
  PROVE  RAR([a |-> x, f |-> n]) = [a |-> (x \div 2) + 128 * One(has(n, F_C)), f |-> put(n, F_C, x % 2 = 1)]
<1> DEFINE c == [a |-> x, f |-> n]
<1>1. (x % 2 = 1) \in BOOLEAN /\ c.a = x
  OBVIOUS
<1>2. ASSUME NEW v, NEW on \in BOOLEAN
      PROVE  set_flag([a |-> v, f |-> n], F_C, on) = [a |-> v, f |-> put(n, F_C, on)]
  BY SetFlagOn
<1>3. \A v : set_flag([a |-> v, f |-> n], F_C, x % 2 = 1) = [a |-> v, f |-> put(n, F_C, x % 2 = 1)]
  BY Zenon, <1>1, <1>2
<1>4. [c EXCEPT !.a = (@ \div 2) + 128 * Carry(c)] = [a |-> (x \div 2) + 128 * One(has(n, F_C)), f |-> n]
  BY CarryOf
<1> QED
  BY ZenonT(60), <1>1, <1>3, <1>4 DEF RAR

LEMMA CmcIs ==
  ASSUME NEW x, NEW n
  PROVE  CMC([a |-> x, f |-> n]) = [a |-> x, f |-> put(n, F_C, ~has(n, F_C))]
<1>1. (~has(n, F_C)) \in BOOLEAN
  OBVIOUS
<1> QED
  BY Zenon, <1>1, SetFlagOn, CarryOf DEF CMC

LEMMA StcIs ==
  ASSUME NEW x, NEW n
  PROVE  STC([a |-> x, f |-> n]) = [a |-> x, f |-> put(n, F_C, TRUE)]
<1>1. TRUE \in BOOLEAN
  OBVIOUS
<1> QED
  BY Zenon, <1>1, SetFlagOn DEF STC

LEMMA RotatesUndone ==
  ASSUME a \in Byte, f \in Byte
  PROVE  /\ RAR(RAL(Now)) = Now /\ RAL(RAR(Now)) = Now
         /\ RRC(RLC(Now)).a = a /\ RLC(RRC(Now)).a = a
<1>1. Now = [a |-> a, f |-> f] /\ Carried \in BOOLEAN /\ One(Carried) \in 0 .. 1
  BY NowIs
<1>c. (One(Carried) = 1) = Carried
  BY <1>1, OneBit
<1>2. RAR(RAL(Now)) = Now
  <2> DEFINE x == ((2 * a) % 256) + One(Carried)
             n == put(f, F_C, a >= 128)
  <2>1. x \in Byte /\ (x \div 2) + 128 * One(a >= 128) = a
    BY SMTT(30), <1>1 DEF Byte, One
  <2>2. (x % 2 = 1) = Carried
    <3>1. x % 2 = One(Carried)
      BY <1>1 DEF Byte
    <3> QED
      BY Zenon, <3>1, <1>c
  <2>3. n \in Byte /\ has(n, F_C) = (a >= 128) /\ put(n, F_C, has(f, F_C)) = f
    <3>1. (a >= 128) \in BOOLEAN
      OBVIOUS
    <3> QED
      BY Zenon, <3>1, CarryPut
  <2>4. RAL(Now) = [a |-> x, f |-> n]
    BY ZenonT(60), <1>1, RalIs DEF Carried
  <2> HIDE DEF x, n
  <2>5. RAR([a |-> x, f |-> n]) = [a |-> (x \div 2) + 128 * One(has(n, F_C)), f |-> put(n, F_C, x % 2 = 1)]
    BY ZenonT(60), <2>1, <2>3, RarIs
  <2> QED
    BY Zenon, <1>1, <2>1, <2>2, <2>3, <2>4, <2>5 DEF Carried
<1>3. RAL(RAR(Now)) = Now
  <2> DEFINE x == (a \div 2) + 128 * One(Carried)
             n == put(f, F_C, a % 2 = 1)
  <2>1. x \in Byte /\ ((2 * x) % 256) + One(a % 2 = 1) = a
    BY <1>1 DEF Byte, One
  <2>2. (x >= 128) = Carried
    <3>1. (x >= 128) = (One(Carried) = 1)
      BY <1>1 DEF Byte
    <3> QED
      BY Zenon, <3>1, <1>c
  <2>3. n \in Byte /\ has(n, F_C) = (a % 2 = 1) /\ put(n, F_C, has(f, F_C)) = f
    <3>1. (a % 2 = 1) \in BOOLEAN
      OBVIOUS
    <3> QED
      BY Zenon, <3>1, CarryPut
  <2>4. RAR(Now) = [a |-> x, f |-> n]
    BY Zenon, <1>1, RarIs DEF Carried
  <2> HIDE DEF x, n
  <2>5. RAL([a |-> x, f |-> n]) = [a |-> ((2 * x) % 256) + One(has(n, F_C)), f |-> put(n, F_C, x >= 128)]
    BY ZenonT(60), <2>1, <2>3, RalIs
  <2> QED
    BY ZenonT(60), <1>1, <2>1, <2>2, <2>3, <2>4, <2>5 DEF Carried
<1>4. RRC(RLC(Now)).a = a
  <2> DEFINE x == ((2 * a) % 256) + (a \div 128)
             n == put(f, F_C, a >= 128)
  <2>1. x \in Byte /\ (x \div 2) + 128 * (x % 2) = a
    BY DEF Byte
  <2>2. n \in Byte
    <3>1. (a >= 128) \in BOOLEAN
      OBVIOUS
    <3> QED
      BY Zenon, <3>1, CarryPut
  <2>3. RLC(Now) = [a |-> x, f |-> n]
    BY Zenon, <1>1, RlcIs
  <2> HIDE DEF x, n
  <2>4. RRC([a |-> x, f |-> n]) = [a |-> (x \div 2) + 128 * (x % 2), f |-> put(n, F_C, x % 2 = 1)]
    BY ZenonT(60), <2>1, <2>2, RrcIs
  <2> QED
    BY <2>1, <2>3, <2>4
<1>5. RLC(RRC(Now)).a = a
  <2> DEFINE x == (a \div 2) + 128 * (a % 2)
             n == put(f, F_C, a % 2 = 1)
  <2>1. x \in Byte /\ ((2 * x) % 256) + (x \div 128) = a
    BY DEF Byte
  <2>2. n \in Byte
    <3>1. (a % 2 = 1) \in BOOLEAN
      OBVIOUS
    <3> QED
      BY Zenon, <3>1, CarryPut
  <2>3. RRC(Now) = [a |-> x, f |-> n]
    BY Zenon, <1>1, RrcIs
  <2> HIDE DEF x, n
  <2>4. RLC([a |-> x, f |-> n]) = [a |-> ((2 * x) % 256) + (x \div 128), f |-> put(n, F_C, x >= 128)]
    BY ZenonT(60), <2>1, <2>2, RlcIs
  <2> QED
    BY <2>1, <2>3, <2>4
<1> QED
  BY <1>2, <1>3, <1>4, <1>5

LEMMA AllUndone ==
  ASSUME a \in Byte, f \in Legal
  PROVE  UndoneExactly
<1>1. f \in Byte
  BY LegalAreFlags
<1>2. Now = [a |-> a, f |-> f] /\ Now.a = a /\ Now.f = f
  BY DEF Now
<1>3. POP_PSW(PUSH_PSW(Now)) = Now
  <2> DEFINE w == 256 * a + f
  <2>1. w \div 256 = a /\ w % 256 = f
    BY <1>1 DEF Byte
  <2>2. Masked(f) = f
    BY MaskedKeepsLegal
  <2>3. PUSH_PSW(Now) = w
    BY Zenon, <1>2, <2>2 DEF PUSH_PSW
  <2> HIDE DEF w
  <2>4. POP_PSW(w) = [a |-> a, f |-> f]
    BY Zenon, <2>1, <2>2 DEF POP_PSW
  <2> QED
    BY Zenon, <1>2, <2>3, <2>4
<1>4. CMA(CMA(Now)) = Now
  <2>1. CMA([a |-> a, f |-> f]) = [a |-> 255 - a, f |-> f]
    BY DEF CMA
  <2>2. CMA([a |-> 255 - a, f |-> f]) = [a |-> 255 - (255 - a), f |-> f]
    BY DEF CMA
  <2>3. 255 - (255 - a) = a
    BY DEF Byte
  <2> QED
    BY Zenon, <1>2, <2>1, <2>2, <2>3
<1>5. CMC(CMC(Now)) = Now
  <2> DEFINE on == ~has(f, F_C)
             n == put(f, F_C, on)
  <2>1. CMC(Now) = [a |-> a, f |-> n]
    BY Zenon, <1>1, <1>2, CmcIs
  <2>2. has(f, F_C) \in BOOLEAN /\ on \in BOOLEAN
    BY DEF has
  <2>3. n \in Byte /\ has(n, F_C) = on /\ put(n, F_C, has(f, F_C)) = f
    BY Zenon, <1>1, <2>2, CarryPut
  <2> HIDE DEF n
  <2>4. CMC([a |-> a, f |-> n]) = [a |-> a, f |-> put(n, F_C, ~has(n, F_C))]
    BY Zenon, <2>3, CmcIs
  <2>5. (~has(n, F_C)) = has(f, F_C)
    BY Zenon, <2>2, <2>3
  <2> QED
    BY Zenon, <1>2, <2>1, <2>3, <2>4, <2>5
<1> QED
  BY Zenon, <1>1, <1>3, <1>4, <1>5, RotatesUndone DEF UndoneExactly

-----------------------------------------------------------------------------
(* DAA. *)
Low(x, ac) == ac \/ x % 16 > 9
High(x, cy) == cy \/ x \div 16 > 9 \/ (x \div 16 >= 9 /\ x % 16 > 9)
Correction(low, high) == (IF low THEN 6 ELSE 0) + (IF high THEN 96 ELSE 0)

LEMMA DaaIs ==
  ASSUME NEW x \in Byte, NEW n \in Byte
  PROVE  LET high == High(x, has(n, F_C))
             k == Correction(Low(x, has(n, F_AC)), high)
             v == (x + k + 0) % 256
         IN  /\ k \in {0, 6, 96, 102}
             /\ alu_daa([a |-> x, f |-> n])
                  = [a |-> v, f |-> FlagsOf(v, high, (x % 16) + (k % 16) + 0 > 15)]
<1> DEFINE c == [a |-> x, f |-> n]
           low == Low(x, has(n, F_AC))
           high == High(x, has(n, F_C))
           k == Correction(low, high)
           v == (x + k + 0) % 256
           co == x + k + 0 >= 256
           ac == (x % 16) + (k % 16) + 0 > 15
<1>1. DecimalCorrection(c).low = low /\ DecimalCorrection(c).high = high
  BY DEF DecimalCorrection, get_flag, Low, High
<1>2. low \in BOOLEAN /\ high \in BOOLEAN
  BY DEF Low, High
<1>3. k = (IF low THEN 6 ELSE 0) + (IF high THEN \h60 ELSE 0)
  BY DEF Correction
<1>4. k \in {0, 6, 96, 102}
  BY DEF Correction
<1>5. alu_daa(c) = set_flag(alu_add(c, k, 0), F_C, high)
  <2> HIDE DEF c, low, high, k
  <2> QED
    BY Zenon, <1>1, <1>3 DEF alu_daa
<1> HIDE DEF low, high, k
<1>6. alu_add(c, k, 0) = Added(x, k, 0)
  <2>1. k \in Byte /\ 0 \in 0 .. 1
    BY <1>4 DEF Byte
  <2> QED
    BY <2>1, AddIs
<1>7. Added(x, k, 0) = [a |-> v, f |-> FlagsOf(v, co, ac)]
  BY Zenon DEF Added
<1>8. v \in Byte /\ co \in BOOLEAN /\ ac \in BOOLEAN
  <2>1. v \in Byte
    BY <1>4 DEF Byte
  <2> QED
    BY <2>1
<1> HIDE DEF v, co, ac
<1>9. set_flag([a |-> v, f |-> FlagsOf(v, co, ac)], F_C, high) = [a |-> v, f |-> put(FlagsOf(v, co, ac), F_C, high)]
  BY <1>2, SetFlagOn
<1>10. put(FlagsOf(v, co, ac), F_C, high) = FlagsOf(v, high, ac)
  BY <1>2, <1>8, PutCarryOf
<1>11. alu_daa(c) = [a |-> v, f |-> FlagsOf(v, high, ac)]
  BY Zenon, <1>5, <1>6, <1>7, <1>9, <1>10
<1> QED
  BY Zenon, <1>4, <1>11 DEF low, high, k, v, ac

(* The digits of a decimal sum: l and h are the sums of the low and of the   *)
(* high digits, with the carry from below.                                   *)
LEMMA DigitSum ==
  ASSUME NEW l \in 0 .. 19, NEW h \in 0 .. 18
  PROVE  LET x == (16 * h + l) % 256
             high == High(x, 16 * h + l >= 256)
             v == (x + Correction(Low(x, l > 15), high) + 0) % 256
         IN  /\ v % 16 <= 9 /\ v \div 16 <= 9
             /\ 10 * (v \div 16) + (v % 16) + 100 * One(high) = 10 * h + l
<1> DEFINE x == (16 * h + l) % 256
           high == High(x, 16 * h + l >= 256)
           low == Low(x, l > 15)
           d == IF l > 9 THEN l - 10 ELSE l
           e == IF l > 9 THEN h + 1 ELSE h
           v == (x + Correction(low, high) + 0) % 256
<1>1. low = (l > 9) /\ high = (e > 9)
  <2>1. CASE l <= 9
    <3>1. x % 16 = l /\ x \div 16 = h % 16
      BY <2>1
    <3>2. (16 * h + l >= 256) = (h >= 16)
      BY <2>1
    <3> QED
      BY <2>1, <3>1, <3>2 DEF Low, High
  <2>2. CASE l \in 10 .. 15
    <3>1. x % 16 = l /\ x \div 16 = h % 16
      BY <2>2
    <3>2. (16 * h + l >= 256) = (h >= 16)
      BY <2>2
    <3> QED
      BY <2>2, <3>1, <3>2 DEF Low, High
  <2>3. CASE l >= 16
    <3>1. x % 16 = l - 16 /\ x \div 16 = (h + 1) % 16
      BY <2>3
    <3>2. (16 * h + l >= 256) = (h >= 15)
      BY <2>3
    <3> QED
      BY <2>3, <3>1, <3>2 DEF Low, High
  <2> QED
    BY <2>1, <2>2, <2>3
<1>2. d \in 0 .. 9 /\ e \in 0 .. 19 /\ 10 * e + d = 10 * h + l
  OBVIOUS
<1>3. v = IF e > 9 THEN 16 * (e - 10) + d ELSE 16 * e + d
  <2> DEFINE k == (IF l > 9 THEN 6 ELSE 0) + (IF e > 9 THEN 96 ELSE 0)
  <2>1. Correction(low, high) = k
    <3> HIDE DEF low, high
    <3> QED
      BY <1>1 DEF Correction
  <2>2. (x + k + 0) % 256 = IF e > 9 THEN 16 * (e - 10) + d ELSE 16 * e + d
    OBVIOUS
  <2> HIDE DEF low, high, k, x, d, e
  <2> QED
    BY <2>1, <2>2
<1>4. One(high) = IF e > 9 THEN 1 ELSE 0
  BY ZenonT(60), <1>1 DEF One
<1> HIDE DEF v, d, e
<1>5. v % 16 = d /\ v \div 16 = IF e > 9 THEN e - 10 ELSE e
  BY <1>2, <1>3
<1>6. v % 16 <= 9 /\ v \div 16 <= 9 /\ 10 * (v \div 16) + (v % 16) + 100 * One(high) = 10 * h + l
  BY <1>2, <1>4, <1>5
<1> QED
  BY <1>6 DEF v

-----------------------------------------------------------------------------
(* The inductive invariant: A and the flags, while a decimal sum waits for   *)
(* DAA, are the result of adding two BCD numbers.                            *)
Bcd == {x \in Byte : IsBcd(x)}

SumOfDigits(total) ==
  \E x \in Bcd, y \in Bcd, cy \in 0 .. 1 :
     total = Decimal(x) + Decimal(y) + cy /\ [a |-> a, f |-> f] = Added(x, y, cy)

IInv ==
  /\ a \in Byte /\ f \in Legal
  /\ \A total \in decimal : SumOfDigits(total)

Shown(r) == r.a \in Byte /\ r.f \in Legal

LEMMA AdjustedSum ==
  ASSUME NEW total, SumOfDigits(total)
  PROVE  LET r == alu_daa(Now)
         IN  IsBcd(r.a) /\ Decimal(r.a) + 100 * Carry(r) = total
<1>1. PICK x \in Bcd, y \in Bcd, cy \in 0 .. 1 :
        total = Decimal(x) + Decimal(y) + cy /\ [a |-> a, f |-> f] = Added(x, y, cy)
  BY DEF SumOfDigits
<1> DEFINE l == (x % 16) + (y % 16) + cy
           h == (x \div 16) + (y \div 16)
           s == (16 * h + l) % 256
           co == 16 * h + l >= 256
           ac == l > 15
           high == High(s, co)
           k == Correction(Low(s, ac), high)
           v == (s + k + 0) % 256
           up == (s % 16) + (k % 16) + 0 > 15
<1>2. l \in 0 .. 19 /\ h \in 0 .. 18
  BY DEF Bcd, IsBcd, Byte
<1>3. x + y + cy = 16 * h + l
  BY DEF Bcd, Byte
<1>4. Decimal(x) + Decimal(y) + cy = 10 * h + l
  BY DEF Decimal, Bcd, Byte
<1>5. a = s /\ f = FlagsOf(s, co, ac)
  <2>1. Added(x, y, cy) = [a |-> s, f |-> FlagsOf(s, co, ac)]
    BY Zenon, <1>3 DEF Added
  <2> HIDE DEF s, co, ac
  <2> QED
    BY <1>1, <2>1
<1>6. s \in Byte
  BY <1>2 DEF Byte
<1>7. v % 16 <= 9 /\ v \div 16 <= 9 /\ 10 * (v \div 16) + (v % 16) + 100 * One(high) = 10 * h + l
  <2> HIDE DEF l, h
  <2> QED
    BY <1>2, DigitSum
<1>8. co \in BOOLEAN /\ ac \in BOOLEAN
  OBVIOUS
<1>9. k \in {0, 6, 96, 102} /\ high \in BOOLEAN
  BY DEF Correction, High
<1>10. up \in BOOLEAN
  OBVIOUS
<1> HIDE DEF l, h, s, co, ac
<1>11. has(f, F_C) = co /\ has(f, F_AC) = ac /\ f \in Byte
  BY <1>5, <1>6, <1>8, FlagsOfBits
<1>12. alu_daa(Now) = [a |-> v, f |-> FlagsOf(v, high, up)]
  <2>1. a \in Byte
    BY <1>5, <1>6
  <2>2. LET hi == High(a, has(f, F_C))
            kk == Correction(Low(a, has(f, F_AC)), hi)
            vv == (a + kk + 0) % 256
        IN  alu_daa([a |-> a, f |-> f]) = [a |-> vv, f |-> FlagsOf(vv, hi, (a % 16) + (kk % 16) + 0 > 15)]
    BY <1>11, <2>1, DaaIs
  <2>3. High(a, has(f, F_C)) = high /\ Low(a, has(f, F_AC)) = Low(s, ac)
    BY Zenon, <1>5, <1>11
  <2> QED
    BY ZenonT(60), <1>5, <2>2, <2>3 DEF Now
<1>13. v \in Byte
  BY <1>6, <1>9 DEF Byte
<1> HIDE DEF v, high, k, up
<1>14. Carry([a |-> v, f |-> FlagsOf(v, high, up)]) = One(high)
  BY <1>9, <1>10, <1>13, ShowsSignOf
<1>15. IsBcd(v) /\ Decimal(v) + 100 * One(high) = total
  BY <1>1, <1>4, <1>7 DEF IsBcd, Decimal
<1>16. [a |-> v, f |-> FlagsOf(v, high, up)].a = v
  OBVIOUS
<1> QED
  BY Zenon, <1>12, <1>14, <1>15, <1>16

LEMMA TotalsFit ==
  ASSUME NEW total, SumOfDigits(total)
  PROVE  total \in 0 .. 199
BY DEF SumOfDigits, Bcd, IsBcd, Decimal, Byte

-----------------------------------------------------------------------------
(* Every operation leaves a byte in A and a legal flags byte. *)
LEMMA ShownWith ==
  ASSUME NEW x \in Byte, NEW n \in Legal
  PROVE  Shown([a |-> x, f |-> n])
BY DEF Shown

LEMMA ShownResult ==
  ASSUME NEW x \in Byte, NEW v \in Byte, NEW cy \in BOOLEAN, NEW ac \in BOOLEAN
  PROVE  Shown([a |-> x, f |-> FlagsOf(v, cy, ac)])
BY FlagsOfLegal DEF Shown

LEMMA AddedShown ==
  ASSUME NEW x \in Byte, NEW y \in Byte, NEW cy \in 0 .. 1
  PROVE  Shown(Added(x, y, cy))
<1> DEFINE v == (x + y + cy) % 256
           co == x + y + cy >= 256
           ac == (x % 16) + (y % 16) + cy > 15
<1>1. v \in Byte
  BY DEF Byte
<1>2. co \in BOOLEAN /\ ac \in BOOLEAN
  OBVIOUS
<1>3. Added(x, y, cy) = [a |-> v, f |-> FlagsOf(v, co, ac)]
  BY Zenon DEF Added
<1> HIDE DEF v, co, ac
<1> QED
  BY <1>1, <1>2, <1>3, ShownResult

LEMMA SubtractedShown ==
  ASSUME NEW x \in Byte, NEW y \in Byte, NEW cy \in 0 .. 1, NEW z \in Byte
  PROVE  /\ Shown(Subtracted(x, y, cy))
         /\ Shown([Subtracted(x, y, cy) EXCEPT !.a = z])
<1> DEFINE v == (x - y - cy) % 256
           bo == x < y + cy
           ac == (x % 16) - (y % 16) - cy >= 0
<1>1. v \in Byte
  BY DEF Byte
<1>2. bo \in BOOLEAN /\ ac \in BOOLEAN
  OBVIOUS
<1>3. Subtracted(x, y, cy) = [a |-> v, f |-> FlagsOf(v, bo, ac)]
  BY Zenon DEF Subtracted
<1> HIDE DEF v, bo, ac
<1>4. Shown([a |-> v, f |-> FlagsOf(v, bo, ac)]) /\ Shown([a |-> z, f |-> FlagsOf(v, bo, ac)])
  BY <1>1, <1>2, ShownResult
<1>5. [[a |-> v, f |-> FlagsOf(v, bo, ac)] EXCEPT !.a = z] = [a |-> z, f |-> FlagsOf(v, bo, ac)]
  OBVIOUS
<1> QED
  BY Zenon, <1>3, <1>4, <1>5

LEMMA OperationShown ==
  ASSUME a \in Byte, f \in Byte, NEW op \in AluOps, NEW y \in Byte
  PROVE  Shown(alu_op(Now, op, y))
<1>1. Now = [a |-> a, f |-> f] /\ Carry(Now) \in 0 .. 1 /\ 0 \in 0 .. 1
  BY NowIs
<1>2. /\ Shown(alu_add(Now, y, 0)) /\ Shown(alu_add(Now, y, Carry(Now)))
      /\ Shown(alu_sub(Now, y, 0)) /\ Shown(alu_sub(Now, y, Carry(Now)))
  <2>1. ASSUME NEW cy \in 0 .. 1
        PROVE  Shown(alu_add(Now, y, cy)) /\ Shown(alu_sub(Now, y, cy))
    <3>1. alu_add(Now, y, cy) = Added(a, y, cy) /\ alu_sub(Now, y, cy) = Subtracted(a, y, cy)
      BY <1>1, AddIs, SubtractIs
    <3>2. Shown(Added(a, y, cy)) /\ Shown(Subtracted(a, y, cy))
      BY AddedShown, SubtractedShown
    <3> QED
      BY Zenon, <3>1, <3>2
  <2> QED
    BY Zenon, <1>1, <2>1
<1>3. Shown(alu_cmp(Now, y))
  <2>1. alu_sub(Now, y, 0) = Subtracted(a, y, 0)
    BY <1>1, SubtractIs
  <2>2. Shown([Subtracted(a, y, 0) EXCEPT !.a = a])
    BY <1>1, SubtractedShown
  <2> QED
    BY Zenon, <2>1, <2>2, NowIs DEF alu_cmp
<1>4. Shown(alu_ana(Now, y)) /\ Shown(alu_xra(Now, y)) /\ Shown(alu_ora(Now, y))
  <2>1. And(a, y) \in Byte /\ Or(a, y) \in Byte /\ Xor(a, y) \in Byte
    BY OfBitsInByte
  <2>2. FALSE \in BOOLEAN /\ has(Or(a, y), \h08) \in BOOLEAN
    BY DEF has
  <2>3. /\ alu_ana(Now, y) = [a |-> And(a, y), f |-> FlagsOf(And(a, y), FALSE, has(Or(a, y), \h08))]
        /\ alu_xra(Now, y) = [a |-> Xor(a, y), f |-> FlagsOf(Xor(a, y), FALSE, FALSE)]
        /\ alu_ora(Now, y) = [a |-> Or(a, y), f |-> FlagsOf(Or(a, y), FALSE, FALSE)]
    BY Zenon, <1>1, LogicIs
  <2> QED
    BY Zenon, <2>1, <2>2, <2>3, ShownResult
<1> QED
  BY <1>2, <1>3, <1>4 DEF alu_op, AluOps

LEMMA SingleShown ==
  ASSUME a \in Byte, f \in Legal
  PROVE  /\ Shown(alu_inr(Now)) /\ Shown(alu_dcr(Now)) /\ Shown(alu_daa(Now))
         /\ Shown(RLC(Now)) /\ Shown(RRC(Now)) /\ Shown(RAL(Now)) /\ Shown(RAR(Now))
         /\ Shown(CMA(Now)) /\ Shown(STC(Now)) /\ Shown(CMC(Now))
<1>1. f \in Byte
  BY LegalAreFlags
<1>2. Now = [a |-> a, f |-> f] /\ has(f, F_C) \in BOOLEAN /\ One(has(f, F_C)) \in 0 .. 1
  BY <1>1, NowIs DEF Carried
<1>3. Shown(alu_inr(Now))
  <2> DEFINE v == (a + 1) % 256
             ac == (a % 16) + 1 > 15
  <2>1. v \in Byte
    BY DEF Byte
  <2>2. ac \in BOOLEAN
    OBVIOUS
  <2>3. alu_inr([a |-> a, f |-> f]) = [a |-> v, f |-> FlagsOf(v, has(f, F_C), ac)]
    BY <1>1, IncrementIs
  <2> HIDE DEF v, ac
  <2> QED
    BY Zenon, <1>2, <2>1, <2>2, <2>3, ShownResult
<1>4. Shown(alu_dcr(Now))
  <2> DEFINE v == (a - 1) % 256
             ac == (a % 16) - 1 >= 0
  <2>1. v \in Byte
    BY DEF Byte
  <2>2. ac \in BOOLEAN
    OBVIOUS
  <2>3. alu_dcr([a |-> a, f |-> f]) = [a |-> v, f |-> FlagsOf(v, has(f, F_C), ac)]
    BY <1>1, DecrementIs
  <2> HIDE DEF v, ac
  <2> QED
    BY Zenon, <1>2, <2>1, <2>2, <2>3, ShownResult
<1>5. Shown(alu_daa(Now))
  <2> DEFINE high == High(a, has(f, F_C))
             k == Correction(Low(a, has(f, F_AC)), high)
             v == (a + k + 0) % 256
             ac == (a % 16) + (k % 16) + 0 > 15
  <2>1. k \in {0, 6, 96, 102}
    BY <1>1, DaaIs
  <2>5. alu_daa([a |-> a, f |-> f]) = [a |-> v, f |-> FlagsOf(v, high, ac)]
    BY <1>1, DaaIs
  <2>2. high \in BOOLEAN
    BY DEF High
  <2>3. ac \in BOOLEAN
    OBVIOUS
  <2> HIDE DEF k, high
  <2>4. v \in Byte
    BY <2>1 DEF Byte
  <2> HIDE DEF v, ac
  <2> QED
    BY Zenon, <1>2, <2>2, <2>3, <2>4, <2>5, ShownResult
<1>6. \A on \in BOOLEAN : put(f, F_C, on) \in Legal
  BY CarryPutLegal
<1>7. Shown(RLC(Now)) /\ Shown(RAL(Now))
  <2>1. ((2 * a) % 256) + (a \div 128) \in Byte /\ ((2 * a) % 256) + One(has(f, F_C)) \in Byte
    BY <1>2 DEF Byte
  <2>2. (a >= 128) \in BOOLEAN
    OBVIOUS
  <2>3. put(f, F_C, a >= 128) \in Legal
    BY Zenon, <1>6, <2>2
  <2>4. /\ RLC(Now) = [a |-> ((2 * a) % 256) + (a \div 128), f |-> put(f, F_C, a >= 128)]
        /\ RAL(Now) = [a |-> ((2 * a) % 256) + One(has(f, F_C)), f |-> put(f, F_C, a >= 128)]
    <3>1. RLC(Now) = [a |-> ((2 * a) % 256) + (a \div 128), f |-> put(f, F_C, a >= 128)]
      BY ZenonT(60), <1>1, <1>2, RlcIs
    <3>2. RAL(Now) = [a |-> ((2 * a) % 256) + One(has(f, F_C)), f |-> put(f, F_C, a >= 128)]
      BY ZenonT(60), <1>1, <1>2, RalIs
    <3> QED
      BY Zenon, <3>1, <3>2
  <2> QED
    BY <2>1, <2>3, <2>4 DEF Shown
<1>8. Shown(RRC(Now)) /\ Shown(RAR(Now))
  <2>1. (a \div 2) + 128 * (a % 2) \in Byte /\ (a \div 2) + 128 * One(has(f, F_C)) \in Byte
    BY <1>2 DEF Byte
  <2>2. (a % 2 = 1) \in BOOLEAN
    OBVIOUS
  <2>3. put(f, F_C, a % 2 = 1) \in Legal
    BY Zenon, <1>6, <2>2
  <2>4. /\ RRC(Now) = [a |-> (a \div 2) + 128 * (a % 2), f |-> put(f, F_C, a % 2 = 1)]
        /\ RAR(Now) = [a |-> (a \div 2) + 128 * One(has(f, F_C)), f |-> put(f, F_C, a % 2 = 1)]
    <3>1. RRC(Now) = [a |-> (a \div 2) + 128 * (a % 2), f |-> put(f, F_C, a % 2 = 1)]
      BY Zenon, <1>1, <1>2, RrcIs
    <3>2. RAR(Now) = [a |-> (a \div 2) + 128 * One(has(f, F_C)), f |-> put(f, F_C, a % 2 = 1)]
      BY Zenon, <1>1, <1>2, RarIs
    <3> QED
      BY Zenon, <3>1, <3>2
  <2> QED
    BY <2>1, <2>3, <2>4 DEF Shown
<1>9. Shown(CMA(Now))
  BY <1>2 DEF CMA, Shown, Byte
<1>10. Shown(STC(Now)) /\ Shown(CMC(Now))
  <2>1. TRUE \in BOOLEAN /\ (~has(f, F_C)) \in BOOLEAN
    OBVIOUS
  <2>2. put(f, F_C, TRUE) \in Legal /\ put(f, F_C, ~has(f, F_C)) \in Legal
    BY Zenon, <1>6, <2>1
  <2>3. STC(Now) = [a |-> a, f |-> put(f, F_C, TRUE)] /\ CMC(Now) = [a |-> a, f |-> put(f, F_C, ~has(f, F_C))]
    BY Zenon, <1>2, StcIs, CmcIs
  <2> QED
    BY Zenon, <2>2, <2>3, ShownWith
<1> QED
  BY <1>3, <1>4, <1>5, <1>7, <1>8, <1>9, <1>10

-----------------------------------------------------------------------------
LEMMA InitIInv == Init => IInv
<1> SUFFICES ASSUME Init PROVE IInv
  OBVIOUS
<1>1. f = Flags(0, 0, 0, 0, 0)
  BY DEF Init, Flags, F_ONE
<1>2. f \in Legal
  BY <1>1, FlagsAreLegal
<1> QED
  BY <1>2 DEF Init, IInv, Byte

LEMMA ImmediateIInv ==
  ASSUME IInv, NEW op \in AluOps, NEW val \in Operands, Immediate(op, val)
  PROVE  IInv'
<1>1. a \in Byte /\ f \in Legal /\ val \in Byte
  BY OperandsAreBytes DEF IInv
<1>2. f \in Byte
  BY <1>1, LegalAreFlags
<1>3. Now = [a |-> a, f |-> f] /\ Carry(Now) \in 0 .. 1 /\ 0 \in 0 .. 1
  BY <1>1, <1>2, NowIs
<1> DEFINE r == alu_op(Now, op, val)
<1>4. a' = r.a /\ f' = r.f /\ Shown(r)
  BY <1>1, <1>2, OperationShown DEF Immediate, Becomes
<1>5. ASSUME NEW total \in decimal'
      PROVE  SumOfDigits(total)'
  <2> DEFINE cy == IF op = "ADC" THEN Carry(Now) ELSE 0
  <2>1. /\ op \in {"ADD", "ADC"} /\ IsBcd(a) /\ IsBcd(val)
        /\ total = Decimal(a) + Decimal(val) + cy
    BY <1>5 DEF Immediate
  <2>2. cy \in 0 .. 1
    BY <1>3
  <2>3. r = alu_add(Now, val, cy)
    BY <2>1 DEF alu_op
  <2>4. alu_add(Now, val, cy) = Added(a, val, cy)
    <3> HIDE DEF cy
    <3> QED
      BY <1>1, <1>2, <1>3, <2>2, AddIs
  <2>5. [a |-> a', f |-> f'] = Added(a, val, cy)
    <3>1. \A q : q = Added(a, val, cy) => [a |-> q.a, f |-> q.f] = q
      BY DEF Added
    <3> HIDE DEF r, cy
    <3> QED
      BY Zenon, <1>4, <2>3, <2>4, <3>1
  <2> HIDE DEF cy
  <2> QED
    BY <1>1, <2>1, <2>2, <2>5 DEF SumOfDigits, Bcd
<1> QED
  BY <1>4, <1>5 DEF IInv, Shown

LEMMA PopIInv ==
  ASSUME PopPsw
  PROVE  IInv'
<1>1. PICK w \in Words : Becomes(POP_PSW(w)) /\ decimal' = {}
  BY DEF PopPsw
<1>2. w \div 256 \in Byte /\ w % 256 \in Byte
  <2>1. w \in Nat /\ w < 65536
    BY StackAssumption
  <2> QED
    BY <2>1 DEF Byte
<1>3. Masked(w % 256) \in Legal
  BY <1>2, MaskedIsLegal
<1>4. a' = w \div 256 /\ f' = Masked(w % 256)
  BY <1>1 DEF Becomes, POP_PSW
<1> QED
  BY <1>1, <1>2, <1>3, <1>4 DEF IInv

LEMMA NextIInv == IInv /\ [Next]_vars => IInv'
<1> SUFFICES ASSUME IInv, [Next]_vars PROVE IInv'
  OBVIOUS
<1>1. ASSUME NEW op \in AluOps, NEW val \in Operands, Immediate(op, val)
      PROVE  IInv'
  BY <1>1, ImmediateIInv
<1>2. CASE Single
  <2>1. PICK r : Becomes(r) /\ Shown(r)
    <3>1. a \in Byte /\ f \in Legal
      BY DEF IInv
    <3> QED
      BY <1>2, <3>1, SingleShown DEF Single
  <2>2. decimal' = {}
    BY <1>2 DEF Single
  <2> QED
    BY <2>1, <2>2 DEF Becomes, Shown, IInv
<1>3. CASE MoveImmediate
  BY <1>3, OperandsAreBytes DEF MoveImmediate, IInv
<1>4. CASE PopPsw
  BY <1>4, PopIInv
<1>5. CASE UNCHANGED vars
  BY <1>5 DEF vars, IInv, SumOfDigits
<1> QED
  BY <1>1, <1>2, <1>3, <1>4, <1>5 DEF Next

(* Whatever the operands, and whatever word POP PSW finds on the stack: A is *)
(* a byte, and bits 1, 3 and 5 of the flags byte never change (set_szp and   *)
(* POP PSW restore them after set_flag, which writes any bit).               *)
THEOREM FlagsStayLegal == Spec => []TypeOK
<1>1. IInv => TypeOK
  BY TotalsFit DEF IInv, TypeOK, Legal
<1> QED
  BY InitIInv, NextIInv, <1>1, PTL DEF Spec

(* In every state and for every operand, sums, differences and comparisons   *)
(* are those of the integers in A and in all the flags; the separate formulas *)
(* of INR and DCR for AC agree with adding and subtracting 1.                *)
THEOREM ArithmeticIsExact == Spec => []SumsExact
<1>1. IInv => SumsExact
  BY LegalAreFlags, SumsAreExact DEF IInv
<1> QED
  BY InitIInv, NextIInv, <1>1, PTL DEF Spec

(* In every state, RAL and RAR, PUSH PSW and POP PSW, CMA twice and CMC twice *)
(* give back A and every flag, RLC and RRC give back A.                      *)
THEOREM OppositesUndo == Spec => []UndoneExactly
<1>1. IInv => UndoneExactly
  BY AllUndone DEF IInv
<1> QED
  BY InitIInv, NextIInv, <1>1, PTL DEF Spec

(* DAA right after ADD or ADC of any two BCD numbers, with a carry or        *)
(* without, gives the digits and the carry of their decimal sum.             *)
THEOREM DaaGivesDecimals == Spec => []DecimalSum
<1>1. IInv => DecimalSum
  <2> SUFFICES ASSUME IInv, NEW total \in decimal
      PROVE  LET r == alu_daa(Now)
             IN  IsBcd(r.a) /\ Decimal(r.a) + 100 * Carry(r) = total
    BY Zenon DEF DecimalSum
  <2> QED
    BY AdjustedSum DEF IInv
<1> QED
  BY InitIInv, NextIInv, <1>1, PTL DEF Spec
=============================================================================
