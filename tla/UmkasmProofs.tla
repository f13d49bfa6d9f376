----------------------------- MODULE UmkasmProofs -----------------------------
(***************************************************************************)
(* Proofs about the assembler, for every source, every limit and every     *)
(* reference: the emission repeats the last symbol pass, an image that is  *)
(* written is the one the final symbols stand for, and symbols that depend *)
(* on no circle settle.                                                    *)
(***************************************************************************)
EXTENDS Umkasm, FiniteSetTheorems, WellFoundedInduction, NaturalsInduction, SequenceTheorems, TLAPS

(* Line i, placed where `at` says, defines nothing but what syms holds. *)
Quiet(i) ==
  /\ Labelled(source[i], syms, at[i]) = syms
  /\ Equated(source[i], syms, at[i]) = syms

(* Where line n goes if the lines before it are placed. *)
Start(n) == IF n = 1 THEN 0 ELSE Advance(source[n - 1], syms, at[n - 1])

Settled(n) == \A i \in 1 .. n - 1 : Quiet(i) /\ Placed(i)

Clean(n) ==
  \A i \in 1 .. n - 1 : /\ ~Overflows(source[i], syms, at[i])
                        /\ ~Faulty(source[i], syms, at[i])

Holds(img, n) == \A a \in Addresses : HoldsLastByte(img, a, n)

End == Len(source) + 1

Shape ==
  /\ source \in Seq(SourceLine)
  /\ phase \in {"PASS", "EMIT", "VERIFY", "DONE"}
  /\ line \in 1 .. End
  /\ changed \in BOOLEAN /\ errors \in BOOLEAN
  /\ at = [i \in 1 .. Len(source) |-> at[i]]

(* A symbol pass in which nothing has changed so far agrees with itself. *)
PassInv == phase = "PASS" /\ ~changed => Settled(line) /\ pc = Start(line)

(* The emission walks over the lines of a pass that changed nothing. *)
EmitInv ==
  phase = "EMIT" => /\ Settled(End) /\ pc = Start(line)
                    /\ ~errors => Clean(line)
                    /\ Holds(image, line)

FileInv ==
  /\ phase = "PASS" => \A a \in Addresses : image[a] = 255
  /\ phase \in {"PASS", "EMIT"} => file = {}
  /\ \A img \in file : Settled(End) /\ Clean(End) /\ Holds(img, End)

IInv == Shape /\ PassInv /\ EmitInv /\ FileInv

-----------------------------------------------------------------------------
LEMMA InitInv == Init => IInv
<1> SUFFICES ASSUME Init PROVE IInv
  OBVIOUS
<1>1. source \in Seq(SourceLine) /\ Len(source) \in Nat
  <2>1. source \in Seq(SourceLine)
    BY SourceAssumption, Zenon DEF Init
  <2> QED
    BY <2>1
<1>2. Shape
  <2>1. line \in 1 .. End /\ at = [i \in 1 .. Len(source) |-> at[i]]
    BY <1>1 DEF Init, End
  <2>2. changed \in BOOLEAN /\ errors \in BOOLEAN
    BY Zenon DEF Init
  <2>3. phase \in {"PASS", "EMIT", "VERIFY", "DONE"}
    BY DEF Init
  <2> QED
    BY <1>1, <2>1, <2>2, <2>3 DEF Shape
<1>3. PassInv
  BY <1>1 DEF Init, PassInv, Settled, Start
<1>4. EmitInv /\ FileInv
  BY DEF Init, EmitInv, FileInv
<1> QED
  BY <1>2, <1>3, <1>4 DEF IInv

(* A line of a symbol pass: if it changes nothing, it is quiet and placed    *)
(* where the line before it ends.                                           *)
LEMMA AssembleLineInv == IInv /\ AssembleLine => IInv'
<1> SUFFICES ASSUME IInv, AssembleLine PROVE IInv'
  OBVIOUS
<1> DEFINE l == source[line]
<1> DEFINE labelled == Labelled(l, syms, pc)
<1> DEFINE done == Equated(l, labelled, pc)
<1>1. /\ phase = "PASS" /\ phase' = phase /\ line <= Len(source)
      /\ source' = source /\ file' = file /\ line' = line + 1 /\ image' = image
      /\ syms' = done /\ pc' = Advance(l, labelled, pc)
      /\ at' = [at EXCEPT ![line] = pc]
  BY DEF AssembleLine, Scan
<1>2. /\ changed' = (changed \/ labelled # syms \/ done # labelled)
      /\ errors' = (errors \/ Overflows(l, syms, pc))
  BY DEF AssembleLine, Scan
<1>3. /\ source \in Seq(SourceLine) /\ Len(source) \in Nat
      /\ line \in 1 .. Len(source) /\ at = [i \in 1 .. Len(source) |-> at[i]]
      /\ changed \in BOOLEAN /\ errors \in BOOLEAN
  BY <1>1 DEF IInv, Shape, End
<1>4. /\ \A i \in 1 .. Len(source) : i # line => at'[i] = at[i]
      /\ at'[line] = pc
      /\ at' = [i \in 1 .. Len(source) |-> at'[i]]
  BY <1>1, <1>3
<1>5. Shape'
  <2>1. changed' \in BOOLEAN /\ errors' \in BOOLEAN
    BY <1>2, <1>3, Zenon
  <2> QED
    BY <1>1, <1>3, <1>4, <2>1 DEF Shape, End
<1>6. PassInv'
  <2> SUFFICES ASSUME ~changed' PROVE Settled(line)' /\ pc' = Start(line)'
    BY DEF PassInv
  <2>1. ~changed /\ labelled = syms /\ done = syms
    BY <1>2, Zenon
  <2>2. /\ Settled(line) /\ pc = Start(line)
        /\ syms' = syms /\ pc' = Advance(l, syms, pc)
    BY <1>1, <2>1 DEF IInv, PassInv
  <2>3. ASSUME NEW i \in 1 .. line - 1
        PROVE  Quiet(i)' /\ Placed(i)'
    <3>1. Quiet(i) /\ Placed(i) /\ i \in 1 .. Len(source) /\ i # line
      BY <1>3, <2>2 DEF Settled
    <3>2. at'[i] = at[i] /\ (i # 1 => at'[i - 1] = at[i - 1])
      BY <1>3, <1>4, <3>1
    <3> QED
      BY <1>1, <2>2, <3>1, <3>2 DEF Quiet, Placed
  <2>4. ASSUME NEW i, i = line
        PROVE  Quiet(i)' /\ Placed(i)'
    <3>1. line # 1 => at'[line - 1] = at[line - 1]
      BY <1>3, <1>4
    <3> QED
      BY <1>1, <1>4, <2>1, <2>2, <2>4, <3>1 DEF Quiet, Placed, Start
  <2>5. Settled(line)'
    <3>1. ASSUME NEW i \in 1 .. line' - 1 PROVE Quiet(i)' /\ Placed(i)'
      <4>1. i \in 1 .. line - 1 \/ i = line
        BY <1>1, <1>3
      <4> QED
        BY <2>3, <2>4, <4>1
    <3> QED
      BY <3>1 DEF Settled
  <2>6. pc' = Start(line)'
    BY <1>1, <1>3, <1>4, <2>2 DEF Start
  <2> QED
    BY <2>5, <2>6
<1>7. EmitInv'
  BY <1>1 DEF EmitInv
<1>8. FileInv'
  BY <1>1 DEF IInv, FileInv
<1> QED
  BY <1>5, <1>6, <1>7, <1>8 DEF IInv

(* Lemma: stamping line n's bytes makes the image that of the lines up to n. *)
LEMMA StampHolds ==
  ASSUME NEW img, NEW n \in Nat \ {0}, Holds(img, n)
  PROVE  Holds(Stamped(img, BytesOf(n), at[n]), n + 1)
<1> DEFINE new == Stamped(img, BytesOf(n), at[n])
<1> SUFFICES ASSUME NEW a \in Addresses PROVE HoldsLastByte(new, a, n + 1)
  BY DEF Holds
<1>1. new[a] = IF Covers(n, a) THEN BytesOf(n)[a - at[n] + 1] ELSE img[a]
  BY DEF Stamped, Covers
<1>2. 1 .. (n + 1) - 1 = (1 .. n - 1) \cup {n}
  OBVIOUS
<1>3. CASE Covers(n, a)
  <2>1. n \in 1 .. (n + 1) - 1 /\ n + 1 .. (n + 1) - 1 = {}
    OBVIOUS
  <2> HIDE DEF new
  <2> QED
    BY <1>1, <1>3, <2>1, Zenon DEF HoldsLastByte
<1>4. CASE ~Covers(n, a)
  <2>1. new[a] = img[a] /\ HoldsLastByte(img, a, n)
    BY <1>1, <1>4 DEF Holds
  <2> HIDE DEF new
  <2>2. CASE img[a] = 255 /\ \A i \in 1 .. n - 1 : ~Covers(i, a)
    BY <1>2, <1>4, <2>1, <2>2, Zenon DEF HoldsLastByte
  <2>3. ASSUME NEW i \in 1 .. n - 1, Covers(i, a),
               img[a] = BytesOf(i)[a - at[i] + 1],
               \A j \in i + 1 .. n - 1 : ~Covers(j, a)
        PROVE  HoldsLastByte(new, a, n + 1)
    <3>1. i + 1 .. (n + 1) - 1 = (i + 1 .. n - 1) \cup {n}
      OBVIOUS
    <3>2. i \in 1 .. (n + 1) - 1
      OBVIOUS
    <3> QED
      BY <1>4, <2>1, <2>3, <3>1, <3>2, Zenon DEF HoldsLastByte
  <2> QED
    BY <2>1, <2>2, <2>3 DEF HoldsLastByte
<1> QED
  BY <1>3, <1>4

(* A line of the emission is quiet, so it moves no symbol and starts where   *)
(* the last symbol pass put it.                                              *)
LEMMA EmitLineQuiet ==
  ASSUME IInv, EmitLine
  PROVE  /\ line \in 1 .. Len(source) /\ Len(source) \in Nat
         /\ pc = at[line] /\ Labelled(source[line], syms, pc) = syms
         /\ syms' = syms /\ at' = at /\ source' = source
         /\ pc' = Advance(source[line], syms, at[line])
<1>1. /\ phase = "EMIT" /\ line <= Len(source) /\ at' = at /\ source' = source
      /\ syms' = Equated(source[line], Labelled(source[line], syms, pc), pc)
      /\ pc' = Advance(source[line], Labelled(source[line], syms, pc), pc)
  BY DEF EmitLine, Scan
<1>2. line \in 1 .. Len(source) /\ Len(source) \in Nat
  BY <1>1 DEF IInv, Shape, End
<1>3. Settled(End) /\ pc = Start(line)
  BY <1>1 DEF IInv, EmitInv
<1>4. Quiet(line) /\ Placed(line)
  BY <1>2, <1>3 DEF Settled, End
<1>5. pc = at[line]
  BY <1>3, <1>4 DEF Start, Placed
<1> QED
  BY <1>1, <1>2, <1>4, <1>5 DEF Quiet

LEMMA EmitLineInv == IInv /\ EmitLine => IInv'
<1> SUFFICES ASSUME IInv, EmitLine PROVE IInv'
  OBVIOUS
<1> DEFINE l == source[line]
<1>1. /\ line \in 1 .. Len(source) /\ Len(source) \in Nat
      /\ pc = at[line] /\ Labelled(l, syms, pc) = syms
      /\ syms' = syms /\ at' = at /\ source' = source
      /\ pc' = Advance(l, syms, at[line])
  BY EmitLineQuiet
<1>2. /\ phase = "EMIT" /\ phase' = phase /\ line' = line + 1 /\ file' = file
      /\ image' = Stamped(image, BytesOf(line), at[line])
  BY <1>1 DEF EmitLine, Scan, BytesOf
<1>3. errors' = (errors \/ Overflows(l, syms, at[line]) \/ Faulty(l, syms, at[line]))
  BY <1>1 DEF EmitLine
<1>4. Shape'
  <2>1. errors' \in BOOLEAN
    BY <1>3, Zenon DEF IInv, Shape
  <2>2. changed' \in BOOLEAN
    BY Zenon DEF EmitLine, Scan, IInv, Shape
  <2> QED
    BY <1>1, <1>2, <2>1, <2>2 DEF IInv, Shape, End
<1>5. Settled(End) /\ Settled(End)' /\ (~errors => Clean(line)) /\ Holds(image, line)
  <2>1. Settled(End) /\ (~errors => Clean(line)) /\ Holds(image, line)
    BY <1>2 DEF IInv, EmitInv
  <2> QED
    BY <1>1, <2>1 DEF Settled, Quiet, Placed, End
<1>6. EmitInv'
  <2>1. pc' = Start(line)'
    BY <1>1, <1>2 DEF Start
  <2>2. ASSUME ~errors' PROVE Clean(line)'
    <3>1. ~errors /\ ~Overflows(l, syms, at[line]) /\ ~Faulty(l, syms, at[line])
      BY <1>3, <2>2, Zenon
    <3>2. 1 .. line' - 1 = (1 .. line - 1) \cup {line}
      BY <1>1, <1>2
    <3> QED
      BY <1>1, <1>5, <3>1, <3>2 DEF Clean
  <2>3. Holds(image, line)'
    <3>1. Holds(image', line')
      BY <1>1, <1>2, <1>5, StampHolds
    <3> QED
      BY <1>1, <3>1 DEF Holds, HoldsLastByte, Covers, BytesOf
  <2> QED
    BY <1>5, <2>1, <2>2, <2>3 DEF EmitInv
<1>7. PassInv' /\ FileInv'
  BY <1>2 DEF IInv, PassInv, FileInv
<1> QED
  BY <1>4, <1>6, <1>7 DEF IInv

(* The end of a pass that changed nothing hands its placement to the          *)
(* emission; after any other there is nothing to show.                        *)
LEMMA EndPassInv == IInv /\ EndPass => IInv'
<1> SUFFICES ASSUME IInv, EndPass PROVE IInv'
  OBVIOUS
<1>1. /\ phase = "PASS" /\ line = End /\ Len(source) \in Nat
      /\ UNCHANGED <<source, syms, image, file, at>> /\ file = {}
      /\ \A a \in Addresses : image[a] = 255
  BY DEF EndPass, IInv, Shape, End, FileInv
<1>2. Shape'
  <2>1. changed' \in BOOLEAN /\ errors' \in BOOLEAN
    BY Zenon DEF EndPass, IInv, Shape
  <2>2. phase' \in {"PASS", "EMIT", "DONE"} /\ line' \in 1 .. End
    BY <1>1 DEF EndPass, Rewind, End
  <2> QED
    BY <1>1, <2>1, <2>2 DEF IInv, Shape, End
<1>3. PassInv'
  <2>1. phase' = "PASS" => line' = 1 /\ pc' = 0
    BY <1>1 DEF EndPass, Rewind
  <2> QED
    BY <2>1 DEF PassInv, Settled, Start
<1>4. EmitInv'
  <2> SUFFICES ASSUME phase' = "EMIT"
               PROVE  /\ Settled(End)' /\ pc' = Start(line)'
                      /\ ~errors' => Clean(line)'
                      /\ Holds(image, line)'
    BY DEF EmitInv
  <2>1. ~changed /\ line' = 1 /\ pc' = 0
    BY <1>1 DEF EndPass, Rewind
  <2>2. Settled(End)
    BY <1>1, <2>1 DEF IInv, PassInv
  <2>3. Settled(End)'
    BY <1>1, <2>2 DEF Settled, Quiet, Placed, End
  <2>4. pc' = Start(line)' /\ Clean(line)'
    BY <2>1 DEF Start, Clean
  <2>5. Holds(image, line)'
    BY <1>1, <2>1 DEF Holds, HoldsLastByte
  <2> QED
    BY <2>3, <2>4, <2>5
<1>5. FileInv'
  BY <1>1 DEF FileInv
<1> QED
  BY <1>2, <1>3, <1>4, <1>5 DEF IInv

(* After the emission only the phase and the status change. *)
LEMMA WriteVerifyInv == IInv /\ (Write \/ Verify) => IInv'
<1> SUFFICES ASSUME IInv, Write \/ Verify PROVE IInv'
  OBVIOUS
<1>1. /\ phase' \in {"VERIFY", "DONE"}
      /\ UNCHANGED <<source, line, pc, syms, changed, errors, image, at>>
  BY DEF Write, Verify, Finish
<1>2. Shape'
  BY <1>1 DEF IInv, Shape, End
<1>3. PassInv' /\ EmitInv'
  BY <1>1 DEF PassInv, EmitInv
<1>4. file' = file \/ /\ file' = {image} /\ ~errors
                      /\ phase = "EMIT" /\ line = End
  BY DEF Write, Verify, IInv, Shape, End
<1>5. \A img \in file' : Settled(End) /\ Clean(End) /\ Holds(img, End)
  BY <1>4 DEF IInv, FileInv, EmitInv
<1>6. FileInv'
  <2> SUFFICES ASSUME NEW img \in file'
               PROVE  Settled(End)' /\ Clean(End)' /\ (\A a \in Addresses : HoldsLastByte(img, a, End)')
    BY <1>1 DEF FileInv, Holds
  <2>1. Settled(End)' /\ Clean(End)'
    BY <1>1, <1>5 DEF Settled, Quiet, Placed, Clean, End
  <2>2. \A a \in Addresses : HoldsLastByte(img, a, End)'
    BY <1>1, <1>5 DEF Holds, HoldsLastByte, Covers, BytesOf, End
  <2> QED
    BY <2>1, <2>2
<1> QED
  BY <1>2, <1>3, <1>6 DEF IInv

LEMMA StepInv == IInv /\ [Next]_vars => IInv'
<1> SUFFICES ASSUME IInv, [Next]_vars PROVE IInv'
  OBVIOUS
<1>1. CASE UNCHANGED vars
  <2>1. Shape' /\ PassInv' /\ EmitInv'
    BY <1>1 DEF vars, IInv, Shape, PassInv, EmitInv, Settled, Quiet, Placed, Start,
                Clean, Holds, HoldsLastByte, Covers, BytesOf, End
  <2>2. FileInv'
    BY <1>1 DEF vars, IInv, FileInv, Settled, Quiet, Placed,
                Clean, Holds, HoldsLastByte, Covers, BytesOf, End
  <2> QED
    BY <2>1, <2>2 DEF IInv
<1> QED
  BY <1>1, AssembleLineInv, EmitLineInv, EndPassInv, WriteVerifyInv DEF Next

-----------------------------------------------------------------------------
(* A symbol that a line does not change, with room in the table, is defined   *)
(* as the line says.                                                          *)
LEMMA Unmoved ==
  ASSUME NEW s, NEW n, NEW v, ~Full(s, n), sym_set(s, n, v) = s
  PROVE  n \in DOMAIN s /\ s[n] = v
BY DEF sym_set

LEMMA QuietIsDefined ==
  ASSUME IInv, NEW i \in 1 .. Len(source), Quiet(i),
         ~Overflows(source[i], syms, at[i]), ~Faulty(source[i], syms, at[i])
  PROVE  Defined(source[i], at[i]) /\ Correct(source[i])
<1> DEFINE l == source[i]
<1>1. l \in SourceLine
  <2>1. source \in Seq(SourceLine)
    BY Zenon DEF IInv, Shape
  <2> QED
    BY <2>1
<1>2. l.op \in {"NONE", "EQU", "ORG", "DS", "RST", "DATA", "CODE", "UNKNOWN"}
  BY <1>1 DEF SourceLine
<1>3. Correct(l)
  BY <1>2 DEF Correct, Faulty
<1>4. l.label # "" => l.label \in DOMAIN syms /\ syms[l.label] = at[i]
  BY Unmoved DEF Quiet, Labelled, Overflows
<1>5. l.op = "EQU" => l.name \in DOMAIN syms /\ syms[l.name] = Operand(l, syms, at[i])
  <2> SUFFICES ASSUME l.op = "EQU"
               PROVE  l.name \in DOMAIN syms /\ syms[l.name] = Operand(l, syms, at[i])
    OBVIOUS
  <2>1. Resolved(l, syms)
    BY DEF Faulty
  <2>2. ~Full(syms, l.name)
    BY <2>1 DEF Quiet, Overflows
  <2> QED
    BY <2>1, <2>2, Unmoved DEF Quiet, Equated
<1> QED
  BY <1>3, <1>4, <1>5 DEF Defined

(* Once written, an image is the one that the final symbols stand for. *)
THEOREM WrittenAlwaysConsistent == Spec => []WrittenIsConsistent
<1>1. IInv => WrittenIsConsistent
  <2> SUFFICES ASSUME IInv, NEW img \in file
               PROVE  /\ \A i \in Lines : Placed(i) /\ Defined(source[i], at[i]) /\ Correct(source[i])
                      /\ \A a \in Addresses : HoldsLastByte(img, a, Len(source) + 1)
    BY DEF WrittenIsConsistent
  <2>1. Settled(End) /\ Clean(End) /\ Holds(img, End)
    BY DEF IInv, FileInv
  <2>2. Lines = 1 .. End - 1 /\ Lines = 1 .. Len(source)
    BY DEF IInv, Shape, Lines, End
  <2>3. \A i \in Lines : Placed(i) /\ Defined(source[i], at[i]) /\ Correct(source[i])
    BY <2>1, <2>2, QuietIsDefined DEF Settled, Clean
  <2> QED
    BY <2>1, <2>3 DEF Holds, End
<1> QED
  BY <1>1, InitInv, StepInv, PTL DEF Spec

(* No symbol changes while the image is emitted, and every line goes where    *)
(* the last symbol pass put it.                                               *)
THEOREM EmissionNeverMoves == Spec => EmissionMovesNothing
<1>1. IInv /\ [Next]_vars => [EmitLine => pc = at[line] /\ syms' = syms]_vars
  BY EmitLineQuiet
<1> QED
  BY <1>1, InitInv, StepInv, PTL DEF Spec, EmissionMovesNothing
-----------------------------------------------------------------------------
(* Induction, and the sum of an expression's terms by its recursion. *)
LEMMA Least ==
  ASSUME NEW W, W \subseteq Nat, W # {}
  PROVE  \E k \in W : \A j \in W : k <= j
<1>1. IsWellFoundedOn(OpToRel(<, Nat), Nat)
  BY NatLessThanWellFounded
<1>2. PICK k \in W : \A j \in W : ~ (<<j, k>> \in OpToRel(<, Nat))
  BY <1>1, WFMin
<1>3. \A j \in W : ~(j < k)
  BY <1>2 DEF OpToRel
<1> QED BY <1>3

LEMMA Upwards ==
  ASSUME NEW c \in Nat, NEW W, 0 \in W, \A n \in 1 .. c : n - 1 \in W => n \in W
  PROVE  \A n \in 0 .. c : n \in W
<1> DEFINE Bad == {n \in 0 .. c : n \notin W}
<1>1. SUFFICES ASSUME Bad # {} PROVE FALSE
  OBVIOUS
<1>2. PICK k \in Bad : \A j \in Bad : k <= j
  <2>1. Bad \subseteq Nat
    OBVIOUS
  <2> QED BY <1>1, <2>1, Least
<1>3. k \in 1 .. c /\ k - 1 \in 0 .. c /\ ~(k <= k - 1)
  BY <1>2
<1>4. k - 1 \in W
  BY <1>2, <1>3
<1> QED BY <1>2, <1>3, <1>4

IsSum(sum, v) == sum = [n \in 0 .. Len(v) |-> IF n = 0 THEN 0 ELSE sum[n - 1] + v[n]]

LEMMA TotalInt ==
  ASSUME NEW v \in Seq(Int)
  PROVE  Total(v) \in Int
<1> DEFINE c == Len(v)
           Sums(r, k) == /\ r \in [0 .. k -> Int]
                         /\ r = [n \in 0 .. k |-> IF n = 0 THEN 0 ELSE r[n - 1] + v[n]]
           W == {k \in 0 .. c : \E r : Sums(r, k)}
<1>1. c \in Nat /\ \A i \in 1 .. c : v[i] \in Int
  BY LenProperties, ElementOfSeq
<1> HIDE DEF c
<1>2. 0 \in W
  <2> DEFINE r == [n \in 0 .. 0 |-> 0]
  <2>1. /\ r \in [0 .. 0 -> Int]
        /\ r = [n \in 0 .. 0 |-> IF n = 0 THEN 0 ELSE r[n - 1] + v[n]]
    OBVIOUS
  <2>2. Sums(r, 0) /\ 0 \in 0 .. c
    BY <1>1, <2>1
  <2> QED BY <2>2
<1>3. ASSUME NEW k \in 1 .. c, k - 1 \in W
      PROVE  k \in W
  <2>1. PICK r : Sums(r, k - 1)
    BY <1>3
  <2> DEFINE g == [n \in 0 .. k |-> IF n = 0 THEN 0 ELSE r[n - 1] + v[n]]
  <2>2. \A n \in 0 .. k : n # 0 => n - 1 \in 0 .. k - 1 /\ n \in 1 .. c
    BY <1>1
  <2>3. \A n \in 0 .. k - 1 : g[n] = r[n]
    BY <1>1, <2>1
  <2>4. \A n \in 1 .. k : r[n - 1] + v[n] \in Int
    BY <1>1, <2>1, <2>2
  <2>5. g \in [0 .. k -> Int]
    BY <2>2, <2>4
  <2>6. g = [n \in 0 .. k |-> IF n = 0 THEN 0 ELSE g[n - 1] + v[n]]
    BY <2>2, <2>3
  <2> HIDE DEF g
  <2>7. Sums(g, k) /\ k \in 0 .. c
    BY <1>1, <2>5, <2>6
  <2> QED BY <2>7
<1> HIDE DEF W
<1>4. \A n \in 1 .. c : n - 1 \in W => n \in W
  BY <1>3
<1>5. c \in W
  <2>1. \A n \in 0 .. c : n \in W
    BY <1>1, <1>2, <1>4, Upwards
  <2> QED BY <1>1, <2>1
<1>6. \E r : IsSum(r, v)
  BY <1>5 DEF W, IsSum, c
<1> DEFINE sum == CHOOSE r : IsSum(r, v)
<1>7. Total(v) = sum[c]
  BY DEF Total, IsSum, c
<1>8. IsSum(sum, v)
  BY <1>6
<1> HIDE DEF sum
<1> DEFINE V == {n \in 0 .. c : sum[n] \in Int}
<1>9. 0 \in V
  BY <1>1, <1>8 DEF IsSum, c
<1>10. ASSUME NEW n \in 1 .. c, n - 1 \in V
       PROVE  n \in V
  <2>1. sum[n] = sum[n - 1] + v[n] /\ sum[n - 1] \in Int
    BY <1>1, <1>8, <1>10 DEF IsSum, c
  <2> QED BY <1>1, <2>1
<1> HIDE DEF V
<1>11. \A n \in 1 .. c : n - 1 \in V => n \in V
  BY <1>10
<1>12. c \in V
  <2>1. \A n \in 0 .. c : n \in V
    BY <1>1, <1>9, <1>11, Upwards
  <2> QED BY <1>1, <2>1
<1> QED BY <1>7, <1>12 DEF V

-----------------------------------------------------------------------------
(* Types: values are integers, whatever symbols are undefined, and what is   *)
(* emitted are bytes.                                                        *)
Table(s) == \A n \in DOMAIN s : s[n] \in Int

LEMMA ExprInt ==
  ASSUME NEW e \in Seq(Term), NEW s, Table(s), NEW here \in Int
  PROVE  eval_expr(e, s, here) \in Int
<1> DEFINE v == [i \in DOMAIN e |-> eval_term(e[i], s, here)]
<1>1. ASSUME NEW i \in DOMAIN e PROVE eval_term(e[i], s, here) \in Int
  <2>1. e[i] \in Term
    BY ElementOfSeq, LenProperties
  <2>2. eval_factor(e[i], s, here) \in Int
    BY <2>1 DEF eval_factor, Table, Term
  <2> QED BY <2>2 DEF eval_term
<1>2. v \in Seq(Int)
  <2>1. DOMAIN e = 1 .. Len(e) /\ Len(e) \in Nat
    BY LenProperties
  <2>2. v \in [1 .. Len(e) -> Int]
    BY <1>1, <2>1
  <2> HIDE DEF v
  <2> QED BY <2>1, <2>2, SeqDef
<1> HIDE DEF v
<1>3. Total(v) \in Int
  BY <1>2, TotalInt
<1> QED BY <1>3 DEF eval_expr, v

LEMMA OperandInt ==
  ASSUME NEW l \in SourceLine, NEW s, Table(s), NEW here \in Int
  PROVE  /\ Operand(l, s, here) \in Int
         /\ \A i \in DOMAIN l.args : eval_expr(l.args[i], s, here) \in Int
<1>1. l.args \in Seq(Seq(Term))
  BY DEF SourceLine
<1>2. ASSUME NEW i \in DOMAIN l.args PROVE eval_expr(l.args[i], s, here) \in Int
  <2>1. l.args[i] \in Seq(Term)
    BY <1>1, ElementOfSeq, LenProperties
  <2> QED BY <2>1, ExprInt
<1>3. l.args # << >> => 1 \in DOMAIN l.args
  BY <1>1, EmptySeq, LenProperties
<1>4. Operand(l, s, here) \in Int
  BY <1>2, <1>3 DEF Operand
<1> QED BY <1>2, <1>4

Byte == 0 .. 255

LEMMA LittleEndianBytes ==
  ASSUME NEW v \in Int, NEW width \in 0 .. 2
  PROVE  LittleEndian(v, width) \in Seq(Byte) /\ Len(LittleEndian(v, width)) = width
<1>1. v % 256 \in Byte /\ (v \div 256) % 256 \in Byte
  BY DEF Byte
<1>2. LittleEndian(v, width) \in [1 .. width -> Byte]
  BY <1>1 DEF LittleEndian
<1> QED BY <1>2, SeqDef, LenProperties

LEMMA FieldsBytes ==
  ASSUME NEW l \in SourceLine, NEW s, Table(s), NEW here \in Int
  PROVE  /\ Fields(l, s, here) \in Seq(Byte)
         /\ Len(Fields(l, s, here)) = Len(l.args) * l.width
<1> DEFINE n == Len(l.args)  w == l.width
<1>1. w \in 0 .. 2 /\ n \in Nat /\ DOMAIN l.args = 1 .. n
  BY LenProperties DEF SourceLine
<1>2. ASSUME NEW k \in 1 .. n * w
      PROVE  LittleEndian(eval_expr(l.args[1 + ((k - 1) \div w)], s, here), w)
               [1 + ((k - 1) % w)] \in Byte
  <2>1. /\ 1 + ((k - 1) \div w) \in 1 .. n
        /\ 1 + ((k - 1) % w) \in 1 .. w
    <3>1. w \in {1, 2}
      BY <1>1, <1>2
    <3> HIDE DEF n, w
    <3>2. CASE w = 1
      BY <1>1, <3>2
    <3>3. CASE w = 2
      BY <1>1, <3>3
    <3> QED BY <3>1, <3>2, <3>3
  <2> DEFINE i == 1 + ((k - 1) \div w)  j == 1 + ((k - 1) % w)
             v == eval_expr(l.args[i], s, here)
  <2> HIDE DEF i, j
  <2>2. i \in 1 .. n /\ j \in 1 .. w
    BY <2>1 DEF i, j
  <2>3. v \in Int
    BY <1>1, <2>2, OperandInt
  <2> HIDE DEF v, n, w
  <2>4. LittleEndian(v, w) \in Seq(Byte) /\ Len(LittleEndian(v, w)) = w
    BY <1>1, <2>3, LittleEndianBytes
  <2>5. LittleEndian(v, w)[j] \in Byte
    BY <2>2, <2>4, ElementOfSeq
  <2> QED BY <2>5 DEF v, i, j, w
<1>3. n * w \in Nat
  <2> HIDE DEF n, w
  <2>1. w \in {0, 1, 2}
    BY <1>1
  <2> QED BY <1>1, <2>1
<1>4. Fields(l, s, here) \in [1 .. n * w -> Byte]
  BY <1>2 DEF Fields
<1> QED BY <1>3, <1>4, SeqDef, LenProperties

LEMMA EmittedBytes ==
  ASSUME NEW l \in SourceLine, NEW s, Table(s), NEW here \in Int
  PROVE  Emitted(l, s, here) \in Seq(Byte)
<1>1. l.base \in Byte /\ l.width \in 0 .. 2 /\ Operand(l, s, here) \in Int
  BY OperandInt DEF SourceLine, Byte
<1>2. CASE l.op = "DATA"
  BY <1>2, FieldsBytes DEF Emitted
<1>3. CASE l.op = "CODE"
  <2>1. LittleEndian(Operand(l, s, here), l.width) \in Seq(Byte) /\ <<l.base>> \in Seq(Byte)
    BY <1>1, LittleEndianBytes
  <2>2. Emitted(l, s, here) = <<l.base>> \o LittleEndian(Operand(l, s, here), l.width)
    BY <1>3 DEF Emitted
  <2> QED BY <2>1, <2>2, ConcatProperties
<1>4. CASE l.op = "RST"
  <2>1. (l.base + 8 * (Operand(l, s, here) % 8)) % 256 \in Byte
    BY <1>1 DEF Byte
  <2> QED BY <1>4, <2>1 DEF Emitted
<1>5. CASE l.op \notin {"DATA", "CODE", "RST"}
  BY <1>5 DEF Emitted
<1> QED BY <1>2, <1>3, <1>4, <1>5

LEMMA AdvanceInt ==
  ASSUME NEW l \in SourceLine, NEW s, Table(s), NEW here \in Int
  PROVE  Advance(l, s, here) \in Int
<1>1. Len(Emitted(l, s, here)) \in Nat
  BY EmittedBytes, LenProperties
<1> QED BY <1>1, OperandInt DEF Advance

LEMMA SymSetType ==
  ASSUME NEW s, NEW name \in Names, NEW v \in Int, Table(s), DOMAIN s \subseteq Names
  PROVE  Table(sym_set(s, name, v)) /\ DOMAIN sym_set(s, name, v) \subseteq Names
BY DEF sym_set, Table

(* What a line leaves in the table, and where the next one goes. *)
LEMMA LineType ==
  ASSUME NEW l \in SourceLine, NEW s, NEW here \in Int, Table(s), DOMAIN s \subseteq Names
  PROVE  LET labelled == Labelled(l, s, here)
             done == Equated(l, labelled, here)
         IN  /\ Table(labelled) /\ DOMAIN labelled \subseteq Names
             /\ Table(done) /\ DOMAIN done \subseteq Names
             /\ Advance(l, labelled, here) \in Int
             /\ Emitted(l, labelled, here) \in Seq(Byte)
<1> DEFINE labelled == Labelled(l, s, here)  done == Equated(l, labelled, here)
<1>1. /\ l.label \in Names \cup {""} /\ l.name \in Names \cup {""}
      /\ l.op = "EQU" => l.name # ""
  BY DEF SourceLine
<1>2. Table(labelled) /\ DOMAIN labelled \subseteq Names
  BY <1>1, SymSetType DEF Labelled
<1> HIDE DEF labelled
<1>3. Operand(l, labelled, here) \in Int
  BY <1>2, OperandInt
<1>4. Table(done) /\ DOMAIN done \subseteq Names
  <2>1. CASE l.op = "EQU" /\ Resolved(l, labelled)
    <3>1. done = sym_set(labelled, l.name, Operand(l, labelled, here)) /\ l.name \in Names
      BY <1>1, <2>1 DEF Equated
    <3> QED BY <1>2, <1>3, <3>1, SymSetType
  <2>2. CASE ~(l.op = "EQU" /\ Resolved(l, labelled))
    BY <1>2, <2>2 DEF Equated
  <2> QED BY <2>1, <2>2
<1>5. Advance(l, labelled, here) \in Int /\ Emitted(l, labelled, here) \in Seq(Byte)
  BY <1>2, AdvanceInt, EmittedBytes
<1> QED BY <1>2, <1>4, <1>5 DEF labelled

LEMMA StampedType ==
  ASSUME NEW img \in [Addresses -> Byte], NEW bytes \in Seq(Byte), NEW here
  PROVE  Stamped(img, bytes, here) \in [Addresses -> Byte]
<1>1. \A k \in DOMAIN bytes : bytes[k] \in Byte
  BY ElementOfSeq, LenProperties
<1> QED BY <1>1 DEF Stamped

TypeInv == TypeOK /\ (phase = "PASS" => pass + 1 \in 1 .. MaxPasses)

LEMMA InitTypes == Init => TypeInv
<1> SUFFICES ASSUME Init PROVE TypeInv
  OBVIOUS
<1>1. source \in Sources /\ source \in Seq(SourceLine) /\ Len(source) \in Nat
  <2>1. source \in Sources
    BY Zenon DEF Init
  <2> QED BY <2>1, SourceAssumption, LenProperties
<1>2. verify \subseteq References
  BY Zenon DEF Init
<1>3. /\ phase \in {"PASS", "EMIT", "VERIFY", "DONE"} /\ pass \in 0 .. MaxPasses
      /\ line \in 1 .. Len(source) + 1 /\ pc \in Int /\ pass + 1 \in 1 .. MaxPasses
      /\ exit \in 0 .. 2 /\ at \in [Lines -> Int]
  BY <1>1, LimitAssumption, LenProperties DEF Init, Lines
<1>4. DOMAIN syms \subseteq Names /\ \A n \in DOMAIN syms : syms[n] \in Int
  BY DEF Init
<1>5. {changed, errors} \subseteq BOOLEAN
  BY Zenon DEF Init
<1>6. image \in [Addresses -> 0 .. 255] /\ file \subseteq {image}
  BY DEF Init
<1> QED BY <1>1, <1>2, <1>3, <1>4, <1>5, <1>6 DEF TypeInv, TypeOK

(* A line of either kind of pass. *)
LEMMA ScanTypes ==
  ASSUME IInv, TypeInv, line <= Len(source),
         Scan(Labelled(source[line], syms, pc), source[line])
  PROVE  /\ line \in Lines /\ source' \in Sources /\ verify' \subseteq References
         /\ line' \in 1 .. Len(source)' + 1 /\ pc' \in Int
         /\ DOMAIN syms' \subseteq Names /\ \A n \in DOMAIN syms' : syms'[n] \in Int
         /\ changed' \in BOOLEAN /\ file' = file /\ exit' \in 0 .. 2
         /\ phase' = phase /\ pass' = pass /\ pass \in 0 .. MaxPasses
         /\ Emitted(source[line], Labelled(source[line], syms, pc), pc) \in Seq(Byte)
<1> DEFINE l == source[line]
<1>1. /\ source \in Seq(SourceLine) /\ line \in 1 .. Len(source) /\ Len(source) \in Nat
      /\ Lines = 1 .. Len(source) /\ l \in SourceLine
  <2>1. source \in Seq(SourceLine)
    BY Zenon DEF IInv, Shape
  <2>2. Len(source) \in Nat /\ Lines = 1 .. Len(source)
    BY <2>1, LenProperties DEF Lines
  <2>3. line \in 1 .. Len(source)
    BY <2>2 DEF TypeInv, TypeOK
  <2> QED BY <2>1, <2>2, <2>3, ElementOfSeq
<1>2. /\ pc \in Int /\ Table(syms) /\ DOMAIN syms \subseteq Names
      /\ source \in Sources /\ verify \subseteq References
      /\ exit \in 0 .. 2 /\ pass \in 0 .. MaxPasses
  BY DEF TypeInv, TypeOK, Table
<1> DEFINE labelled == Labelled(l, syms, pc)  done == Equated(l, labelled, pc)
<1>3. /\ syms' = done /\ pc' = Advance(l, labelled, pc) /\ line' = line + 1
      /\ UNCHANGED <<source, verify, phase, pass, file, exit>>
  BY DEF Scan
<1>4. changed' \in BOOLEAN
  BY Zenon DEF Scan, IInv, Shape
<1>5. /\ Table(done) /\ DOMAIN done \subseteq Names
      /\ Advance(l, labelled, pc) \in Int /\ Emitted(l, labelled, pc) \in Seq(Byte)
  BY <1>1, <1>2, LineType
<1> HIDE DEF l, done, labelled
<1>6. Emitted(source[line], Labelled(source[line], syms, pc), pc) \in Seq(Byte)
  BY <1>5 DEF l, labelled
<1> QED BY <1>1, <1>2, <1>3, <1>4, <1>5, <1>6 DEF Table

LEMMA StepTypes == IInv /\ TypeInv /\ [Next]_vars => TypeInv'
<1> SUFFICES ASSUME IInv, TypeInv, [Next]_vars PROVE TypeInv'
  OBVIOUS
<1>1. CASE AssembleLine
  <2>1. line <= Len(source) /\ Scan(Labelled(source[line], syms, pc), source[line])
    BY <1>1 DEF AssembleLine
  <2>2. /\ line \in Lines /\ source' \in Sources /\ verify' \subseteq References
        /\ line' \in 1 .. Len(source)' + 1 /\ pc' \in Int
        /\ DOMAIN syms' \subseteq Names /\ \A n \in DOMAIN syms' : syms'[n] \in Int
        /\ changed' \in BOOLEAN /\ file' = file /\ exit' \in 0 .. 2
        /\ phase' = phase /\ pass' = pass /\ pass \in 0 .. MaxPasses
    BY <2>1, ScanTypes
  <2>3. errors' \in BOOLEAN
    BY <1>1, Zenon DEF AssembleLine, IInv, Shape
  <2>4. image' = image /\ at' \in [Lines' -> Int]
    <3>1. source' = source /\ image' = image /\ at' = [at EXCEPT ![line] = pc]
      BY <1>1 DEF AssembleLine, Scan
    <3>2. pc \in Int /\ at \in [Lines -> Int]
      BY DEF TypeInv, TypeOK
    <3> QED BY <3>1, <3>2 DEF Lines
  <2>5. {changed', errors'} \subseteq BOOLEAN
    BY <2>2, <2>3, Zenon
  <2> QED BY <2>2, <2>4, <2>5 DEF TypeInv, TypeOK
<1>2. CASE EmitLine
  <2> DEFINE bytes == Emitted(source[line], Labelled(source[line], syms, pc), pc)
  <2>1. line <= Len(source) /\ Scan(Labelled(source[line], syms, pc), source[line])
    BY <1>2 DEF EmitLine
  <2>2. /\ line \in Lines /\ source' \in Sources /\ verify' \subseteq References
        /\ line' \in 1 .. Len(source)' + 1 /\ pc' \in Int
        /\ DOMAIN syms' \subseteq Names /\ \A n \in DOMAIN syms' : syms'[n] \in Int
        /\ changed' \in BOOLEAN /\ file' = file /\ exit' \in 0 .. 2
        /\ phase' = phase /\ pass' = pass /\ pass \in 0 .. MaxPasses
        /\ bytes \in Seq(Byte)
    BY <2>1, ScanTypes
  <2>3. /\ image' = Stamped(image, bytes, pc) /\ at' = at /\ source' = source
        /\ phase = "EMIT"
    BY <1>2 DEF EmitLine, Scan
  <2> HIDE DEF bytes
  <2>4. errors' \in BOOLEAN
    BY <1>2, Zenon DEF EmitLine, IInv, Shape
  <2>5. {changed', errors'} \subseteq BOOLEAN
    BY <2>2, <2>4, Zenon
  <2>6. image' \in [Addresses -> 0 .. 255] /\ file' = {}
    <3>1. image \in [Addresses -> Byte]
      BY DEF TypeInv, TypeOK, Byte
    <3>2. image' \in [Addresses -> Byte]
      BY <2>2, <2>3, <3>1, StampedType
    <3> QED BY <2>2, <2>3, <3>2 DEF Byte, IInv, FileInv
  <2>7. at' \in [Lines' -> Int]
    BY <2>3 DEF TypeInv, TypeOK, Lines
  <2> QED BY <2>2, <2>3, <2>5, <2>6, <2>7 DEF TypeInv, TypeOK
<1>3. CASE EndPass
  <2>1. UNCHANGED <<source, verify, syms, image, file, at>>
    BY <1>3 DEF EndPass
  <2>2. {changed', errors'} \subseteq BOOLEAN
    BY <1>3, Zenon DEF EndPass, IInv, Shape
  <2>3. phase = "PASS" /\ pass + 1 \in 1 .. MaxPasses /\ pass \in 0 .. MaxPasses
        /\ MaxPasses \in Nat /\ Len(source) \in Nat /\ line \in 1 .. Len(source) + 1
        /\ pc \in Int /\ exit \in 0 .. 2
    <3>1. source \in Seq(SourceLine)
      BY Zenon DEF IInv, Shape
    <3> QED BY <1>3, <3>1, LenProperties, LimitAssumption DEF EndPass, TypeInv, TypeOK
  <2>4. /\ phase' \in {"PASS", "EMIT", "DONE"} /\ pass' \in 0 .. MaxPasses
        /\ phase' = "PASS" => pass' + 1 \in 1 .. MaxPasses
        /\ line' \in 1 .. Len(source) + 1 /\ pc' \in Int /\ exit' \in 0 .. 2
    BY <1>3, <2>3 DEF EndPass, Rewind
  <2> QED BY <2>1, <2>2, <2>4 DEF TypeInv, TypeOK, Lines
<1>4. CASE Write
  <2>1. /\ UNCHANGED <<source, verify, pass, line, pc, syms, changed, errors, image, at>>
        /\ phase' \in {"DONE", "VERIFY"} /\ exit' \in {exit, 1, 2}
        /\ file' \in {file, {image}}
    BY <1>4 DEF Write, Finish
  <2>2. exit' \in 0 .. 2 /\ file' \subseteq {image}
    BY <2>1 DEF TypeInv, TypeOK
  <2>3. phase' \in {"PASS", "EMIT", "VERIFY", "DONE"} /\ phase' # "PASS"
    BY <2>1
  <2> QED BY <2>1, <2>2, <2>3 DEF TypeInv, TypeOK, Lines
<1>5. CASE Verify
  <2>1. /\ UNCHANGED <<source, verify, pass, line, pc, syms, changed, errors, image,
                       file, at>>
        /\ phase' = "DONE" /\ exit' \in {0, 1, 2}
    BY <1>5 DEF Verify, Finish
  <2> QED BY <2>1 DEF TypeInv, TypeOK, Lines
<1>6. CASE UNCHANGED vars
  BY <1>6 DEF vars, TypeInv, TypeOK, Lines
<1> QED BY <1>1, <1>2, <1>3, <1>4, <1>5, <1>6 DEF Next

(* Every value of the run is what its declaration in umkasm.c says: the       *)
(* table holds integers for names of the source, the image bytes, and the     *)
(* passes never exceed their bound.                                           *)
THEOREM AssemblerTypes == Spec => []TypeOK
<1>1. TypeInv => TypeOK
  BY DEF TypeInv
<1> QED BY <1>1, InitInv, StepInv, InitTypes, StepTypes, PTL DEF Spec

-----------------------------------------------------------------------------
(* Where the symbols settle.  Under a table s, line i goes to Loc(s)[i].  A  *)
(* name of rank r depends on names of a lower rank only, so it is right from *)
(* its definition in pass r - 1 on (passes count from 0), and stays right.   *)
Loc(s) ==
  LET loc[i \in 1 .. Len(source) + 1] ==
        IF i = 1 THEN 0 ELSE Advance(source[i - 1], s, loc[i - 1])
  IN  loc

Count == Cardinality(DefinedNames)

Ranks ==
  {rank \in [DefinedNames -> 1 .. MaxDepth] :
     \A n \in DefinedNames : \A def \in Definitions(n) :
       \A u \in UsesOf(def) \cap DefinedNames : rank[u] < rank[n]}

Lone == \A n \in Names : Cardinality(Definitions(n)) <= 1

(* The table s has the value of n that its definition has under s. *)
Right(s, n) ==
  \A def \in Definitions(n) :
    LET l == source[def[1]]
    IN  IF def[2] = "label" THEN n \in DOMAIN s /\ s[n] = Loc(s)[def[1]]
        ELSE IF Resolved(l, s) THEN n \in DOMAIN s /\ s[n] = Operand(l, s, Loc(s)[def[1]])
        ELSE n \notin DOMAIN s

(* The definitions before line i; the names of rank at most p. *)
Before(i) == (1 .. i - 1) \X {"label", "equ"}
Low(p, rank) == {n \in DefinedNames : rank[n] <= p}

Progress(s, p, rank, D) ==
  \A n \in DefinedNames :
    n \in Low(p, rank) \/ (n \in Low(p + 1, rank) /\ Definitions(n) \subseteq D)
    => Right(s, n)

Located(s, p, rank, i, here) ==
  AddressUses(i) \cap DefinedNames \subseteq Low(p, rank) => here = Loc(s)[i]

(* A name that an EQU once defined, it can still define. *)
Kept(s) ==
  \A n \in DOMAIN s : \A def \in Definitions(n) :
    def[2] = "equ" => Resolved(source[def[1]], s)

Mapped(s) == s = [n \in DOMAIN s |-> s[n]] /\ DOMAIN s \subseteq DefinedNames
Sound(s) == Mapped(s) /\ Table(s)

Settling(s, p, rank, D, i, here) ==
  Sound(s) /\ Kept(s) /\ Progress(s, p, rank, D) /\ Located(s, p, rank, i, here)

Roomy == Lone /\ Count <= MaxSyms

SettleInv ==
  phase = "PASS" /\ Roomy =>
    \A rank \in Ranks : /\ Settling(syms, pass, rank, Before(line), line, pc)
                        /\ MaxDepth <= pass => ~changed

ErrorInv ==
  /\ phase = "EMIT" /\ errors =>
       Count > MaxSyms \/ \E i \in Lines : Faulty(source[i], syms, at[i])
  /\ phase = "VERIFY" => file # {}
  /\ RefusedWithReason

RInv == Mapped(syms) /\ SettleInv /\ ErrorInv

-----------------------------------------------------------------------------
(* The names that are defined are finitely many, and a name that is defined   *)
(* only once has one definition.                                              *)
LEMMA DefinedFinite ==
  ASSUME source \in Seq(SourceLine)
  PROVE  IsFiniteSet(DefinedNames) /\ Count \in Nat
<1> DEFINE S == (1 .. Len(source)) \X {"label", "equ"}
           NameOf(d) == IF d[2] = "label" THEN source[d[1]].label ELSE source[d[1]].name
           T == {NameOf(d) : d \in S}
           f == [d \in S |-> NameOf(d)]
<1>1. IsFiniteSet(S)
  <2>1. Len(source) \in Nat
    BY LenProperties
  <2>2. IsFiniteSet(1 .. Len(source))
    BY <2>1, FS_Interval
  <2>3. IsFiniteSet({"label"} \cup {"equ"}) /\ {"label"} \cup {"equ"} = {"label", "equ"}
    BY FS_Singleton, FS_AddElement
  <2> QED BY <2>2, <2>3, FS_Product
<1>2. f \in Surjection(S, T)
  BY DEF Surjection
<1> HIDE DEF f
<1>3. IsFiniteSet(T)
  BY <1>1, <1>2, FS_Surjection
<1>4. DefinedNames \subseteq T
  <2> SUFFICES ASSUME NEW n \in DefinedNames PROVE n \in T
    OBVIOUS
  <2>1. PICK d : d \in Definitions(n)
    BY DEF DefinedNames
  <2>2. d \in S /\ NameOf(d) = n
    BY <2>1, LenProperties DEF Definitions, Lines
  <2> QED BY <2>2
<1>5. IsFiniteSet(DefinedNames)
  BY <1>3, <1>4, FS_Subset
<1> QED BY <1>5, FS_CardinalityType DEF Count

LEMMA OneDefinition ==
  ASSUME source \in Seq(SourceLine), Lone, NEW n \in Names,
         NEW d \in Definitions(n), NEW e \in Definitions(n)
  PROVE  d = e
<1>1. IsFiniteSet(Definitions(n))
  <2>1. IsFiniteSet((1 .. Len(source)) \X {"label", "equ"})
    <3>1. Len(source) \in Nat
      BY LenProperties
    <3>2. IsFiniteSet(1 .. Len(source))
      BY <3>1, FS_Interval
    <3>3. IsFiniteSet({"label"} \cup {"equ"}) /\ {"label"} \cup {"equ"} = {"label", "equ"}
      BY FS_Singleton, FS_AddElement
    <3> QED BY <3>2, <3>3, FS_Product
  <2>2. Definitions(n) \subseteq (1 .. Len(source)) \X {"label", "equ"}
    BY LenProperties DEF Definitions, Lines
  <2> QED BY <2>1, <2>2, FS_Subset
<1> SUFFICES ASSUME d # e PROVE FALSE
  OBVIOUS
<1>2. IsFiniteSet({d} \cup {e}) /\ Cardinality({d} \cup {e}) = 2
  <2>1. IsFiniteSet({d}) /\ Cardinality({d}) = 1
    BY FS_Singleton, Zenon
  <2>2. e \notin {d}
    OBVIOUS
  <2> DEFINE D == {d}
  <2>3. IsFiniteSet(D) /\ Cardinality(D) = 1 /\ e \notin D
    BY <2>1, <2>2
  <2> HIDE DEF D
  <2>4. IsFiniteSet(D \cup {e}) /\ Cardinality(D \cup {e}) = 2
    BY <2>3, FS_AddElement
  <2> QED BY <2>4 DEF D
<1> DEFINE c == Cardinality({d} \cup {e})  m == Cardinality(Definitions(n))
<1>3. c <= m
  BY <1>1, FS_Subset
<1>4. m \in Nat /\ m <= 1
  BY <1>1, FS_CardinalityType DEF Lone
<1>5. c = 2
  BY <1>2
<1> HIDE DEF c, m
<1> QED BY <1>3, <1>4, <1>5

(* There is room for every name that is defined. *)
LEMMA FullIsTooMany ==
  ASSUME source \in Seq(SourceLine), NEW s, DOMAIN s \subseteq DefinedNames,
         NEW n \in DefinedNames, Full(s, n)
  PROVE  Count > MaxSyms
<1>1. IsFiniteSet(DefinedNames) /\ Count \in Nat
  BY DefinedFinite
<1>2. IsFiniteSet(DOMAIN s) /\ Cardinality(DOMAIN s) \in Nat
  BY <1>1, FS_Subset, FS_CardinalityType
<1>3. Cardinality(DOMAIN s \cup {n}) = Cardinality(DOMAIN s) + 1
  BY <1>2, FS_AddElement DEF Full
<1>4. Cardinality(DOMAIN s \cup {n}) <= Count
  BY <1>1, FS_Subset DEF Count
<1>5. MaxSyms \in Nat /\ Cardinality(DOMAIN s) >= MaxSyms
  BY LimitAssumption DEF Full
<1> QED BY <1>1, <1>2, <1>3, <1>4, <1>5

(* The definitions of a line. *)
LEMMA DefinitionsOf ==
  ASSUME source \in Seq(SourceLine), NEW i \in Lines
  PROVE  /\ source[i] \in SourceLine
         /\ source[i].label # "" =>
              source[i].label \in DefinedNames /\ <<i, "label">> \in Definitions(source[i].label)
         /\ source[i].op = "EQU" =>
              source[i].name \in DefinedNames /\ <<i, "equ">> \in Definitions(source[i].name)
<1>1. source[i] \in SourceLine
  BY ElementOfSeq, LenProperties DEF Lines
<1>2. /\ source[i].label # "" => source[i].label \in Names
      /\ source[i].op = "EQU" => source[i].name \in Names
  BY <1>1 DEF SourceLine
<1>3. source[i].label # "" => <<i, "label">> \in Definitions(source[i].label)
  BY DEF Definitions
<1>4. source[i].op = "EQU" => <<i, "equ">> \in Definitions(source[i].name)
  BY DEF Definitions
<1> QED BY <1>1, <1>2, <1>3, <1>4 DEF DefinedNames

-----------------------------------------------------------------------------
(* Where the lines go, by its recursion. *)
IsLoc(loc, s) ==
  loc = [i \in 1 .. Len(source) + 1 |-> IF i = 1 THEN 0 ELSE Advance(source[i - 1], s, loc[i - 1])]

LEMMA LocRun ==
  ASSUME source \in Seq(SourceLine), NEW s, Table(s)
  PROVE  /\ Loc(s)[1] = 0
         /\ \A i \in Lines : Loc(s)[i] \in Int /\ Loc(s)[i + 1] = Advance(source[i], s, Loc(s)[i])
<1> DEFINE c == Len(source)
           Locs(r, k) == /\ r \in [1 .. k + 1 -> Int]
                         /\ r = [i \in 1 .. k + 1 |-> IF i = 1 THEN 0 ELSE Advance(source[i - 1], s, r[i - 1])]
           W == {k \in 0 .. c : \E r : Locs(r, k)}
<1>1. c \in Nat /\ Lines = 1 .. c /\ \A i \in 1 .. c : source[i] \in SourceLine
  BY LenProperties, ElementOfSeq DEF Lines
<1> HIDE DEF c
<1>2. 0 \in W
  <2> DEFINE r == [i \in 1 .. 1 |-> 0]
  <2>1. /\ r \in [1 .. 0 + 1 -> Int]
        /\ r = [i \in 1 .. 0 + 1 |-> IF i = 1 THEN 0 ELSE Advance(source[i - 1], s, r[i - 1])]
    OBVIOUS
  <2>2. Locs(r, 0) /\ 0 \in 0 .. c
    BY <1>1, <2>1
  <2> QED BY <2>2
<1>3. ASSUME NEW k \in 1 .. c, k - 1 \in W
      PROVE  k \in W
  <2>1. PICK r : Locs(r, k - 1)
    BY <1>3
  <2> DEFINE g == [i \in 1 .. k + 1 |-> IF i = 1 THEN 0 ELSE Advance(source[i - 1], s, r[i - 1])]
  <2>2. \A i \in 1 .. k + 1 : i # 1 => i - 1 \in 1 .. k /\ i - 1 \in 1 .. c
    BY <1>1
  <2>3. r \in [1 .. k -> Int] /\ \A i \in 1 .. k : g[i] = r[i]
    BY <1>1, <2>1
  <2>4. \A i \in 1 .. k : Advance(source[i], s, r[i]) \in Int
    BY <1>1, <2>2, <2>3, AdvanceInt
  <2>5. g \in [1 .. k + 1 -> Int]
    BY <2>2, <2>4
  <2>6. g = [i \in 1 .. k + 1 |-> IF i = 1 THEN 0 ELSE Advance(source[i - 1], s, g[i - 1])]
    BY <2>2, <2>3
  <2> HIDE DEF g
  <2>7. Locs(g, k) /\ k \in 0 .. c
    BY <1>1, <2>5, <2>6
  <2> QED BY <2>7
<1> HIDE DEF W
<1>4. \A n \in 1 .. c : n - 1 \in W => n \in W
  BY <1>3
<1>5. c \in W
  <2>1. \A n \in 0 .. c : n \in W
    BY <1>1, <1>2, <1>4, Upwards
  <2> QED BY <1>1, <2>1
<1>6. \E r : IsLoc(r, s)
  BY <1>5 DEF W, IsLoc, c
<1> DEFINE loc == Loc(s)
<1>7. loc = CHOOSE r : IsLoc(r, s)
  BY DEF Loc, IsLoc
<1> HIDE DEF loc
<1>8. IsLoc(loc, s)
  BY <1>6, <1>7
<1>9. loc[1] = 0 /\ \A i \in 1 .. c : loc[i + 1] = Advance(source[i], s, loc[i])
  <2>1. \A i \in 1 .. c : i + 1 \in 1 .. c + 1 /\ i + 1 # 1 /\ (i + 1) - 1 = i
    BY <1>1
  <2> QED BY <1>1, <1>8, <2>1 DEF IsLoc, c
<1> DEFINE V == {n \in 0 .. c : loc[n + 1] \in Int}
<1>10. 0 \in V
  BY <1>1, <1>9
<1>11. ASSUME NEW n \in 1 .. c, n - 1 \in V
       PROVE  n \in V
  <2>1. loc[n] \in Int
    <3>1. (n - 1) + 1 = n
      BY <1>1
    <3> QED BY <1>11, <3>1
  <2>2. loc[n + 1] \in Int
    BY <1>1, <1>9, <2>1, AdvanceInt
  <2> QED BY <1>1, <2>2
<1> HIDE DEF V
<1>12. \A n \in 1 .. c : n - 1 \in V => n \in V
  BY <1>11
<1>13. \A n \in 0 .. c : n \in V
  BY <1>1, <1>10, <1>12, Upwards
<1>14. \A i \in 1 .. c : loc[i] \in Int
  <2> SUFFICES ASSUME NEW i \in 1 .. c PROVE loc[i] \in Int
    OBVIOUS
  <2>1. i - 1 \in 0 .. c /\ (i - 1) + 1 = i
    BY <1>1
  <2>2. i - 1 \in V
    BY <1>13, <2>1
  <2> QED BY <2>1, <2>2 DEF V
<1> QED BY <1>1, <1>9, <1>14 DEF loc

-----------------------------------------------------------------------------
(* Tables that agree on the names a line uses mean the same to it. *)
Agree(s, t, U) ==
  \A u \in U : (u \in DOMAIN s <=> u \in DOMAIN t) /\ (u \in DOMAIN s => s[u] = t[u])

LEMMA ExprAgree ==
  ASSUME NEW e \in Seq(Term), NEW s, NEW t, NEW U, \A j \in DOMAIN e : e[j].sym \in U,
         Agree(s, t, U), NEW h, NEW k, HERE \in U => h = k
  PROVE  eval_expr(e, s, h) = eval_expr(e, t, k) /\ (eval_ok(e, s) <=> eval_ok(e, t))
<1>1. \A j \in DOMAIN e : eval_term(e[j], s, h) = eval_term(e[j], t, k)
  <2> SUFFICES ASSUME NEW j \in DOMAIN e
               PROVE  eval_term(e[j], s, h) = eval_term(e[j], t, k)
    OBVIOUS
  <2>1. eval_factor(e[j], s, h) = eval_factor(e[j], t, k)
    BY DEF eval_factor, Agree
  <2> QED BY <2>1 DEF eval_term
<1>2. [j \in DOMAIN e |-> eval_term(e[j], s, h)] = [j \in DOMAIN e |-> eval_term(e[j], t, k)]
  BY <1>1
<1>3. eval_ok(e, s) <=> eval_ok(e, t)
  BY DEF eval_ok, Agree
<1> QED BY <1>2, <1>3 DEF eval_expr

LEMMA OperandAgree ==
  ASSUME NEW l \in SourceLine, NEW s, NEW t, Agree(s, t, Uses(l)),
         NEW h, NEW k, HERE \in Uses(l) => h = k
  PROVE  /\ Operand(l, s, h) = Operand(l, t, k)
         /\ Resolved(l, s) <=> Resolved(l, t)
<1>1. l.args \in Seq(Seq(Term))
  BY DEF SourceLine
<1>2. ASSUME NEW i \in DOMAIN l.args
      PROVE  /\ eval_expr(l.args[i], s, h) = eval_expr(l.args[i], t, k)
             /\ eval_ok(l.args[i], s) <=> eval_ok(l.args[i], t)
  <2>1. l.args[i] \in Seq(Term)
    BY <1>1, ElementOfSeq, LenProperties
  <2>2. \A j \in DOMAIN l.args[i] : l.args[i][j].sym \in Uses(l)
    BY DEF Uses
  <2> DEFINE e == l.args[i]  U == Uses(l)
  <2>3. e \in Seq(Term) /\ (\A j \in DOMAIN e : e[j].sym \in U) /\ Agree(s, t, U)
    BY <2>1, <2>2
  <2>4. HERE \in U => h = k
    OBVIOUS
  <2> HIDE DEF e, U
  <2>5. eval_expr(e, s, h) = eval_expr(e, t, k) /\ (eval_ok(e, s) <=> eval_ok(e, t))
    BY <2>3, <2>4, ExprAgree
  <2> QED BY <2>5 DEF e
<1>3. l.args # << >> => 1 \in DOMAIN l.args
  BY <1>1, EmptySeq, LenProperties
<1>4. Operand(l, s, h) = Operand(l, t, k)
  BY <1>2, <1>3 DEF Operand
<1> QED BY <1>2, <1>4 DEF Resolved

(* How many bytes a line emits depends on no symbol. *)
LEMMA LengthAgrees ==
  ASSUME NEW l \in SourceLine, NEW s, Table(s), NEW t, Table(t), NEW h \in Int
  PROVE  Len(Emitted(l, s, h)) = Len(Emitted(l, t, h))
<1>1. CASE l.op = "DATA"
  BY <1>1, FieldsBytes DEF Emitted
<1>2. CASE l.op = "CODE"
  <2>1. l.width \in 0 .. 2 /\ l.base \in Byte
    BY DEF SourceLine, Byte
  <2>2. ASSUME NEW v \in Int
        PROVE  Len(<<l.base>> \o LittleEndian(v, l.width)) = 1 + l.width
    <3>1. LittleEndian(v, l.width) \in Seq(Byte) /\ Len(LittleEndian(v, l.width)) = l.width
      BY <2>1, LittleEndianBytes
    <3>2. <<l.base>> \in Seq(Byte) /\ Len(<<l.base>>) = 1
      BY <2>1
    <3> QED BY <3>1, <3>2, ConcatProperties
  <2> QED BY <1>2, <2>2, OperandInt DEF Emitted
<1>3. CASE l.op = "RST"
  BY <1>3 DEF Emitted
<1>4. CASE l.op \notin {"DATA", "CODE", "RST"}
  BY <1>4 DEF Emitted
<1> QED BY <1>1, <1>2, <1>3, <1>4

LEMMA AdvanceAgree ==
  ASSUME NEW l \in SourceLine, NEW s, Table(s), NEW t, Table(t), NEW h \in Int,
         l.op \in {"ORG", "DS"} => Agree(s, t, Uses(l))
  PROVE  Advance(l, s, h) = Advance(l, t, h)
<1>1. CASE l.op \in {"ORG", "DS"}
  <2>1. Operand(l, s, h) = Operand(l, t, h) /\ (Resolved(l, s) <=> Resolved(l, t))
    BY <1>1, OperandAgree
  <2> QED BY <1>1, <2>1 DEF Advance
<1>2. CASE l.op \notin {"ORG", "DS"}
  BY <1>2, LengthAgrees DEF Advance
<1> QED BY <1>1, <1>2

LEMMA LocAgree ==
  ASSUME source \in Seq(SourceLine), NEW s, Table(s), NEW t, Table(t),
         NEW i \in Lines, Agree(s, t, AddressUses(i))
  PROVE  Loc(s)[i] = Loc(t)[i]
<1> DEFINE c == i - 1
           W == {n \in 0 .. c : Loc(s)[n + 1] = Loc(t)[n + 1]}
<1>1. c \in Nat /\ i = c + 1 /\ \A n \in 1 .. c : n \in Lines /\ source[n] \in SourceLine
  BY LenProperties, ElementOfSeq DEF Lines
<1> HIDE DEF c
<1>2. 0 \in W
  BY <1>1, LocRun
<1>3. ASSUME NEW n \in 1 .. c, n - 1 \in W
      PROVE  n \in W
  <2>1. Loc(s)[n] = Loc(t)[n]
    <3>1. (n - 1) + 1 = n
      BY <1>1
    <3> QED BY <1>3, <3>1
  <2>2. n \in Lines /\ Loc(s)[n] \in Int
    BY <1>1, LocRun
  <2>3. source[n].op \in {"ORG", "DS"} => Agree(s, t, Uses(source[n]))
    <3> SUFFICES ASSUME source[n].op \in {"ORG", "DS"} PROVE Agree(s, t, Uses(source[n]))
      OBVIOUS
    <3>1. n \in 1 .. i - 1
      BY <1>1
    <3>2. Uses(source[n]) \subseteq AddressUses(i)
      BY <3>1 DEF AddressUses
    <3> QED BY <3>2 DEF Agree
  <2>4. Advance(source[n], s, Loc(s)[n]) = Advance(source[n], t, Loc(s)[n])
    BY <1>1, <2>2, <2>3, AdvanceAgree
  <2>5. Loc(s)[n + 1] = Loc(t)[n + 1]
    BY <2>1, <2>2, <2>4, LocRun
  <2> QED BY <1>1, <2>5
<1> HIDE DEF W
<1>4. \A n \in 1 .. c : n - 1 \in W => n \in W
  BY <1>3
<1>5. c \in W
  <2>1. \A n \in 0 .. c : n \in W
    BY <1>1, <1>2, <1>4, Upwards
  <2> QED BY <1>1, <2>1
<1> QED BY <1>1, <1>5 DEF W

-----------------------------------------------------------------------------
(* Names and ranks. *)
LEMMA AgreeOnUses ==
  ASSUME NEW s, Sound(s), NEW t, Sound(t), NEW L, Agree(s, t, L),
         NEW U, U \cap DefinedNames \subseteq L
  PROVE  Agree(s, t, U)
BY DEF Sound, Mapped, Agree

LEMMA RankIsInt ==
  ASSUME source \in Seq(SourceLine), NEW rank \in Ranks, NEW n \in DefinedNames
  PROVE  rank[n] \in 1 .. MaxDepth /\ rank[n] \in Int /\ MaxDepth \in Nat
<1>1. rank \in [DefinedNames -> 1 .. MaxDepth] /\ MaxDepth \in Nat
  BY LimitAssumption DEF Ranks, MaxDepth
<1> QED BY <1>1

LEMMA LowGrows ==
  ASSUME source \in Seq(SourceLine), NEW rank \in Ranks, NEW p \in Nat
  PROVE  Low(p, rank) \subseteq Low(p + 1, rank)
BY RankIsInt DEF Low

LEMMA UsesAreLow ==
  ASSUME source \in Seq(SourceLine), NEW rank \in Ranks, NEW p \in Nat,
         NEW n \in Low(p + 1, rank), NEW d \in Definitions(n)
  PROVE  UsesOf(d) \cap DefinedNames \subseteq Low(p, rank)
<1> SUFFICES ASSUME NEW u \in UsesOf(d) \cap DefinedNames PROVE u \in Low(p, rank)
  OBVIOUS
<1>1. n \in DefinedNames /\ rank[n] <= p + 1
  BY DEF Low
<1>2. rank[u] < rank[n]
  BY <1>1 DEF Ranks
<1>3. rank[u] \in Int /\ rank[n] \in Int
  BY <1>1, RankIsInt
<1> QED BY <1>1, <1>2, <1>3 DEF Low

LEMMA ADefinition ==
  ASSUME NEW n, NEW d \in Definitions(n)
  PROVE  /\ d[1] \in Lines /\ d = <<d[1], d[2]>> /\ d[2] \in {"label", "equ"}
         /\ d[2] = "label" => source[d[1]].label = n
         /\ d[2] = "equ" => source[d[1]].op = "EQU" /\ source[d[1]].name = n
BY DEF Definitions

(* What an EQU's operand is under tables that agree on what it uses. *)
LEMMA EquAgree ==
  ASSUME source \in Seq(SourceLine), NEW s, Sound(s), NEW t, Sound(t),
         NEW i \in Lines, Agree(s, t, UsesOf(<<i, "equ">>))
  PROVE  /\ Resolved(source[i], s) <=> Resolved(source[i], t)
         /\ Operand(source[i], s, Loc(s)[i]) = Operand(source[i], t, Loc(t)[i])
<1> DEFINE l == source[i]  h == Loc(s)[i]  k == Loc(t)[i]
<1>1. l \in SourceLine
  BY DefinitionsOf
<1>2. UsesOf(<<i, "equ">>) = Uses(l) \cup (IF HERE \in Uses(l) THEN AddressUses(i) ELSE {})
  BY DEF UsesOf
<1>3. Agree(s, t, Uses(l)) /\ (HERE \in Uses(l) => Agree(s, t, AddressUses(i)))
  BY <1>2 DEF Agree
<1>4. HERE \in Uses(l) => h = k
  BY <1>3, LocAgree DEF Sound
<1> HIDE DEF l, h, k
<1>5. Operand(l, s, h) = Operand(l, t, k) /\ (Resolved(l, s) <=> Resolved(l, t))
  BY <1>1, <1>3, <1>4, OperandAgree
<1> QED BY <1>5 DEF l, h, k

LEMMA RightStays ==
  ASSUME source \in Seq(SourceLine), NEW rank \in Ranks, NEW p \in Nat,
         NEW s, Sound(s), NEW t, Sound(t), Agree(s, t, Low(p, rank)),
         NEW n \in Low(p + 1, rank), Agree(s, t, {n}), Right(s, n)
  PROVE  Right(t, n)
<1> SUFFICES ASSUME NEW d \in Definitions(n)
             PROVE  LET l == source[d[1]]
                    IN  IF d[2] = "label" THEN n \in DOMAIN t /\ t[n] = Loc(t)[d[1]]
                        ELSE IF Resolved(l, t) THEN n \in DOMAIN t /\ t[n] = Operand(l, t, Loc(t)[d[1]])
                        ELSE n \notin DOMAIN t
  BY DEF Right
<1> DEFINE i == d[1]
<1>1. i \in Lines /\ d = <<i, d[2]>> /\ d[2] \in {"label", "equ"}
  BY ADefinition
<1>2. Agree(s, t, UsesOf(d))
  <2> DEFINE U == UsesOf(d)  L == Low(p, rank)
  <2>1. U \cap DefinedNames \subseteq L /\ Agree(s, t, L)
    BY UsesAreLow
  <2> HIDE DEF U, L
  <2>2. Agree(s, t, U)
    BY <2>1, AgreeOnUses
  <2> QED BY <2>2 DEF U
<1>3. n \in DOMAIN s <=> n \in DOMAIN t
  BY DEF Agree
<1>4. n \in DOMAIN s => s[n] = t[n]
  BY DEF Agree
<1> HIDE DEF i
<1>5. CASE d[2] = "label"
  <2>1. UsesOf(d) = AddressUses(i)
    BY <1>1, <1>5 DEF UsesOf, i
  <2>2. Loc(s)[i] = Loc(t)[i]
    BY <1>1, <1>2, <2>1, LocAgree DEF Sound
  <2>3. n \in DOMAIN s /\ s[n] = Loc(s)[i]
    BY <1>5 DEF Right, i
  <2> QED BY <1>3, <1>4, <1>5, <2>2, <2>3 DEF i
<1>6. CASE d[2] = "equ"
  <2>1. d = <<i, "equ">>
    BY <1>1, <1>6
  <2>2. /\ Resolved(source[i], s) <=> Resolved(source[i], t)
        /\ Operand(source[i], s, Loc(s)[i]) = Operand(source[i], t, Loc(t)[i])
    BY <1>1, <1>2, <2>1, EquAgree
  <2>3. IF Resolved(source[i], s) THEN n \in DOMAIN s /\ s[n] = Operand(source[i], s, Loc(s)[i])
        ELSE n \notin DOMAIN s
    BY <1>6 DEF Right, i
  <2>4. IF Resolved(source[i], t) THEN n \in DOMAIN t /\ t[n] = Operand(source[i], t, Loc(t)[i])
        ELSE n \notin DOMAIN t
    BY <1>3, <1>4, <2>2, <2>3
  <2> QED BY <1>6, <2>4 DEF i
<1> QED BY <1>1, <1>5, <1>6

(* A definition d of x is processed: x gets the value v. *)
LEMMA DefinitionStep ==
  ASSUME source \in Seq(SourceLine), NEW rank \in Ranks, NEW p \in Nat, NEW D,
         NEW s, Sound(s), NEW x \in DefinedNames, NEW v \in Int, ~Full(s, x),
         NEW d \in Definitions(x), Progress(s, p, rank, D),
         NEW t, t = sym_set(s, x, v),
         x \in Low(p, rank) => x \in DOMAIN s /\ s[x] = v,
         Sound(t) /\ Agree(s, t, Low(p, rank)) /\ x \in Low(p + 1, rank) => Right(t, x)
  PROVE  /\ Sound(t) /\ Agree(s, t, Low(p, rank)) /\ (x \in Low(p, rank) => t = s)
         /\ Progress(t, p, rank, D \cup {d})
<1>1. t = [n \in DOMAIN s \cup {x} |-> IF n = x THEN v ELSE s[n]]
  BY DEF sym_set
<1>2. /\ DOMAIN t = DOMAIN s \cup {x} /\ t[x] = v
      /\ \A n \in DOMAIN s : n # x => t[n] = s[n]
  BY <1>1
<1>3. Sound(t)
  <2>1. DOMAIN t \subseteq DefinedNames /\ Table(t)
    BY <1>2 DEF Sound, Mapped, Table
  <2>2. t = [n \in DOMAIN t |-> t[n]]
    BY <1>1
  <2> QED BY <2>1, <2>2 DEF Sound, Mapped
<1>4. Agree(s, t, Low(p, rank))
  BY <1>2 DEF Agree
<1>5. x \in Low(p, rank) => t = s
  <2> SUFFICES ASSUME x \in Low(p, rank) PROVE t = s
    OBVIOUS
  <2>1. DOMAIN t = DOMAIN s /\ \A n \in DOMAIN s : t[n] = s[n]
    BY <1>2
  <2>2. s = [n \in DOMAIN s |-> s[n]] /\ t = [n \in DOMAIN t |-> t[n]]
    BY <1>3 DEF Sound, Mapped
  <2> QED BY <2>1, <2>2
<1>6. Progress(t, p, rank, D \cup {d})
  <2> SUFFICES ASSUME NEW n \in DefinedNames,
                      n \in Low(p, rank) \/ (n \in Low(p + 1, rank) /\ Definitions(n) \subseteq D \cup {d})
               PROVE  Right(t, n)
    BY DEF Progress
  <2>1. n \in Low(p + 1, rank)
    BY LowGrows
  <2>2. CASE n = x
    BY <1>3, <1>4, <2>1, <2>2
  <2>3. CASE n # x
    <3>1. d \notin Definitions(n)
      <4>1. d \in Definitions(n) => n = x
        BY ADefinition
      <4> QED BY <2>3, <4>1
    <3>2. Right(s, n)
      BY <3>1 DEF Progress
    <3>3. Agree(s, t, {n})
      BY <1>2, <2>3 DEF Agree
    <3> QED BY <1>3, <1>4, <2>1, <3>2, <3>3, RightStays
  <2> QED BY <2>2, <2>3
<1> QED BY <1>3, <1>4, <1>5, <1>6

-----------------------------------------------------------------------------
(* A line of a symbol pass, in a table that is settling: its label first; in  *)
(* a pass after as many as a chain has names, it leaves the table as it is.   *)
Calm(s, t, p) == MaxDepth <= p => t = s

LEMMA LabelSettles ==
  ASSUME source \in Seq(SourceLine), Roomy,
         NEW rank \in Ranks, NEW p \in Nat, NEW D, NEW i \in Lines, NEW here \in Int,
         NEW s, Settling(s, p, rank, D, i, here),
         NEW t, t = Labelled(source[i], s, here)
  PROVE  /\ Sound(t) /\ Kept(t) /\ Agree(s, t, Low(p, rank))
         /\ Progress(t, p, rank, D \cup {<<i, "label">>})
         /\ Located(t, p, rank, i, here)
         /\ Calm(s, t, p)
<1> USE DEF Settling, Roomy, Calm
<1> DEFINE l == source[i]  x == l.label  d == <<i, "label">>  L == Low(p, rank)
<1>1. CASE x = ""
  <2>1. t = s
    BY <1>1 DEF Labelled
  <2>2. \A n \in DefinedNames : d \notin Definitions(n)
    <3>1. \A n : d \in Definitions(n) => n = x
      BY ADefinition
    <3>2. "" \notin DefinedNames
      BY SourceAssumption DEF DefinedNames
    <3> QED BY <1>1, <3>1, <3>2
  <2>3. Progress(t, p, rank, D \cup {d})
    BY <2>1, <2>2 DEF Progress
  <2> QED BY <2>1, <2>3 DEF Agree
<1>2. CASE x # ""
  <2>1. x \in DefinedNames /\ d \in Definitions(x) /\ t = sym_set(s, x, here)
    BY <1>2, DefinitionsOf DEF Labelled
  <2>2. ~Full(s, x)
    <3>1. MaxSyms \in Nat /\ Count \in Nat
      BY LimitAssumption, DefinedFinite
    <3> QED BY <2>1, <3>1, FullIsTooMany DEF Sound, Mapped
  <2>3. x \in Low(p + 1, rank) => AddressUses(i) \cap DefinedNames \subseteq L
    <3>1. UsesOf(d) = AddressUses(i)
      BY DEF UsesOf
    <3> QED BY <2>1, <3>1, UsesAreLow
  <2>4. x \in Low(p + 1, rank) => here = Loc(s)[i]
    BY <2>3 DEF Located
  <2>5. x \in Low(p, rank) => x \in DOMAIN s /\ s[x] = here
    <3> SUFFICES ASSUME x \in Low(p, rank) PROVE x \in DOMAIN s /\ s[x] = here
      OBVIOUS
    <3>1. Right(s, x)
      BY <2>1 DEF Progress
    <3>2. x \in DOMAIN s /\ s[x] = Loc(s)[i]
      BY <2>1, <3>1 DEF Right
    <3> QED BY <2>4, <3>2, LowGrows
  <2>6. Sound(t) /\ Agree(s, t, L) /\ AddressUses(i) \cap DefinedNames \subseteq L
        => Loc(s)[i] = Loc(t)[i]
    <3> SUFFICES ASSUME Sound(t), Agree(s, t, L), AddressUses(i) \cap DefinedNames \subseteq L
                 PROVE  Loc(s)[i] = Loc(t)[i]
      OBVIOUS
    <3> DEFINE U == AddressUses(i)
    <3> HIDE DEF L, U
    <3>1. Agree(s, t, U)
      BY AgreeOnUses DEF U
    <3> QED BY <3>1, LocAgree DEF U, Sound
  <2>7. ASSUME Sound(t), Agree(s, t, L), x \in Low(p + 1, rank)
        PROVE  Right(t, x)
    <3>1. x \in DOMAIN t /\ t[x] = Loc(t)[i]
      <4>1. x \in DOMAIN t /\ t[x] = here
        BY <2>1, <2>2 DEF sym_set
      <4> QED BY <2>3, <2>4, <2>6, <2>7, <4>1
    <3>2. ASSUME NEW e \in Definitions(x) PROVE e = d
      BY <2>1, OneDefinition DEF DefinedNames
    <3> QED BY <3>1, <3>2 DEF Right
  <2> HIDE DEF x, d, L
  <2>8. /\ Sound(t) /\ Agree(s, t, Low(p, rank)) /\ (x \in Low(p, rank) => t = s)
        /\ Progress(t, p, rank, D \cup {d})
    BY <2>1, <2>2, <2>5, <2>7, DefinitionStep DEF L
  <2>9. Located(t, p, rank, i, here)
    BY <2>6, <2>8 DEF Located, L
  <2>10. Kept(t)
    <3> SUFFICES ASSUME NEW n \in DOMAIN t, NEW e \in Definitions(n), e[2] = "equ"
                 PROVE  Resolved(source[e[1]], t)
      BY DEF Kept
    <3>1. DOMAIN t = DOMAIN s \cup {x}
      BY <2>1, <2>2 DEF sym_set
    <3>2. n # x
      <4>1. n = x => e = d
        BY <2>1, OneDefinition DEF DefinedNames
      <4> QED BY <4>1 DEF d
    <3>3. Resolved(source[e[1]], s)
      BY <3>1, <3>2 DEF Kept
    <3> QED BY <3>1, <3>3 DEF Resolved, eval_ok
  <2>11. MaxDepth <= p => t = s
    <3>1. rank[x] \in 1 .. MaxDepth /\ MaxDepth \in Nat
      BY <2>1, RankIsInt
    <3>2. MaxDepth <= p => x \in Low(p, rank)
      BY <2>1, <3>1 DEF Low
    <3> QED BY <2>8, <3>2
  <2> QED BY <2>8, <2>9, <2>10, <2>11 DEF d
<1> QED BY <1>1, <1>2

(* Then its EQU. *)
LEMMA EquSettles ==
  ASSUME source \in Seq(SourceLine), Roomy,
         NEW rank \in Ranks, NEW p \in Nat, NEW D, NEW i \in Lines, NEW here \in Int,
         NEW s, Settling(s, p, rank, D, i, here),
         NEW t, t = Equated(source[i], s, here)
  PROVE  /\ Sound(t) /\ Kept(t) /\ Agree(s, t, Low(p, rank))
         /\ Progress(t, p, rank, D \cup {<<i, "equ">>})
         /\ Calm(s, t, p)
<1> USE DEF Settling, Roomy, Calm
<1> DEFINE l == source[i]  x == l.name  d == <<i, "equ">>  L == Low(p, rank)
           v == Operand(l, s, here)
<1>0. l \in SourceLine
  BY DefinitionsOf
<1>1. CASE l.op # "EQU"
  <2>1. t = s
    BY <1>1 DEF Equated
  <2>2. \A n \in DefinedNames : d \notin Definitions(n)
    BY <1>1, ADefinition
  <2>3. Progress(t, p, rank, D \cup {d})
    BY <2>1, <2>2 DEF Progress
  <2> QED BY <2>1, <2>3 DEF Agree
<1>2. CASE l.op = "EQU" /\ ~Resolved(l, s)
  <2>1. t = s /\ x \in DefinedNames /\ d \in Definitions(x)
    BY <1>2, DefinitionsOf DEF Equated
  <2>2. x \notin DOMAIN s
    BY <1>2, <2>1 DEF Kept
  <2>3. Right(s, x)
    <3>1. ASSUME NEW e \in Definitions(x) PROVE e = d
      BY <2>1, OneDefinition DEF DefinedNames
    <3> QED BY <1>2, <2>2, <3>1 DEF Right
  <2>4. ASSUME NEW n \in DefinedNames, n # x PROVE d \notin Definitions(n)
    <3>1. d \in Definitions(n) => n = x
      BY ADefinition
    <3> QED BY <2>4, <3>1
  <2>5. Progress(t, p, rank, D \cup {d})
    <3> SUFFICES ASSUME NEW n \in DefinedNames,
                        n \in Low(p, rank) \/ (n \in Low(p + 1, rank) /\ Definitions(n) \subseteq D \cup {d})
                 PROVE  Right(s, n)
      BY <2>1 DEF Progress
    <3>1. CASE n = x
      BY <2>3, <3>1
    <3>2. CASE n # x
      BY <2>4, <3>2 DEF Progress
    <3> QED BY <3>1, <3>2
  <2> QED BY <2>1, <2>5 DEF Agree
<1>3. CASE l.op = "EQU" /\ Resolved(l, s)
  <2>1. x \in DefinedNames /\ d \in Definitions(x) /\ t = sym_set(s, x, v)
    BY <1>3, DefinitionsOf DEF Equated
  <2>2. ~Full(s, x)
    <3>1. MaxSyms \in Nat /\ Count \in Nat
      BY LimitAssumption, DefinedFinite
    <3> QED BY <2>1, <3>1, FullIsTooMany DEF Sound, Mapped
  <2>3. v \in Int
    BY <1>0, OperandInt DEF Sound
  <2>4. x \in Low(p + 1, rank) => UsesOf(d) \cap DefinedNames \subseteq L
    BY <2>1, UsesAreLow
  <2>5. x \in Low(p + 1, rank) => v = Operand(l, s, Loc(s)[i])
    <3> SUFFICES ASSUME x \in Low(p + 1, rank) PROVE v = Operand(l, s, Loc(s)[i])
      OBVIOUS
    <3>1. HERE \in Uses(l) => here = Loc(s)[i]
      <4>1. HERE \in Uses(l) => AddressUses(i) \subseteq UsesOf(d)
        BY DEF UsesOf
      <4> QED BY <2>4, <4>1 DEF Located
    <3>2. Agree(s, s, Uses(l))
      BY DEF Agree
    <3> DEFINE k == Loc(s)[i]
    <3> HIDE DEF k, l
    <3>3. Operand(l, s, here) = Operand(l, s, k)
      BY <1>0, <3>1, <3>2, OperandAgree DEF k
    <3> QED BY <3>3 DEF k
  <2>6. x \in Low(p, rank) => x \in DOMAIN s /\ s[x] = v
    <3> SUFFICES ASSUME x \in Low(p, rank) PROVE x \in DOMAIN s /\ s[x] = v
      OBVIOUS
    <3>1. Right(s, x)
      BY <2>1 DEF Progress
    <3>2. x \in DOMAIN s /\ s[x] = Operand(l, s, Loc(s)[i])
      BY <1>3, <2>1, <3>1 DEF Right
    <3> QED BY <2>5, <3>2, LowGrows
  <2>7. DOMAIN t = DOMAIN s \cup {x} /\ t[x] = v
    BY <2>1, <2>2 DEF sym_set
  <2>8. Resolved(l, t)
    BY <1>3, <2>7 DEF Resolved, eval_ok
  <2>9. ASSUME Sound(t), Agree(s, t, L), x \in Low(p + 1, rank)
        PROVE  Right(t, x)
    <3>1. Agree(s, t, UsesOf(d))
      <4> DEFINE U == UsesOf(d)
      <4>1. U \cap DefinedNames \subseteq L
        BY <2>4, <2>9
      <4> HIDE DEF U, L
      <4>2. Agree(s, t, U)
        BY <2>9, <4>1, AgreeOnUses
      <4> QED BY <4>2 DEF U
    <3>2. Operand(l, s, Loc(s)[i]) = Operand(l, t, Loc(t)[i])
      BY <2>9, <3>1, EquAgree
    <3>3. x \in DOMAIN t /\ t[x] = Operand(l, t, Loc(t)[i])
      BY <2>5, <2>7, <2>9, <3>2
    <3>4. ASSUME NEW e \in Definitions(x) PROVE e = d
      BY <2>1, OneDefinition DEF DefinedNames
    <3> QED BY <2>8, <3>3, <3>4 DEF Right
  <2> HIDE DEF x, d, L, v
  <2>10. /\ Sound(t) /\ Agree(s, t, Low(p, rank)) /\ (x \in Low(p, rank) => t = s)
         /\ Progress(t, p, rank, D \cup {d})
    <3>1. Sound(t) /\ Agree(s, t, Low(p, rank)) /\ x \in Low(p + 1, rank) => Right(t, x)
      BY <2>9 DEF L
    <3>2. x \in Low(p, rank) => x \in DOMAIN s /\ s[x] = v
      BY <2>6
    <3>3. x \in DefinedNames /\ d \in Definitions(x) /\ t = sym_set(s, x, v) /\ ~Full(s, x) /\ v \in Int
      BY <2>1, <2>2, <2>3
    <3> QED BY <3>1, <3>2, <3>3, DefinitionStep, Zenon
  <2>11. Kept(t)
    <3> SUFFICES ASSUME NEW n \in DOMAIN t, NEW e \in Definitions(n), e[2] = "equ"
                 PROVE  Resolved(source[e[1]], t)
      BY DEF Kept
    <3>1. CASE n = x
      <4>1. e = d
        BY <2>1, <3>1, OneDefinition DEF DefinedNames
      <4> QED BY <2>8, <4>1 DEF d
    <3>2. CASE n # x
      <4>1. Resolved(source[e[1]], s)
        BY <2>7, <3>2 DEF Kept
      <4> QED BY <2>7, <4>1 DEF Resolved, eval_ok
    <3> QED BY <3>1, <3>2
  <2>12. MaxDepth <= p => t = s
    <3>1. rank[x] \in 1 .. MaxDepth /\ MaxDepth \in Nat
      BY <2>1, RankIsInt
    <3>2. MaxDepth <= p => x \in Low(p, rank)
      BY <2>1, <3>1 DEF Low
    <3> QED BY <2>10, <3>2
  <2> QED BY <2>10, <2>11, <2>12 DEF d
<1> QED BY <1>1, <1>2, <1>3

(* The whole line. *)
LEMMA LineSettles ==
  ASSUME source \in Seq(SourceLine), Roomy,
         NEW rank \in Ranks, NEW p \in Nat, NEW i \in Lines, NEW here \in Int,
         NEW s, Settling(s, p, rank, Before(i), i, here),
         NEW t, t = Labelled(source[i], s, here), NEW u, u = Equated(source[i], t, here)
  PROVE  /\ Kept(u) /\ Progress(u, p, rank, Before(i + 1))
         /\ Located(u, p, rank, i + 1, Advance(source[i], t, here))
         /\ Calm(s, t, p) /\ Calm(t, u, p)
<1> DEFINE l == source[i]  D == Before(i)  L == Low(p, rank)
<1>1. /\ Sound(t) /\ Kept(t) /\ Progress(t, p, rank, D \cup {<<i, "label">>})
      /\ Located(t, p, rank, i, here) /\ Calm(s, t, p)
  <2>1. Settling(s, p, rank, D, i, here)
    OBVIOUS
  <2> HIDE DEF D
  <2> QED BY <2>1, LabelSettles
<1>2. /\ Sound(u) /\ Kept(u) /\ Agree(t, u, L)
      /\ Progress(u, p, rank, (D \cup {<<i, "label">>}) \cup {<<i, "equ">>})
      /\ Calm(t, u, p)
  <2> DEFINE E == D \cup {<<i, "label">>}
  <2>1. Progress(t, p, rank, E)
    BY <1>1
  <2> HIDE DEF E
  <2>2. /\ Sound(u) /\ Kept(u) /\ Agree(t, u, Low(p, rank))
        /\ Progress(u, p, rank, E \cup {<<i, "equ">>}) /\ Calm(t, u, p)
    <3>1. Settling(t, p, rank, E, i, here)
      BY <1>1, <2>1 DEF Settling
    <3> QED BY <3>1, EquSettles
  <2> QED BY <2>2 DEF E
<1>3. Before(i + 1) = (D \cup {<<i, "label">>}) \cup {<<i, "equ">>}
  <2>1. i \in Nat \ {0}
    BY LenProperties DEF Lines
  <2>2. 1 .. (i + 1) - 1 = (1 .. i - 1) \cup {i}
    BY <2>1
  <2> DEFINE S == 1 .. i - 1
  <2>3. Before(i + 1) = (S \cup {i}) \X {"label", "equ"} /\ D = S \X {"label", "equ"}
    BY <2>2 DEF Before
  <2> HIDE DEF S, D
  <2> QED BY <2>3
<1>4. Located(u, p, rank, i + 1, Advance(l, t, here))
  <2> SUFFICES ASSUME AddressUses(i + 1) \cap DefinedNames \subseteq L
               PROVE  Advance(l, t, here) = Loc(u)[i + 1]
    BY DEF Located
  <2>1. i \in Nat \ {0} /\ l \in SourceLine
    <3>1. i \in Nat \ {0}
      BY LenProperties DEF Lines
    <3> QED BY <3>1, DefinitionsOf
  <2>2. AddressUses(i) \subseteq AddressUses(i + 1)
    <3>1. 1 .. i - 1 \subseteq 1 .. (i + 1) - 1
      BY <2>1
    <3> QED BY <3>1 DEF AddressUses
  <2>3. l.op \in {"ORG", "DS"} => Uses(l) \subseteq AddressUses(i + 1)
    <3>1. i \in 1 .. (i + 1) - 1
      BY <2>1
    <3> QED BY <3>1 DEF AddressUses
  <2>4. here = Loc(t)[i]
    BY <1>1, <2>2 DEF Located
  <2>5. Agree(t, u, AddressUses(i)) /\ (l.op \in {"ORG", "DS"} => Agree(t, u, Uses(l)))
    <3> DEFINE A == AddressUses(i + 1)
    <3>1. A \cap DefinedNames \subseteq L
      OBVIOUS
    <3> HIDE DEF A, L
    <3>2. Agree(t, u, A)
      BY <1>1, <1>2, <3>1, AgreeOnUses
    <3> QED BY <2>2, <2>3, <3>2 DEF Agree, A
  <2>6. Loc(t)[i] = Loc(u)[i] /\ Table(t) /\ Table(u)
    BY <1>1, <1>2, <2>5, LocAgree DEF Sound
  <2>7. Advance(l, t, here) = Advance(l, u, here)
    BY <2>1, <2>5, <2>6, AdvanceAgree
  <2>8. Loc(u)[i + 1] = Advance(l, u, Loc(u)[i])
    BY <2>6, LocRun
  <2> QED BY <2>4, <2>6, <2>7, <2>8
<1> QED BY <1>1, <1>2, <1>3, <1>4

-----------------------------------------------------------------------------
(* The source does not change, and nothing that is said of it alone. *)
LEMMA SourceStays ==
  ASSUME source' = source
  PROVE  /\ DefinedNames' = DefinedNames /\ Count' = Count
         /\ Ranks' = Ranks /\ (Lone' <=> Lone) /\ (WellFounded' <=> WellFounded)
         /\ Lines' = Lines
<1>1. \A n : Definitions(n)' = Definitions(n)
  BY DEF Definitions, Lines
<1>2. DefinedNames' = DefinedNames
  BY <1>1 DEF DefinedNames
<1>3. \A i : AddressUses(i)' = AddressUses(i)
  BY DEF AddressUses
<1>4. \A d : UsesOf(d)' = UsesOf(d)
  BY <1>3 DEF UsesOf
<1>5. WellFounded' <=> WellFounded
  BY <1>1, <1>2, <1>4 DEF WellFounded
<1>6. Count' = Count /\ (Lone' <=> Lone) /\ Lines' = Lines
  BY <1>1, <1>2 DEF Count, Lone, Lines
<1>7. Ranks' = Ranks
  BY <1>1, <1>2, <1>4, <1>6 DEF Ranks
<1> QED BY <1>2, <1>5, <1>6, <1>7

LEMMA SettlingNext ==
  ASSUME source' = source
  PROVE  /\ Mapped(syms)' <=> Mapped(syms')
         /\ \A rank : Settling(syms, pass, rank, Before(line), line, pc)'
                      <=> Settling(syms', pass', rank, Before(line'), line', pc')
<1>1. /\ \A n : Definitions(n)' = Definitions(n) /\ DefinedNames' = DefinedNames
      /\ \A i : AddressUses(i)' = AddressUses(i)
  <2>1. \A n : Definitions(n)' = Definitions(n)
    BY DEF Definitions, Lines
  <2>2. \A i : AddressUses(i)' = AddressUses(i)
    BY DEF AddressUses
  <2> QED BY <2>1, <2>2, SourceStays
<1>2. Loc(syms)' = Loc(syms')
  BY DEF Loc
<1>3. Kept(syms)' <=> Kept(syms')
  BY <1>1 DEF Kept
<1>4. \A n : Right(syms, n)' <=> Right(syms', n)
  BY <1>1, <1>2 DEF Right
<1>5. \A rank : Progress(syms, pass, rank, Before(line))'
                <=> Progress(syms', pass', rank, Before(line'))
  BY <1>1, <1>4 DEF Progress, Low, Before
<1>6. \A rank : Located(syms, pass, rank, line, pc)'
                <=> Located(syms', pass', rank, line', pc')
  BY <1>1, <1>2 DEF Located, Low
<1>7. Mapped(syms)' <=> Mapped(syms')
  BY <1>1 DEF Mapped
<1>8. Sound(syms)' <=> Sound(syms')
  BY <1>7 DEF Sound, Table
<1> QED BY <1>3, <1>5, <1>6, <1>7, <1>8 DEF Settling

-----------------------------------------------------------------------------
LEMMA InitReasons == Init => RInv
<1> SUFFICES ASSUME Init PROVE RInv
  OBVIOUS
<1>1. source \in Seq(SourceLine) /\ IInv /\ TypeInv
  <2>1. IInv /\ TypeInv
    BY InitInv, InitTypes
  <2> QED BY <2>1, Zenon DEF IInv, Shape
<1>2. phase = "PASS" /\ pass = 0 /\ line = 1 /\ pc = 0 /\ syms = << >> /\ changed = FALSE
  BY Zenon DEF Init
<1>3. DOMAIN syms = {} /\ Mapped(syms)
  <2>1. DOMAIN syms = {} /\ syms = [n \in DOMAIN syms |-> syms[n]]
    BY <1>2
  <2> QED BY <2>1 DEF Mapped
<1>4. SettleInv
  <2> SUFFICES ASSUME NEW rank \in Ranks PROVE Settling(syms, pass, rank, Before(line), line, pc)
    BY <1>2, Zenon DEF SettleInv
  <2>1. Sound(syms) /\ Kept(syms)
    BY <1>3 DEF Sound, Table, Kept
  <2>2. Progress(syms, pass, rank, Before(line))
    <3> SUFFICES ASSUME NEW n \in DefinedNames,
                        n \in Low(pass, rank) \/ Definitions(n) \subseteq Before(line)
                 PROVE  FALSE
      BY DEF Progress
    <3>1. n \notin Low(pass, rank)
      BY <1>1, <1>2, RankIsInt DEF Low
    <3>2. Before(line) = {}
      BY <1>2 DEF Before
    <3> QED BY <3>1, <3>2 DEF DefinedNames
  <2>3. Located(syms, pass, rank, line, pc)
    BY <1>1, <1>2, <2>1, LocRun DEF Located, Sound
  <2> QED BY <2>1, <2>2, <2>3 DEF Settling
<1>5. ErrorInv
  BY <1>2 DEF ErrorInv, RefusedWithReason
<1> QED BY <1>3, <1>4, <1>5 DEF RInv

(* The table has only names that the source defines, in every kind of pass. *)
LEMMA LineMapped ==
  ASSUME source \in Seq(SourceLine), NEW i \in Lines, NEW here, NEW s, Mapped(s)
  PROVE  /\ Mapped(Labelled(source[i], s, here))
         /\ Mapped(Equated(source[i], Labelled(source[i], s, here), here))
<1>1. ASSUME NEW q, Mapped(q), NEW x \in DefinedNames, NEW v PROVE Mapped(sym_set(q, x, v))
  BY <1>1 DEF Mapped, sym_set
<1>2. /\ source[i].label # "" => source[i].label \in DefinedNames
      /\ source[i].op = "EQU" => source[i].name \in DefinedNames
  BY DefinitionsOf
<1> DEFINE t == Labelled(source[i], s, here)
<1>3. Mapped(t)
  BY <1>1, <1>2 DEF Labelled
<1> HIDE DEF t
<1>4. Mapped(Equated(source[i], t, here))
  BY <1>1, <1>2, <1>3 DEF Equated
<1> QED BY <1>3, <1>4 DEF t

LEMMA AssembleLineReasons == IInv /\ TypeInv /\ TypeInv' /\ RInv /\ AssembleLine => RInv'
<1> SUFFICES ASSUME IInv, TypeInv, TypeInv', RInv, AssembleLine PROVE RInv'
  OBVIOUS
<1> DEFINE l == source[line]  t == Labelled(l, syms, pc)  u == Equated(l, t, pc)
<1>1. /\ source \in Seq(SourceLine) /\ line \in Lines /\ line' = line + 1
      /\ pass \in Nat /\ pc \in Int /\ Table(syms) /\ Mapped(syms)
  <2>1. source \in Seq(SourceLine)
    BY Zenon DEF IInv, Shape
  <2>2. line \in Lines
    BY <2>1, LenProperties DEF AssembleLine, TypeInv, TypeOK, Lines
  <2>3. pass \in Nat /\ pc \in Int /\ Table(syms)
    BY LimitAssumption DEF TypeInv, TypeOK, Table
  <2>4. line' = line + 1
    BY DEF AssembleLine, Scan
  <2> QED BY <2>1, <2>2, <2>3, <2>4 DEF RInv
<1>2. /\ phase = "PASS" /\ phase' = phase /\ source' = source /\ pass' = pass
      /\ syms' = u /\ pc' = Advance(l, t, pc)
  BY DEF AssembleLine, Scan
<1>3. changed' = (changed \/ t # syms \/ u # t)
  BY DEF AssembleLine, Scan
<1>4. Mapped(syms')
  BY <1>1, <1>2, LineMapped
<1>5. Table(syms')
  BY DEF TypeInv, TypeOK, Table
<1> HIDE DEF l, t, u
<1>6. SettleInv'
  <2> SUFFICES ASSUME Roomy', NEW rank \in Ranks'
               PROVE  /\ Settling(syms, pass, rank, Before(line), line, pc)'
                      /\ MaxDepth <= pass' => ~changed'
    BY Zenon DEF SettleInv
  <2>1. Roomy /\ rank \in Ranks /\ Count' = Count
    BY <1>2, SourceStays DEF Roomy
  <2>2. /\ Settling(syms, pass, rank, Before(line), line, pc)
        /\ MaxDepth <= pass => ~changed
    BY <1>2, <2>1 DEF RInv, SettleInv
  <2>3. /\ Kept(u) /\ Progress(u, pass, rank, Before(line + 1))
        /\ Located(u, pass, rank, line + 1, Advance(l, t, pc))
        /\ Calm(syms, t, pass) /\ Calm(t, u, pass)
    <3> DEFINE s == syms  p == pass  i == line  h == pc
    <3>1. /\ Settling(s, p, rank, Before(i), i, h) /\ rank \in Ranks /\ p \in Nat
          /\ i \in Lines /\ h \in Int
          /\ t = Labelled(source[i], s, h) /\ u = Equated(source[i], t, h)
      BY <1>1, <2>1, <2>2 DEF l, t, u
    <3> HIDE DEF s, p, i, h
    <3>2. /\ Kept(u) /\ Progress(u, p, rank, Before(i + 1))
          /\ Located(u, p, rank, i + 1, Advance(source[i], t, h))
          /\ Calm(s, t, p) /\ Calm(t, u, p)
      BY <1>1, <2>1, <3>1, LineSettles
    <3> QED BY <3>2 DEF s, p, i, h, l
  <2>4. Settling(syms', pass', rank, Before(line'), line', pc')
    BY <1>1, <1>2, <1>4, <1>5, <2>3 DEF Settling, Sound
  <2>5. MaxDepth <= pass' => ~changed'
    BY <1>2, <1>3, <2>1, <2>2, <2>3 DEF Calm
  <2> QED BY <1>2, <2>4, <2>5, SettlingNext
<1>7. ErrorInv'
  BY <1>2 DEF ErrorInv, RefusedWithReason
<1> QED BY <1>2, <1>4, <1>6, <1>7, SettlingNext DEF RInv

LEMMA EmitLineReasons == IInv /\ TypeInv /\ RInv /\ EmitLine => RInv'
<1> SUFFICES ASSUME IInv, TypeInv, RInv, EmitLine PROVE RInv'
  OBVIOUS
<1> DEFINE l == source[line]
<1>1. /\ line \in Lines /\ pc = at[line] /\ Labelled(l, syms, pc) = syms
      /\ syms' = syms /\ at' = at /\ source' = source
  BY EmitLineQuiet, LenProperties DEF Lines, IInv, Shape
<1>2. /\ phase = "EMIT" /\ phase' = phase /\ source \in Seq(SourceLine) /\ Mapped(syms)
  <2>1. source \in Seq(SourceLine)
    BY Zenon DEF IInv, Shape
  <2> QED BY <2>1 DEF EmitLine, Scan, RInv
<1>3. errors' = (errors \/ Overflows(l, syms, pc) \/ Faulty(l, syms, at[line]))
  BY <1>1 DEF EmitLine
<1>4. Overflows(l, syms, pc) => Count > MaxSyms
  <2>1. ASSUME NEW x \in DefinedNames, Full(syms, x) PROVE Count > MaxSyms
    BY <1>2, <2>1, FullIsTooMany DEF Mapped
  <2>2. /\ l.label # "" => l.label \in DefinedNames
        /\ l.op = "EQU" => l.name \in DefinedNames
    BY <1>1, <1>2, DefinitionsOf
  <2> QED BY <1>1, <2>1, <2>2 DEF Overflows
<1>5. errors' => Count > MaxSyms \/ \E i \in Lines : Faulty(source[i], syms, at[i])
  <2>1. errors => Count > MaxSyms \/ \E i \in Lines : Faulty(source[i], syms, at[i])
    BY <1>2 DEF RInv, ErrorInv
  <2> QED BY <1>1, <1>3, <1>4, <2>1
<1>6. ErrorInv'
  <2>1. Count' = Count /\ Lines' = Lines
    BY <1>1, SourceStays
  <2> QED BY <1>1, <1>2, <1>5, <2>1 DEF ErrorInv, RefusedWithReason
<1>7. Mapped(syms)' /\ SettleInv'
  BY <1>1, <1>2, SettlingNext DEF SettleInv
<1> QED BY <1>6, <1>7 DEF RInv

(* At the end of a pass every name of the next rank is right. *)
LEMMA EndPassReasons == IInv /\ TypeInv /\ RInv /\ EndPass => RInv'
<1> SUFFICES ASSUME IInv, TypeInv, RInv, EndPass PROVE RInv'
  OBVIOUS
<1>1. /\ phase = "PASS" /\ source' = source /\ syms' = syms /\ at' = at /\ file' = file
      /\ changed' = FALSE
      /\ phase' = "PASS" => changed /\ pass' = pass + 1 /\ line' = 1 /\ pc' = 0
      /\ phase' = "DONE" => changed /\ pass + 1 = MaxPasses
      /\ phase' = "EMIT" => errors' = FALSE
      /\ phase' \in {"PASS", "EMIT", "DONE"}
  BY DEF EndPass, Rewind
<1>2. source \in Seq(SourceLine)
  BY Zenon DEF IInv, Shape
<1>3. line = Len(source) + 1 /\ Len(source) \in Nat /\ pass \in Nat
      /\ Table(syms) /\ Mapped(syms)
  BY <1>2, LenProperties, LimitAssumption DEF EndPass, TypeInv, TypeOK, Table, RInv
<1>4. SettleInv'
  <2> SUFFICES ASSUME phase' = "PASS", Roomy', NEW rank \in Ranks'
               PROVE  Settling(syms, pass, rank, Before(line), line, pc)'
    BY <1>1, Zenon DEF SettleInv
  <2>1. Roomy /\ rank \in Ranks
    BY <1>1, SourceStays DEF Roomy
  <2>2. Sound(syms) /\ Kept(syms) /\ Progress(syms, pass, rank, Before(line))
    BY <1>1, <2>1 DEF RInv, SettleInv, Settling
  <2>3. Progress(syms, pass + 1, rank, Before(1))
    <3> SUFFICES ASSUME NEW n \in DefinedNames,
                        n \in Low(pass + 1, rank) \/ Definitions(n) \subseteq Before(1)
                 PROVE  Right(syms, n)
      BY DEF Progress
    <3>1. Before(1) = {} /\ Definitions(n) # {}
      BY DEF Before, DefinedNames
    <3>2. Definitions(n) \subseteq Before(line)
      <4>1. 1 .. line - 1 = Lines
        BY <1>2, <1>3, LenProperties DEF Lines
      <4>2. Before(line) = Lines \X {"label", "equ"}
        BY <4>1, Zenon DEF Before
      <4> QED BY <4>2 DEF Definitions
    <3> QED BY <2>2, <3>1, <3>2 DEF Progress
  <2>4. Located(syms, pass + 1, rank, 1, 0)
    BY <1>2, <1>3, LocRun DEF Located
  <2>5. Settling(syms', pass', rank, Before(line'), line', pc')
    BY <1>1, <2>2, <2>3, <2>4 DEF Settling
  <2> QED BY <1>1, <2>5, SettlingNext
<1>5. phase' = "DONE" => ~WellFounded \/ Count > MaxSyms
  <2> SUFFICES ASSUME changed, pass + 1 = MaxPasses, WellFounded, ~(Count > MaxSyms)
               PROVE  FALSE
    BY <1>1
  <2>1. Count \in Nat /\ MaxSyms \in Nat
    BY <1>2, DefinedFinite, LimitAssumption
  <2>2. Roomy
    BY <2>1 DEF Roomy, Lone, WellFounded
  <2>3. PICK rank : rank \in Ranks
    BY DEF WellFounded, Ranks
  <2>4. ~(MaxDepth <= pass)
    BY <1>1, <2>2, <2>3 DEF RInv, SettleInv
  <2> QED BY <1>3, <2>4, LimitAssumption DEF MaxDepth
<1>6. ErrorInv'
  <2>1. Count' = Count /\ (WellFounded' <=> WellFounded)
    BY <1>1, SourceStays
  <2>2. RefusedWithReason'
    <3>1. phase' = "DONE" => ~WellFounded' \/ Count' > MaxSyms
      BY <1>5, <2>1
    <3> QED BY <3>1 DEF RefusedWithReason, Count
  <2> QED BY <1>1, <2>2 DEF ErrorInv
<1>7. Mapped(syms)'
  BY <1>1, <1>3, SettlingNext
<1> QED BY <1>4, <1>6, <1>7 DEF RInv

(* After the emission: nothing that the reason is about changes. *)
LEMMA LastReasons == IInv /\ RInv /\ (Write \/ Verify \/ UNCHANGED vars) => RInv'
<1> SUFFICES ASSUME IInv, RInv, Write \/ Verify \/ UNCHANGED vars PROVE RInv'
  OBVIOUS
<1>1. UNCHANGED <<source, pass, line, pc, syms, changed, errors, at>>
  BY DEF Write, Verify, vars
<1>2. /\ Count' = Count /\ (WellFounded' <=> WellFounded) /\ Lines' = Lines
      /\ DefinedNames' = DefinedNames /\ Ranks' = Ranks /\ (Roomy' <=> Roomy)
  BY <1>1, SourceStays DEF Roomy
<1>3. Mapped(syms)'
  BY <1>1, <1>2 DEF RInv, Mapped
<1>4. SettleInv'
  <2>1. \A rank : Settling(syms, pass, rank, Before(line), line, pc)'
                  <=> Settling(syms, pass, rank, Before(line), line, pc)
    BY <1>1, SettlingNext
  <2>2. CASE UNCHANGED vars
    <3>1. phase' = phase /\ changed' = changed /\ pass' = pass
      BY <2>2 DEF vars
    <3> QED BY <1>2, <2>1, <3>1 DEF RInv, SettleInv
  <2>3. CASE Write \/ Verify
    <3>1. phase' # "PASS"
      BY <2>3 DEF Write, Verify, Finish
    <3> QED BY <3>1 DEF SettleInv
  <2> QED BY <2>2, <2>3
<1>5. ErrorInv'
  <2>1. CASE Write
    <3>1. /\ phase = "EMIT"
          /\ \/ errors /\ phase' = "DONE"
             \/ phase' = "DONE" /\ exit' = 2
             \/ phase' = "VERIFY" /\ file' = {image}
      BY <2>1 DEF Write, Finish
    <3>2. errors => Count > MaxSyms \/ \E i \in Lines : Faulty(source[i], syms, at[i])
      BY <3>1 DEF RInv, ErrorInv
    <3>3. errors => RefusedWithReason'
      <4>1. errors => Count' > MaxSyms \/ \E i \in Lines' : Faulty(source[i], syms, at[i])'
        BY <1>1, <1>2, <3>2
      <4> QED BY <4>1 DEF RefusedWithReason, Count
    <3>4. RefusedWithReason'
      BY <3>1, <3>3 DEF RefusedWithReason
    <3> QED BY <3>1, <3>4 DEF ErrorInv
  <2>2. CASE Verify
    <3>1. phase = "VERIFY" /\ phase' = "DONE" /\ file' = file
      BY <2>2 DEF Verify, Finish
    <3>2. file # {}
      BY <3>1 DEF RInv, ErrorInv
    <3> QED BY <3>1, <3>2 DEF ErrorInv, RefusedWithReason
  <2>3. CASE UNCHANGED vars
    <3>1. UNCHANGED <<phase, file, exit, errors>>
      BY <2>3 DEF vars
    <3> QED BY <1>1, <1>2, <3>1 DEF RInv, ErrorInv, RefusedWithReason, Count
  <2> QED BY <2>1, <2>2, <2>3
<1> QED BY <1>3, <1>4, <1>5 DEF RInv

(* The assembler refuses a source only for a reason that is in it: an error   *)
(* in a line, a name defined twice or in terms of itself, a chain of names    *)
(* too long for the passes, or more names than the table holds.  Otherwise    *)
(* the symbols settle: sixteen passes are enough for chains of fifteen names, *)
(* in whatever order and however many there are.                              *)
THEOREM RefusalsHaveReasons == Spec => []RefusedWithReason
<1>1. Init => IInv /\ TypeInv /\ RInv
  BY InitInv, InitTypes, InitReasons
<1>2. IInv /\ TypeInv /\ RInv /\ [Next]_vars => (IInv /\ TypeInv /\ RInv)'
  <2> SUFFICES ASSUME IInv, TypeInv, RInv, [Next]_vars PROVE IInv' /\ TypeInv' /\ RInv'
    OBVIOUS
  <2>1. IInv' /\ TypeInv'
    BY StepInv, StepTypes
  <2> QED BY <2>1, AssembleLineReasons, EmitLineReasons, EndPassReasons, LastReasons DEF Next
<1>3. RInv => RefusedWithReason
  BY DEF RInv, ErrorInv
<1> QED BY <1>1, <1>2, <1>3, PTL DEF Spec
=============================================================================
