----------------------------- MODULE UmkcliProofs -----------------------------
(***************************************************************************)
(* Theorems about the command-line debugger, module Umkcli: what every     *)
(* command leaves true of the machine, through files, edits and runs.      *)
(***************************************************************************)
EXTENDS UmkMachineProofs, Umkcli

-----------------------------------------------------------------------------
(* A command leaves the size of RAM and the keys alone, and a request that    *)
(* is waiting still asks for RST 7.                                          *)
Carries(m, n) ==
  /\ Sound(n) /\ DOMAIN n.ram = DOMAIN m.ram /\ n.kbd = m.kbd
  /\ Requests(m) => Requests(n)

(* One that knows nothing of the sequence of machine cycles keeps its place.  *)
Edits(m, n) == Carries(m, n) /\ n.step.mc_index = m.step.mc_index

(* An instruction of the CPU carries. *)
LEMMA OneCarries ==
  ASSUME NEW m, Sound(m), NEW n, Sound(n), One(m, n)
  PROVE  Carries(m, n) /\ n.rom = m.rom
<1> DEFINE d == exec_one(m)
<1>1. Executes(m, d)
  BY ExecSound
<1>2. n.ram = d.ram /\ n.cpu = d.cpu /\ n.kbd = m.kbd /\ n.rom = m.rom
  BY DEF One
<1> HIDE DEF d
<1>3. DOMAIN d.ram = DOMAIN m.ram
  BY <1>1 DEF Executes, Journaled
<1>4. Requests(m) => Requests(n)
  BY <1>1, <1>2, ExecRequests DEF Requests
<1> QED BY <1>2, <1>3, <1>4 DEF Carries

(* So does a call that executes nothing. *)
LEMMA NothingCarries ==
  ASSUME NEW m, NEW n, Sound(n), Nothing(m, n)
  PROVE  Carries(m, n) /\ n.rom = m.rom
BY DEF Carries, Nothing, Requests

(* `step`, `cycle` and `shg`. *)
LEMMA StepsCarry ==
  ASSUME NEW m, Sound(m),
         NEW n \in {umk_step_instruction(m), umk_step_machine_cycle(m), umk_press_step(m)}
  PROVE  Carries(m, n) /\ n.rom = m.rom /\ (Nothing(m, n) \/ One(m, n))
<1>1. CASE n = umk_step_instruction(m)
  BY <1>1, InstructionSound, InstructionOne, OneCarries
<1>2. CASE n = umk_step_machine_cycle(m)
  BY <1>2, CycleSound, CycleAllOrNothing, OneCarries, NothingCarries
<1>3. CASE n = umk_press_step(m)
  BY <1>3, PressSound, PressAllOrNothing, OneCarries, NothingCarries
<1> QED BY <1>1, <1>2, <1>3

(* `int` changes the request only. *)
LEMMA InterruptCarries ==
  ASSUME NEW m, Sound(m), NEW n, n = umk_interrupt(m)
  PROVE  Edits(m, n) /\ n.rom = m.rom
<1>1. m \in Machines /\ Sound(n)
  BY InterruptSound DEF Sound
<1>2. n.rom = m.rom /\ n.ram = m.ram /\ n.step = m.step /\ n.kbd = m.kbd
  BY <1>1, Requested
<1>3. Requests(n)
  <2>1. n.cpu.int_vector = RequestVector
    BY <1>1, Requested
  <2> QED BY <2>1 DEF Requests
<1> QED BY <1>1, <1>2, <1>3 DEF Edits, Carries

-----------------------------------------------------------------------------
(* A run of the machine, as `key` asks for, or nothing with РБ/ШГ latched. *)
LEMMA RunEdits ==
  ASSUME NEW m, Sound(m), NEW c \in Nat, NEW n, n = umk_run_cycles(m, c)
  PROVE  /\ Edits(m, n) /\ n.rom = m.rom /\ n.step.latch_step = m.step.latch_step
         /\ m.step.latch_step => n = m
<1>1. CASE m.step.latch_step
  <2>1. n = m
    BY <1>1 DEF umk_run_cycles
  <2> QED BY <1>1, <2>1 DEF Edits, Carries
<1>2. CASE ~m.step.latch_step
  <2> DEFINE Same(p) == /\ Edits(m, p) /\ p.rom = m.rom
                        /\ p.step.latch_step = m.step.latch_step
             S == {p \in Machines : Same(p)}
             r == Turns(m, c)[c]
  <2>1. n = panel_update(r)
    BY <1>2 DEF umk_run_cycles
  <2>2. m \in S
    BY DEF Edits, Carries, Sound
  <2>3. ASSUME NEW p \in S
        PROVE  Turn(m, c, p) \in S
    <3> DEFINE d == exec_one(p)
    <3>1. p \in Machines /\ Edits(m, p) /\ p.rom = m.rom /\ Sound(p)
          /\ p.step.latch_step = m.step.latch_step
      BY DEF Edits, Carries
    <3>2. Sound(d) /\ Executes(p, d)
      BY <3>1, ExecSound
    <3>3. Turn(m, c, p) = d \/ Turn(m, c, p) = p
      BY DEF Turn
    <3> HIDE DEF d
    <3>4. /\ DOMAIN d.ram = DOMAIN p.ram /\ d.kbd = p.kbd /\ d.rom = p.rom
          /\ d.step.mc_index = p.step.mc_index /\ d.step.latch_step = p.step.latch_step
          /\ d \in Machines
      BY <3>2 DEF Executes, Journaled
    <3>5. Requests(p) => Requests(d)
      BY <3>2, ExecRequests
    <3>6. d \in S
      BY <3>1, <3>2, <3>4, <3>5 DEF Edits, Carries
    <3> QED BY <3>3, <3>6
  <2>4. r \in S
    <3>1. \A p \in S : Turn(m, c, p) \in S
      BY <2>3
    <3> HIDE DEF S
    <3> QED BY <2>2, <3>1, TurnsIn
  <2>5. r \in Machines /\ Same(r)
    BY <2>4
  <2> HIDE DEF r, S
  <2>6. OnlyPanel(r, n)
    BY <2>1, <2>5, PanelUpdated
  <2>7. Sound(n)
    BY <2>5, <2>6, PanelSound DEF Edits, Carries
  <2>8. Requests(r) => Requests(n)
    BY <2>6 DEF OnlyPanel, Requests
  <2>9. Edits(m, n) /\ n.rom = m.rom /\ n.step.latch_step = m.step.latch_step
    BY <2>5, <2>6, <2>7, <2>8 DEF Edits, Carries, OnlyPanel
  <2> QED BY <1>2, <2>9
<1> QED BY <1>1, <1>2

(* Pressing a key, or letting go of it, changes nothing else. *)
OnlyKey(m, n) ==
  /\ Sound(n) /\ n.step = m.step /\ n.cpu = m.cpu /\ n.rom = m.rom /\ n.ram = m.ram

LEMMA KeySets ==
  ASSUME NEW m, Sound(m), NEW k \in Keys, NEW down \in BOOLEAN, NEW n, n = umk_set_key(m, k, down)
  PROVE  OnlyKey(m, n)
BY KeySound DEF OnlyKey

LEMMA KeyDown ==
  ASSUME NEW m, Sound(m), m.kbd = {}, NEW k \in Keys, NEW n, n = umk_set_key(m, k, TRUE)
  PROVE  OnlyKey(m, n) /\ n.kbd = {k}
<1>1. TRUE \in BOOLEAN /\ m \in Machines
  BY DEF Sound
<1>2. n.kbd = m.kbd \cup {k}
  BY <1>1 DEF umk_set_key, Machines
<1> QED BY <1>1, <1>2, KeySets

LEMMA KeyUp ==
  ASSUME NEW m, Sound(m), NEW k \in Keys, m.kbd = {k}, NEW n, n = umk_set_key(m, k, FALSE)
  PROVE  OnlyKey(m, n) /\ n.kbd = {}
<1>1. FALSE \in BOOLEAN /\ m \in Machines
  BY DEF Sound
<1>2. n.kbd = m.kbd \ {k}
  BY <1>1 DEF umk_set_key, Machines
<1> QED BY <1>1, <1>2, KeySets

(* The machine after each instruction, by the recursion of Typed. *)
LEMMA TypedSteps ==
  ASSUME NEW b, NEW ks, NEW m, m = [b EXCEPT !.kbd = ks], Sound(m)
  PROVE  LET q == Typed(b, ks)  c == (KEY_HOLD + 3) \div 4
         IN  /\ c \in Nat /\ 4 * c >= KEY_HOLD /\ q[0] = m
             /\ \A i \in 0 .. c : Sound(q[i])
             /\ \A i \in 1 .. c : q[i] = exec_one(q[i - 1])
<1> DEFINE q == Typed(b, ks)
           c == (KEY_HOLD + 3) \div 4
           S == {p \in Machines : Sound(p)}
           G == [i \in 1 .. c |-> [p \in S |-> exec_one(p)]]
           IsRun(f) == f = [i \in 0 .. c |-> IF i = 0 THEN m ELSE exec_one(f[i - 1])]
           W == {i \in 0 .. c : q[i] \in S}
<1>1. c \in Nat /\ 4 * c >= KEY_HOLD
  <2>1. KEY_HOLD \in Nat
    BY CliAssumption
  <2> QED BY <2>1
<1>2. q = CHOOSE f : IsRun(f)
  BY DEF Typed
<1> HIDE DEF c, q
<1>3. m \in S /\ \A p \in S : exec_one(p) \in S
  BY ExecSound DEF Sound
<1> HIDE DEF S
<1>4. \E f : IsRun(f)
  <2>1. G \in [1 .. c -> [S -> S]] /\ \A i \in 1 .. c, p \in S : G[i][p] = exec_one(p)
    BY <1>3
  <2> HIDE DEF G
  <2>2. PICK f \in [0 .. c -> S] : Iterates(f, m, c, G)
    BY <1>1, <1>3, <2>1, Iterated
  <2>3. \A i \in 0 .. c : i # 0 => i \in 1 .. c /\ f[i - 1] \in S
    BY <1>1
  <2>4. IsRun(f)
    BY <2>1, <2>2, <2>3 DEF Iterates
  <2> QED BY <2>4
<1> HIDE DEF IsRun
<1>5. IsRun(q)
  BY <1>2, <1>4
<1>6. q[0] = m /\ \A i \in 1 .. c : q[i] = exec_one(q[i - 1])
  BY <1>1, <1>5 DEF IsRun
<1>7. 0 \in W /\ \A i \in 1 .. c : i - 1 \in W => i \in W
  BY <1>1, <1>3, <1>6
<1> HIDE DEF W
<1>8. \A i \in 0 .. c : i \in W
  BY <1>1, <1>7, Upwards
<1>9. \A i \in 0 .. c : Sound(q[i])
  BY <1>8 DEF W, S
<1> QED BY <1>1, <1>6, <1>9 DEF q, c

(* A run with the keys ks down holds them for KEY_HOLD and the rest of an      *)
(* instruction.                                                              *)
LEMMA RunHeld ==
  ASSUME NEW b, NEW ks, NEW m, m = [b EXCEPT !.kbd = ks], m.cpu = b.cpu, Sound(m),
         ~m.step.latch_step, NEW n, n = umk_run_cycles(m, KEY_HOLD)
  PROVE  n \in Held(b, ks)
<1> DEFINE q == Typed(b, ks)  t == Turns(m, KEY_HOLD)  c == (KEY_HOLD + 3) \div 4
           start == m.cpu.cycles  Time(i) == q[i].cpu.cycles
           S == {p \in Machines : Sound(p)}
<1>1. KEY_HOLD \in Nat /\ KEY_HOLD > 0
  BY CliAssumption
<1>2. /\ c \in Nat /\ 4 * c >= KEY_HOLD /\ q[0] = m
      /\ \A i \in 0 .. c : Sound(q[i])
      /\ \A i \in 1 .. c : q[i] = exec_one(q[i - 1])
  BY TypedSteps
<1>3. ASSUME NEW p, Sound(p)
      PROVE  /\ exec_one(p) \in S /\ p \in S
             /\ p.cpu.cycles \in Nat /\ exec_one(p).cpu.cycles \in Nat
             /\ exec_one(p).cpu.cycles >= p.cpu.cycles + 4
  <2> DEFINE d == exec_one(p)
  <2>1. Sound(d) /\ Executes(p, d)
    BY <1>3, ExecSound
  <2>2. p \in Machines /\ d \in Machines
    BY <1>3, <2>1 DEF Sound
  <2> HIDE DEF d
  <2>3. p.cpu.cycles \in Nat /\ d.cpu.cycles \in Nat
    BY <2>2, Fields, CpuFields
  <2>4. d.cpu.cycles >= p.cpu.cycles + 4
    BY <2>1, <2>3 DEF Executes
  <2> QED BY <1>3, <2>1, <2>2, <2>3, <2>4 DEF d
<1>4. t[0] = m /\ \A k \in 1 .. KEY_HOLD : t[k] = Turn(m, KEY_HOLD, t[k - 1])
  <2>1. m \in S /\ \A p \in S : Turn(m, KEY_HOLD, p) \in S
    BY <1>3 DEF Turn
  <2> HIDE DEF S
  <2> QED BY <1>1, <2>1, TurnsIn
<1>5. n = panel_update(t[KEY_HOLD])
  BY DEF umk_run_cycles
<1>6. start \in Nat /\ b.cpu.cycles = start
  BY <1>3
<1> HIDE DEF q, t, c, S
<1>7. \A i \in 0 .. c : Time(i) \in Nat
  BY <1>2, <1>3
<1>8. \A i \in 0 .. c : Time(i) >= start + 4 * i
  <2> DEFINE W == {i \in 0 .. c : Time(i) >= start + 4 * i}
  <2>1. 0 \in W
    <3>1. Time(0) = start /\ 0 \in 0 .. c
      BY <1>2
    <3> HIDE DEF Time, start
    <3>2. Time(0) >= start + 4 * 0
      BY <1>6, <3>1
    <3> QED BY <3>1, <3>2
  <2>2. ASSUME NEW i \in 1 .. c, i - 1 \in W
        PROVE  i \in W
    <3>1. i - 1 \in 0 .. c /\ i \in 0 .. c /\ Time(i - 1) >= start + 4 * (i - 1)
      BY <1>2, <2>2
    <3>2. Time(i) >= Time(i - 1) + 4
      BY <1>2, <1>3, <3>1
    <3>3. Time(i) \in Nat /\ Time(i - 1) \in Nat
      BY <1>7, <3>1
    <3> HIDE DEF Time, start
    <3>4. Time(i) >= start + 4 * i
      BY <1>6, <3>1, <3>2, <3>3
    <3> QED BY <3>1, <3>4
  <2> HIDE DEF W
  <2>3. \A i \in 0 .. c : i \in W
    BY <1>2, <2>1, <2>2, Upwards
  <2> QED BY <2>3 DEF W
<1> DEFINE Reached == {i \in 0 .. c : Time(i) >= start + KEY_HOLD}
<1>9. PICK i \in Reached : \A j \in Reached : i <= j
  <2>1. c \in Reached
    <3>1. c \in 0 .. c
      BY <1>2
    <3>2. Time(c) >= start + 4 * c /\ Time(c) \in Nat
      BY <1>7, <1>8, <3>1
    <3> HIDE DEF Time, start
    <3>3. Time(c) >= start + KEY_HOLD
      BY <1>1, <1>2, <1>6, <3>2
    <3> QED BY <3>1, <3>3
  <2>2. Reached \subseteq Nat /\ Reached # {}
    BY <2>1
  <2> HIDE DEF Reached
  <2> QED BY <2>2, Least
<1>10. /\ i \in 1 .. c /\ Time(i) >= start + KEY_HOLD
       /\ \A j \in 0 .. i - 1 : Time(j) < start + KEY_HOLD
  <2>1. i \in 0 .. c /\ Time(i) >= start + KEY_HOLD
    BY <1>9
  <2>2. i # 0
    <3>1. Time(0) = start
      BY <1>2
    <3> HIDE DEF Time, start
    <3> QED BY <1>1, <1>6, <2>1, <3>1
  <2>3. ASSUME NEW j \in 0 .. i - 1
        PROVE  Time(j) < start + KEY_HOLD
    <3>1. j \in 0 .. c /\ ~(i <= j)
      BY <1>2, <2>1
    <3>2. j \notin Reached
      BY <1>9, <3>1
    <3>3. ~(Time(j) >= start + KEY_HOLD) /\ Time(j) \in Nat
      BY <1>7, <3>1, <3>2
    <3> HIDE DEF Time, start
    <3> QED BY <1>1, <1>6, <3>3
  <2> QED BY <1>2, <2>1, <2>2, <2>3
<1> HIDE DEF Reached
<1>11. i <= KEY_HOLD
  <2>1. i - 1 \in 0 .. c /\ i - 1 \in 0 .. i - 1 /\ i \in Nat
    BY <1>2, <1>10
  <2>2. Time(i - 1) >= start + 4 * (i - 1) /\ Time(i - 1) < start + KEY_HOLD
    BY <1>8, <1>10, <2>1
  <2>3. Time(i - 1) \in Nat
    BY <1>7, <2>1
  <2> HIDE DEF Time, start
  <2> QED BY <1>1, <1>6, <2>1, <2>2, <2>3
<1>12. t[KEY_HOLD] = q[i]
  <2> DEFINE Place(j) == IF j <= i THEN j ELSE i
             W == {j \in 0 .. KEY_HOLD : t[j] = q[Place(j)]}
  <2>1. 0 \in W
    BY <1>1, <1>2, <1>4, <1>10
  <2>2. ASSUME NEW j \in 1 .. KEY_HOLD, j - 1 \in W
        PROVE  j \in W
    <3>1. t[j] = Turn(m, KEY_HOLD, t[j - 1]) /\ t[j - 1] = q[Place(j - 1)]
      BY <1>4, <2>2
    <3>2. CASE j <= i
      <4>1. Place(j) = j /\ Place(j - 1) = j - 1 /\ j \in 1 .. c /\ j - 1 \in 0 .. c
            /\ j - 1 \in 0 .. i - 1
        BY <1>2, <1>10, <3>2
      <4>2. Time(j - 1) < start + KEY_HOLD /\ Time(j - 1) \in Nat
        BY <1>7, <1>10, <4>1
      <4>3. Time(j - 1) - start < KEY_HOLD
        <5> HIDE DEF Time, start
        <5> QED BY <1>1, <1>6, <4>2
      <4>4. t[j] = exec_one(q[j - 1])
        BY <3>1, <4>1, <4>3 DEF Turn
      <4>5. t[j] = q[j]
        BY <1>2, <4>1, <4>4
      <4> QED BY <4>1, <4>5
    <3>3. CASE ~(j <= i)
      <4>1. Place(j) = i /\ Place(j - 1) = i /\ i \in 0 .. c
        BY <1>2, <1>10, <3>3
      <4>2. Time(i) >= start + KEY_HOLD /\ Time(i) \in Nat
        BY <1>7, <1>10, <4>1
      <4>3. ~(Time(i) - start < KEY_HOLD)
        <5> HIDE DEF Time, start
        <5> QED BY <1>1, <1>6, <4>2
      <4>4. t[j] = q[i]
        BY <3>1, <4>1, <4>3 DEF Turn
      <4> QED BY <4>1, <4>4
    <3> QED BY <3>2, <3>3
  <2> HIDE DEF W, Place
  <2>3. \A j \in 0 .. KEY_HOLD : j \in W
    BY <1>1, <2>1, <2>2, Upwards
  <2>4. KEY_HOLD \in 0 .. KEY_HOLD
    BY <1>1
  <2>5. Place(KEY_HOLD) = i
    BY <1>1, <1>2, <1>10, <1>11 DEF Place
  <2> QED BY <2>3, <2>4, <2>5 DEF W
<1>13. i - 1 \in 0 .. i - 1
  BY <1>2, <1>10
<1> QED BY <1>5, <1>6, <1>10, <1>12, <1>13 DEF Held, q, c

(* A key is pressed and let go of, each for KEY_HOLD, or nothing changes. *)
LEMMA KeyEdits ==
  ASSUME NEW m, Sound(m), m.kbd = {}, NEW k \in Keys, NEW n, n = press_key(m, k)
  PROVE  /\ Edits(m, n) /\ n.rom = m.rom
         /\ IF m.step.latch_step THEN n = m
            ELSE \E h \in Held(m, {k}) : n \in Held(h, {})
<1> DEFINE p == umk_set_key(m, k, TRUE)
           q == umk_run_cycles(p, KEY_HOLD)
           r == umk_set_key(q, k, FALSE)
<1>0. KEY_HOLD \in Nat /\ m \in Machines
  BY CliAssumption DEF Sound
<1>1. n = umk_run_cycles(r, KEY_HOLD)
  BY DEF press_key, press_key_Held
<1>2. OnlyKey(m, p) /\ p.kbd = {k} /\ p = [m EXCEPT !.kbd = {k}]
  <2>1. OnlyKey(m, p) /\ p.kbd = {k}
    BY KeyDown
  <2>2. m.kbd \cup {k} = {k}
    OBVIOUS
  <2> QED BY <1>0, <2>1, <2>2 DEF umk_set_key
<1> HIDE DEF p
<1>3. /\ Edits(p, q) /\ q.rom = p.rom /\ q.step.latch_step = p.step.latch_step
      /\ p.step.latch_step => q = p
  <2>1. Sound(p)
    BY <1>2 DEF OnlyKey
  <2> QED BY <1>0, <2>1, RunEdits
<1> HIDE DEF q
<1>4. Sound(q) /\ q.kbd = {k}
  BY <1>2, <1>3 DEF Edits, Carries
<1>5. OnlyKey(q, r) /\ r.kbd = {} /\ r = [q EXCEPT !.kbd = {}]
  <2>1. OnlyKey(q, r) /\ r.kbd = {}
    BY <1>4, KeyUp
  <2>2. q.kbd \ {k} = {}
    BY <1>4
  <2> QED BY <2>1, <2>2 DEF umk_set_key
<1> HIDE DEF r
<1>6. /\ Edits(r, n) /\ n.rom = r.rom /\ n.step.latch_step = r.step.latch_step
      /\ r.step.latch_step => n = r
  <2>1. Sound(r)
    BY <1>5 DEF OnlyKey
  <2> QED BY <1>0, <1>1, <2>1, RunEdits
<1>7. Edits(m, n) /\ n.rom = m.rom
  <2>1. Requests(m) => Requests(p)
    BY <1>2 DEF OnlyKey, Requests
  <2>2. Requests(q) => Requests(r)
    BY <1>5 DEF OnlyKey, Requests
  <2> QED BY <1>2, <1>3, <1>5, <1>6, <2>1, <2>2 DEF OnlyKey, Edits, Carries
<1>8. CASE m.step.latch_step
  <2>1. q = p /\ n = r
    BY <1>2, <1>3, <1>5, <1>6, <1>8 DEF OnlyKey
  <2>2. n = [m EXCEPT !.kbd = m.kbd]
    BY <1>0, <1>2, <1>5, <2>1 DEF Machines
  <2>3. n = m
    BY <1>0, <2>2 DEF Machines
  <2> QED BY <1>7, <1>8, <2>3
<1>9. CASE ~m.step.latch_step
  <2>1. q \in Held(m, {k})
    <3>1. p.cpu = m.cpu /\ Sound(p) /\ ~p.step.latch_step
      BY <1>2, <1>9 DEF OnlyKey
    <3>2. q = umk_run_cycles(p, KEY_HOLD)
      BY DEF q
    <3> QED BY <1>2, <3>1, <3>2, RunHeld
  <2>2. n \in Held(q, {})
    <3>1. r.cpu = q.cpu /\ Sound(r) /\ ~r.step.latch_step
      BY <1>2, <1>3, <1>5, <1>9 DEF OnlyKey
    <3> QED BY <1>1, <1>5, <3>1, RunHeld
  <2> QED BY <1>7, <1>9, <2>1, <2>2
<1> QED BY <1>8, <1>9

-----------------------------------------------------------------------------
(* Bytes written behind the machine's back: nothing else moves.              *)
Writes(m, n) == Edits(m, n) /\ n.rom = m.rom /\ n.cpu = m.cpu

LEMMA PokeWrites ==
  ASSUME NEW m, Sound(m), NEW addr \in Address, NEW val \in Byte, NEW n, n = umk_poke(m, addr, val)
  PROVE  Writes(m, n)
<1>0. m \in Machines /\ m.trial = NoTrial /\ m.trial \in Trials
  BY Fields DEF Sound
<1>1. /\ n \in Machines /\ n.rom = m.rom /\ n.cpu = m.cpu /\ n.step = m.step
      /\ n.integrated_to = m.integrated_to /\ n.kbd = m.kbd
      /\ n.trial.on = m.trial.on
      /\ Journaled(m.trial.on, m.ram, m.trial.log, n.ram, n.trial.log, 1)
  BY <1>0, Poked
<1>2. n.trial = NoTrial
  <2>1. m.trial.on = FALSE /\ m.trial.log = << >>
    BY <1>0 DEF NoTrial
  <2>2. n.trial.on = FALSE /\ n.trial.log = << >> /\ n.trial \in Trials
    BY <1>1, <2>1, Fields DEF Journaled
  <2> QED BY <2>2, TrialOff
<1>3. Sound(n)
  BY <1>1, <1>2 DEF Sound
<1>4. DOMAIN n.ram = DOMAIN m.ram
  BY <1>1 DEF Journaled
<1>5. Requests(m) => Requests(n)
  BY <1>1 DEF Requests
<1> QED BY <1>1, <1>3, <1>4, <1>5 DEF Writes, Edits, Carries

LEMMA WritesThen ==
  ASSUME NEW m, NEW n, NEW p, Writes(m, n), Writes(n, p)
  PROVE  Writes(m, p)
BY DEF Writes, Edits, Carries

LEMMA WritesNone ==
  ASSUME NEW m, Sound(m)
  PROVE  Writes(m, m)
BY DEF Writes, Edits, Carries

(* Loading data into RAM pokes its bytes one after another. *)
LEMMA LoadSteps ==
  ASSUME NEW m, Sound(m), NEW addr \in Nat, NEW data \in Seq(Byte)
  PROVE  /\ Loaded(m, addr, data)[0] = m
         /\ \A i \in 0 .. Len(data) : Writes(m, Loaded(m, addr, data)[i])
         /\ \A i \in 1 .. Len(data) :
              Loaded(m, addr, data)[i] =
                umk_poke(Loaded(m, addr, data)[i - 1], Word(addr + i - 1), data[i])
<1> DEFINE c == Len(data)
           S == {p \in Machines : Writes(m, p)}
           Put(p, i) == umk_poke(p, Word(addr + i - 1), data[i])
           G == [i \in 1 .. c |-> [p \in S |-> Put(p, i)]]
           IsRun(f) == f = [i \in 0 .. c |-> IF i = 0 THEN m ELSE Put(f[i - 1], i)]
           t == Loaded(m, addr, data)
           W == {i \in 0 .. c : t[i] \in S}
<1>1. c \in Nat /\ m \in S
  BY WritesNone, LenProperties DEF Sound
<1>2. ASSUME NEW i \in 1 .. c, NEW p \in S
      PROVE  Put(p, i) \in S
  <2>1. Writes(m, p) /\ Sound(p)
    BY DEF Writes, Edits, Carries
  <2>2. Word(addr + i - 1) \in Address /\ data[i] \in Byte
    BY <1>1, WordType, ElementOfSeq
  <2>3. Writes(p, Put(p, i))
    BY <2>1, <2>2, PokeWrites
  <2>4. Writes(m, Put(p, i))
    BY <2>1, <2>3, WritesThen
  <2> QED BY <2>4 DEF Writes, Edits, Carries, Sound
<1> HIDE DEF S, Put, c
<1>3. \E f : IsRun(f)
  <2>1. G \in [1 .. c -> [S -> S]] /\ \A i \in 1 .. c, p \in S : G[i][p] = Put(p, i)
    BY <1>2
  <2> HIDE DEF G
  <2>2. PICK f \in [0 .. c -> S] : Iterates(f, m, c, G)
    BY <1>1, <2>1, Iterated
  <2>3. \A i \in 0 .. c : i # 0 => i \in 1 .. c /\ f[i - 1] \in S
    BY <1>1
  <2>4. IsRun(f)
    BY <2>1, <2>2, <2>3 DEF Iterates
  <2> QED BY <2>4
<1>4. t = CHOOSE f : IsRun(f)
  BY DEF Loaded, Put, c
<1> HIDE DEF IsRun, t
<1>5. IsRun(t)
  BY <1>3, <1>4
<1>6. t[0] = m /\ \A i \in 1 .. c : t[i] = Put(t[i - 1], i)
  BY <1>1, <1>5 DEF IsRun
<1>7. 0 \in W /\ \A i \in 1 .. c : i - 1 \in W => i \in W
  BY <1>1, <1>2, <1>6
<1> HIDE DEF W
<1>8. \A i \in 0 .. c : i \in W
  BY <1>1, <1>7, Upwards
<1>9. \A i \in 0 .. c : Writes(m, t[i])
  BY <1>8 DEF W, S
<1> QED BY <1>6, <1>9 DEF t, c, Put

LEMMA LoadWrites ==
  ASSUME NEW m, Sound(m), NEW addr \in Nat, NEW data \in Seq(Byte),
         NEW n, n = umk_load_ram(m, addr, data)
  PROVE  Writes(m, n)
BY LoadSteps, LenProperties DEF umk_load_ram

(* Records of an Intel HEX file, up to the bad one, are such writes. *)
LEMMA RecordWrites ==
  ASSUME NEW m, Sound(m), NEW r \in Record, NEW n, n = LoadRecord(m, r)
  PROVE  Writes(m, n)
<1>1. r.addr \in Nat /\ r.data \in Seq(Byte)
  BY DEF Record
<1> QED BY <1>1, LoadWrites, WritesNone DEF LoadRecord

LEMMA RecordSteps ==
  ASSUME NEW m, Sound(m), NEW file \in Seq(Record)
  PROVE  /\ Records(m, file)[0] = m
         /\ \A i \in 0 .. Len(file) : Writes(m, Records(m, file)[i])
         /\ \A i \in 1 .. Len(file) :
              Records(m, file)[i] = LoadRecord(Records(m, file)[i - 1], file[i])
<1> DEFINE c == Len(file)
           S == {p \in Machines : Writes(m, p)}
           Put(p, i) == LoadRecord(p, file[i])
           G == [i \in 1 .. c |-> [p \in S |-> Put(p, i)]]
           IsRun(f) == f = [i \in 0 .. c |-> IF i = 0 THEN m ELSE Put(f[i - 1], i)]
           t == Records(m, file)
           W == {i \in 0 .. c : t[i] \in S}
<1>1. c \in Nat /\ m \in S
  BY WritesNone, LenProperties DEF Sound
<1>2. ASSUME NEW i \in 1 .. c, NEW p \in S
      PROVE  Put(p, i) \in S
  <2>1. Writes(m, p) /\ Sound(p) /\ file[i] \in Record
    BY ElementOfSeq DEF Writes, Edits, Carries
  <2>2. Writes(p, Put(p, i))
    BY <2>1, RecordWrites
  <2>3. Writes(m, Put(p, i))
    BY <2>1, <2>2, WritesThen
  <2> QED BY <2>3 DEF Writes, Edits, Carries, Sound
<1> HIDE DEF S, Put, c
<1>3. \E f : IsRun(f)
  <2>1. G \in [1 .. c -> [S -> S]] /\ \A i \in 1 .. c, p \in S : G[i][p] = Put(p, i)
    BY <1>2
  <2> HIDE DEF G
  <2>2. PICK f \in [0 .. c -> S] : Iterates(f, m, c, G)
    BY <1>1, <2>1, Iterated
  <2>3. \A i \in 0 .. c : i # 0 => i \in 1 .. c /\ f[i - 1] \in S
    BY <1>1
  <2>4. IsRun(f)
    BY <2>1, <2>2, <2>3 DEF Iterates
  <2> QED BY <2>4
<1>4. t = CHOOSE f : IsRun(f)
  BY DEF Records, Put, c
<1> HIDE DEF IsRun, t
<1>5. IsRun(t)
  BY <1>3, <1>4
<1>6. t[0] = m /\ \A i \in 1 .. c : t[i] = Put(t[i - 1], i)
  BY <1>1, <1>5 DEF IsRun
<1>7. 0 \in W /\ \A i \in 1 .. c : i - 1 \in W => i \in W
  BY <1>1, <1>2, <1>6
<1> HIDE DEF W
<1>8. \A i \in 0 .. c : i \in W
  BY <1>1, <1>7, Upwards
<1>9. \A i \in 0 .. c : Writes(m, t[i])
  BY <1>8 DEF W, S
<1> QED BY <1>6, <1>9 DEF t, c, Put

LEMMA UptoIs ==
  ASSUME NEW file \in Seq(Record)
  PROVE  /\ Upto(file) \in Seq(Record)
         /\ Len(Upto(file)) \in 0 .. Len(file)
         /\ \A i \in 1 .. Len(Upto(file)) : Upto(file)[i] = file[i]
         /\ ReadRecords(file) = 1 .. Len(Upto(file))
<1> DEFINE l == Len(file)
           bad == {i \in DOMAIN file : ~file[i].sum_ok}
           k == IF bad = {} THEN Len(file) ELSE CHOOSE i \in bad : \A j \in bad : i <= j
<1>1. DOMAIN file = 1 .. l /\ l \in Nat /\ bad \subseteq 1 .. l
  BY LenProperties
<1>2. k \in 0 .. l /\ (bad = {} => k = l) /\ (bad # {} => k \in bad /\ \A j \in bad : k <= j)
  <2>1. CASE bad = {}
    BY <1>1, <2>1
  <2>2. CASE bad # {}
    <3>1. bad \subseteq Nat
      BY <1>1
    <3>2. \E i \in bad : \A j \in bad : i <= j
      BY <2>2, <3>1, Least
    <3>3. k \in bad /\ \A j \in bad : k <= j
      BY <2>2, <3>2
    <3>4. k \in 1 .. l
      BY <1>1, <3>3
    <3> HIDE DEF k, bad, l
    <3>5. k \in 0 .. l
      BY <1>1, <3>4
    <3> QED BY <2>2, <3>3, <3>5
  <2> QED BY <2>1, <2>2
<1>3. Upto(file) = SubSeq(file, 1, k)
  BY DEF Upto
<1>4. \A i \in 1 .. l : i \in bad <=> ~file[i].sum_ok
  BY <1>1
<1>5. ReadRecords(file) = {n \in 1 .. l : \A i \in 1 .. n - 1 : file[i].sum_ok}
  BY DEF ReadRecords
<1> HIDE DEF k, bad, l
<1>6. \A i \in 1 .. k : i \in 1 .. l
  BY <1>1, <1>2
<1>7. SubSeq(file, 1, k) = [i \in 1 .. k |-> file[i]]
  <2>1. k \in 0 .. Len(file) /\ Len(file) \in Nat /\ DOMAIN file = 1 .. Len(file)
    BY <1>1, <1>2 DEF l
  <2> QED BY <2>1
<1>8. k \in Nat /\ [i \in 1 .. k |-> file[i]] \in [1 .. k -> Record]
  <2>1. \A i \in 1 .. l : file[i] \in Record
    BY ElementOfSeq DEF l
  <2> QED BY <1>1, <1>2, <1>6, <2>1
<1>9. Upto(file) \in Seq(Record) /\ Upto(file) \in [1 .. k -> Record]
  BY <1>3, <1>7, <1>8, SeqDef
<1>10. Len(Upto(file)) = k
  BY <1>8, <1>9, LenProperties
<1>11. ReadRecords(file) = 1 .. k
  <2>1. ASSUME NEW n \in 1 .. l, \A i \in 1 .. n - 1 : file[i].sum_ok
        PROVE  n <= k
    <3>1. SUFFICES ASSUME n > k PROVE FALSE
      BY <1>1, <1>2
    <3>2. bad # {} /\ k \in bad
      BY <1>1, <1>2, <3>1
    <3>3. k \in 1 .. n - 1 /\ k \in 1 .. l
      BY <1>1, <1>2, <3>1, <3>2
    <3> QED BY <1>4, <2>1, <3>2, <3>3
  <2>2. ASSUME NEW n \in 1 .. k, NEW i \in 1 .. n - 1
        PROVE  file[i].sum_ok
    <3>1. i \in 1 .. l /\ i < k
      BY <1>1, <1>2
    <3>2. i \notin bad
      BY <1>1, <1>2, <3>1
    <3> QED BY <1>4, <3>1, <3>2
  <2>3. \A n \in 1 .. k : n \in 1 .. l
    BY <1>1, <1>2
  <2>4. \A n \in 1 .. l : n <= k => n \in 1 .. k
    BY <1>1, <1>2
  <2> QED BY <1>5, <2>1, <2>2, <2>3, <2>4
<1> QED BY <1>2, <1>3, <1>7, <1>9, <1>10, <1>11 DEF l

LEMMA HexWrites ==
  ASSUME NEW m, Sound(m), NEW file \in Seq(Record), NEW n, n = load_hex(m, file)
  PROVE  Writes(m, n)
<1>1. Upto(file) \in Seq(Record) /\ Len(Upto(file)) \in Nat
  BY UptoIs, LenProperties
<1> QED BY <1>1, RecordSteps DEF load_hex

-----------------------------------------------------------------------------
(* `reg` and `go`: interrupt control, the clock and the trace of the CPU are  *)
(* as before.                                                                *)
SameLogic(c, d) ==
  /\ c \in Cpus /\ d \in Cpus /\ d.cycles = c.cycles /\ d.mc = c.mc
  /\ d.int_pending = c.int_pending /\ d.int_vector = c.int_vector
  /\ d.inte = c.inte /\ d.halted = c.halted /\ d.int_delay = c.int_delay

Reassigns(m, n) == Edits(m, n) /\ n.rom = m.rom /\ SameLogic(m.cpu, n.cpu)

LEMMA Reassigned ==
  ASSUME NEW m, Sound(m), NEW d, SameLogic(m.cpu, d), NEW n, n = [m EXCEPT !.cpu = d]
  PROVE  Reassigns(m, n)
<1>1. m \in Machines /\ d \in Cpus
  BY DEF Sound, SameLogic
<1>2. /\ n \in Machines /\ n.cpu = d /\ n.rom = m.rom /\ n.ram = m.ram /\ n.step = m.step
      /\ n.kbd = m.kbd /\ n.integrated_to = m.integrated_to /\ n.trial = m.trial
  BY <1>1, WithCpu
<1>3. Sound(n)
  BY <1>2 DEF Sound, SameLogic
<1>4. Requests(m) => Requests(n)
  BY <1>2 DEF SameLogic, Requests
<1> QED BY <1>2, <1>3, <1>4 DEF Reassigns, Edits, Carries

LEMMA RegisterReassigns ==
  ASSUME NEW m, Sound(m)
  PROVE  /\ \A v \in Address : Reassigns(m, [m EXCEPT !.cpu.pc = v])
         /\ \A v \in Address : Reassigns(m, [m EXCEPT !.cpu.sp = v])
         /\ \A v \in Address : Reassigns(m, [m EXCEPT !.cpu.hl = v])
         /\ \A v \in Byte : Reassigns(m, [m EXCEPT !.cpu.a = v])
         /\ \A v \in BOOLEAN : Reassigns(m, [m EXCEPT !.cpu.z = v])
<1> DEFINE c == m.cpu
<1>0. c \in Cpus
  BY Fields DEF Sound
<1>1. ASSUME NEW d, SameLogic(c, d) PROVE Reassigns(m, [m EXCEPT !.cpu = d])
  BY <1>1, Reassigned
<1>2. ASSUME NEW v \in Address PROVE Reassigns(m, [m EXCEPT !.cpu.pc = v])
  <2> DEFINE d == [c EXCEPT !.pc = v]
  <2>1. SameLogic(c, d)
    BY <1>0 DEF Cpus, SameLogic
  <2> QED BY <1>1, <2>1
<1>3. ASSUME NEW v \in Address PROVE Reassigns(m, [m EXCEPT !.cpu.sp = v])
  <2> DEFINE d == [c EXCEPT !.sp = v]
  <2>1. SameLogic(c, d)
    BY <1>0 DEF Cpus, SameLogic
  <2> QED BY <1>1, <2>1
<1>4. ASSUME NEW v \in Address PROVE Reassigns(m, [m EXCEPT !.cpu.hl = v])
  <2> DEFINE d == [c EXCEPT !.hl = v]
  <2>1. SameLogic(c, d)
    BY <1>0 DEF Cpus, SameLogic
  <2> QED BY <1>1, <2>1
<1>5. ASSUME NEW v \in Byte PROVE Reassigns(m, [m EXCEPT !.cpu.a = v])
  <2> DEFINE d == [c EXCEPT !.a = v]
  <2>1. SameLogic(c, d)
    BY <1>0 DEF Cpus, SameLogic
  <2> QED BY <1>1, <2>1
<1>6. ASSUME NEW v \in BOOLEAN PROVE Reassigns(m, [m EXCEPT !.cpu.z = v])
  <2> DEFINE d == [c EXCEPT !.z = v]
  <2>1. SameLogic(c, d)
    BY <1>0 DEF Cpus, SameLogic
  <2> QED BY <1>1, <2>1
<1> QED BY <1>2, <1>3, <1>4, <1>5, <1>6

(* The low and the high half of HL can be set on their own. *)
LEMMA WordOfHalves ==
  ASSUME NEW low \in Byte, NEW high \in Byte
  PROVE  256 * high + low \in Address
<1>1. 256 * high + low = low + 256 * high
  BY OfByte
<1> QED BY <1>1, WordOfBytes

LEMMA HighSet ==
  ASSUME NEW hl \in Address, NEW v \in Address
  PROVE  256 * (v % 256) + (hl % 256) \in Address
BY WordOfHalves, BytesOfWord, Zenon

LEMMA LowSet ==
  ASSUME NEW hl \in Address, NEW v \in Address
  PROVE  256 * (hl \div 256) + (v % 256) \in Address
BY WordOfHalves, BytesOfWord, Zenon

LEMMA PcSet ==
  ASSUME Sound(Now), NEW addr \in Address, SetPc(addr)
  PROVE  \E m : Becomes(m) /\ Reassigns(Now, m)
BY RegisterReassigns DEF SetPc

LEMMA RegisterGiven ==
  ASSUME Sound(Now), NEW v \in Address, SetRegister(v)
  PROVE  \E m : Becomes(m) /\ Reassigns(Now, m)
<1> DEFINE high == 256 * (v % 256) + (Now.cpu.hl % 256)
           low == 256 * (Now.cpu.hl \div 256) + (v % 256)
<1>1. Now.cpu.hl \in Address
  BY Fields, CpuFields DEF Sound
<1>2. /\ high \in Address /\ low \in Address
      /\ v % 256 \in Byte /\ Bit(v, 6) \in BOOLEAN
  <2>1. high \in Address
    BY <1>1, HighSet, Zenon
  <2>2. low \in Address
    BY <1>1, LowSet, Zenon
  <2> HIDE DEF high, low
  <2>3. v % 256 \in Byte
    BY BytesOfWord
  <2>4. Bit(v, 6) \in BOOLEAN
    BY BitIsBoolean
  <2> QED BY <2>1, <2>2, <2>3, <2>4
<1>3. \/ SetPc(v)
      \/ Becomes([Now EXCEPT !.cpu.sp = v])
      \/ Becomes([Now EXCEPT !.cpu.a = v % 256])
      \/ Becomes([Now EXCEPT !.cpu.hl = high])
      \/ Becomes([Now EXCEPT !.cpu.hl = low])
      \/ Becomes([Now EXCEPT !.cpu.z = Bit(v, 6)])
  BY DEF SetRegister
<1> HIDE DEF high, low
<1> QED BY <1>2, <1>3, PcSet, RegisterReassigns

-----------------------------------------------------------------------------
(* `savehex` writes records of the kind that `loadhex` reads. *)
LEMMA SequenceOf ==
  ASSUME NEW S, NEW n \in Int, NEW f, f \in [1 .. n -> S]
  PROVE  f \in Seq(S)
<1>1. CASE n \in Nat
  BY <1>1, SeqDef
<1>2. CASE n \notin Nat
  <2>1. 1 .. n = 1 .. 0 /\ 0 \in Nat
    BY <1>2
  <2>2. f \in [1 .. 0 -> S]
    BY <2>1
  <2> QED BY <2>1, <2>2, SeqDef
<1> QED BY <1>1, <1>2

LEMMA HexType ==
  ASSUME NEW m \in Machines, NEW addr \in Address, NEW len \in Nat
  PROVE  save_hex(m, addr, len) \in Seq(Record)
<1> DEFINE c == (len + RecordSize - 1) \div RecordSize
           done(i) == RecordSize * (i - 1)
           n(i) == IF len - done(i) < RecordSize THEN len - done(i) ELSE RecordSize
           data(i) == [k \in 1 .. n(i) |-> umk_peek(m, Word(addr + done(i) + k - 1))]
           r(i) == [addr |-> addr + done(i), type |-> 0, sum_ok |-> addr + done(i) \in Address,
                    data |-> data(i)]
<1>0. RecordSize \in Nat /\ RecordSize > 0 /\ addr \in Nat
  BY CliAssumption, OfAddress
<1>1. c \in Int
  BY <1>0
<1>2. ASSUME NEW i \in 1 .. c
      PROVE  r(i) \in Record
  <2>1. i \in Nat /\ i - 1 \in Nat
    BY <1>1
  <2>2. done(i) \in Nat
    BY <1>0, <2>1
  <2>3. n(i) \in Int /\ addr + done(i) \in Nat
    BY <1>0, <2>2
  <2>4. data(i) \in Seq(Byte)
    <3>1. ASSUME NEW k \in 1 .. n(i)
          PROVE  umk_peek(m, Word(addr + done(i) + k - 1)) \in Byte
      <4>1. addr + done(i) + k - 1 \in Int
        BY <1>0, <2>2, <2>3
      <4> QED BY <4>1, WordType, PeekType
    <3>2. data(i) \in [1 .. n(i) -> Byte]
      BY <3>1
    <3> HIDE DEF data, n
    <3> QED BY <2>3, <3>2, SequenceOf
  <2>5. (addr + done(i) \in Address) \in BOOLEAN
    OBVIOUS
  <2> HIDE DEF data
  <2> QED BY <2>3, <2>4, <2>5 DEF Record
<1>3. save_hex(m, addr, len) = [i \in 1 .. c |-> r(i)]
  BY DEF save_hex
<1> HIDE DEF r, c
<1>4. [i \in 1 .. c |-> r(i)] \in [1 .. c -> Record]
  BY <1>2
<1> QED BY <1>1, <1>3, <1>4, SequenceOf

-----------------------------------------------------------------------------
(* The invariant of a session: the machine, and the one in a state file, is   *)
(* sound, has no key down, and what its panel shows of a sequence is what     *)
(* will be executed unless the machine was edited meanwhile.                  *)
Good(m, e) ==
  /\ Sound(m) /\ Requests(m) /\ m.kbd = {}
  /\ e \in BOOLEAN /\ (e \/ Shows(m))

CliInv ==
  /\ Good(Now, edited) /\ \A f \in state : Good(f.m, f.edited)
  /\ hex \subseteq Seq(Record)
  /\ session \in Sessions /\ resets \in 0 .. MaxResets

LEMMA AtRestShows ==
  ASSUME NEW m, Requests(m), m.step.mc_index = 0
  PROVE  Shows(m)
<1>1. ~(m.step.mc_index > 0)
  OBVIOUS
<1> QED BY <1>1 DEF Shows

LEMMA LoadTypes ==
  ASSUME NEW w \in Pokes
  PROVE  w[1] \in Nat /\ w[2] \in Seq(Byte)
BY CliAssumption, OfAddress

(* An option of the command line leaves a machine that has just been reset. *)
LEMMA OptionGood ==
  ASSUME CliInv, Option
  PROVE  Good(Now', edited)
<1>1. session.image \in Seq(Byte) /\ Sound(Now) /\ 0 \in Nat /\ Now.kbd = {} /\ edited \in BOOLEAN
  BY SessionAssumption DEF CliInv, Good
<1>2. ASSUME NEW m, Becomes(m), Sound(m), m.step.mc_index = 0, m.cpu = ResetCpu, m.kbd = {}
      PROVE  Good(Now', edited)
  <2>1. Now' = m
    BY <1>2, NowIs DEF Sound
  <2>2. Requests(m)
    BY <1>2, ResetType DEF Requests
  <2> QED BY <1>1, <1>2, <2>1, <2>2, AtRestShows DEF Good
<1>3. ASSUME Becomes(umk_reset(load_bin(Now, 0, session.image, TRUE)))
      PROVE  Good(Now', edited)
  <2> DEFINE p == umk_load_rom(Now, 0, session.image)
             m == umk_reset(p)
  <2>1. Becomes(m)
    BY <1>3 DEF load_bin
  <2>2. Sound(p) /\ p.kbd = {}
    BY <1>1, RomSound
  <2> HIDE DEF p
  <2>3. Sound(m) /\ m.step.mc_index = 0 /\ m.cpu = ResetCpu /\ m.kbd = {}
    BY <2>2, ResetSound
  <2> HIDE DEF m
  <2> QED BY <1>2, <2>1, <2>3
<1>4. ASSUME Becomes(umk_reset(Now))
      PROVE  Good(Now', edited)
  <2>1. /\ Sound(umk_reset(Now)) /\ umk_reset(Now).step.mc_index = 0
        /\ umk_reset(Now).cpu = ResetCpu /\ umk_reset(Now).kbd = {}
    BY <1>1, ResetSound
  <2> QED BY <1>2, <1>4, <2>1
<1>5. ASSUME Becomes(umk_init(RamRev1))
      PROVE  Good(Now', edited)
  <2>1. /\ Sound(umk_init(RamRev1)) /\ umk_init(RamRev1).step.mc_index = 0
        /\ umk_init(RamRev1).cpu = ResetCpu /\ umk_init(RamRev1).kbd = {}
    BY OptionAssumption, PowerOnSound
  <2> QED BY <1>2, <1>5, <2>1
<1> QED BY <1>3, <1>4, <1>5 DEF Option

(* A control keeps what is shown true, and one that ends the sequence makes it *)
(* true whatever was edited.                                                 *)
Steers(m, n) == Carries(m, n) /\ n.rom = m.rom /\ (Shows(m) => Shows(n))

LEMMA StepsControl ==
  ASSUME NEW m, Sound(m), Requests(m),
         NEW n \in {umk_step_instruction(m), umk_step_machine_cycle(m), umk_press_step(m)}
  PROVE  Steers(m, n)
<1>1. Carries(m, n) /\ n.rom = m.rom
  BY StepsCarry
<1>2. CASE n = umk_step_instruction(m)
  BY <1>1, <1>2, InstructionOne, OneShows DEF Steers
<1>3. CASE n = umk_step_machine_cycle(m)
  BY <1>1, <1>3, CycleShows DEF Steers
<1>4. CASE n = umk_press_step(m)
  BY <1>1, <1>4, PressShows DEF Steers
<1> QED BY <1>2, <1>3, <1>4

LEMMA SwitchControls ==
  ASSUME NEW m, Sound(m), NEW sw, NEW on \in BOOLEAN, NEW n, n = umk_set_switch(m, sw, on)
  PROVE  Steers(m, n)
<1>1. Sound(n) /\ Nothing(m, n)
  BY SwitchSound
<1>2. Carries(m, n) /\ n.rom = m.rom
  BY <1>1, NothingCarries
<1> QED BY <1>2, SwitchShows DEF Steers

LEMMA ResetControls ==
  ASSUME NEW m, Sound(m), NEW n, n = umk_reset(m)
  PROVE  Steers(m, n)
<1>1. Sound(n) /\ n.ram = m.ram /\ n.kbd = m.kbd /\ n.rom = m.rom /\ Shows(n)
  BY ResetSound, ResetShows
<1>2. Carries(m, n)
  BY <1>1 DEF Carries, Shows
<1> QED BY <1>1, <1>2 DEF Steers

LEMMA InterruptControls ==
  ASSUME NEW m, Sound(m), NEW n, n = umk_interrupt(m)
  PROVE  Steers(m, n)
BY InterruptCarries, InterruptShows DEF Steers, Edits

LEMMA ControlBecomes ==
  ASSUME CliInv, Control
  PROVE  resets' \in 0 .. MaxResets /\ \E m : Becomes(m) /\ Steers(Now, m)
<1>1. Sound(Now) /\ Requests(Now) /\ resets \in 0 .. MaxResets /\ MaxResets \in Nat
  BY UmkAssumption DEF CliInv, Good
<1>2. CASE Becomes(umk_step_instruction(Now)) /\ UNCHANGED resets
  BY <1>1, <1>2, StepsControl
<1>3. CASE Becomes(umk_step_machine_cycle(Now)) /\ UNCHANGED resets
  BY <1>1, <1>3, StepsControl
<1>4. CASE PressStep
  BY <1>1, <1>4, StepsControl DEF PressStep
<1>5. CASE SetSwitch
  BY <1>1, <1>5, SwitchControls DEF SetSwitch
<1>6. CASE Reset
  BY <1>1, <1>6, ResetControls DEF Reset
<1>7. CASE Interrupt
  BY <1>1, <1>7, InterruptControls DEF Interrupt
<1> QED BY <1>2, <1>3, <1>4, <1>5, <1>6, <1>7 DEF Control

LEMMA ControlGood ==
  ASSUME CliInv, Control
  PROVE  Good(Now', edited')
<1>1. PICK m : Becomes(m) /\ Steers(Now, m)
  BY ControlBecomes
<1>2. Sound(m) /\ Now' = m /\ step' = m.step
  BY <1>1, NowIs DEF Steers, Carries, Sound, Becomes
<1>3. Requests(m) /\ m.kbd = {}
  BY <1>1 DEF Steers, Carries, CliInv, Good
<1>4. edited' = (edited /\ m.step.mc_index # 0) /\ edited \in BOOLEAN
  BY <1>2 DEF Control, CliInv, Good
<1>5. CASE edited = TRUE /\ m.step.mc_index # 0
  BY <1>2, <1>3, <1>4, <1>5 DEF Good
<1>6. CASE edited = FALSE \/ m.step.mc_index = 0
  <2>1. edited' = FALSE
    BY <1>4, <1>6
  <2>2. Shows(m)
    BY <1>1, <1>3, <1>6, AtRestShows DEF Steers, CliInv, Good
  <2> QED BY <1>2, <1>3, <2>1, <2>2 DEF Good
<1> QED BY <1>4, <1>5, <1>6

(* An edit leaves the place in the sequence, so it is stale if there is one. *)
LEMMA RomEdits ==
  ASSUME NEW m, Sound(m), NEW addr \in Nat, NEW data \in Seq(Byte),
         NEW n, n = umk_load_rom(m, addr, data)
  PROVE  Edits(m, n)
<1>1. Sound(n) /\ n.cpu = m.cpu /\ n.step = m.step /\ n.ram = m.ram /\ n.kbd = m.kbd
  BY RomSound
<1> QED BY <1>1 DEF Edits, Carries, Requests

LEMMA EditBecomes ==
  ASSUME CliInv, Edit
  PROVE  \E m : Becomes(m) /\ Edits(Now, m) /\ (m.rom = Now.rom \/ Command("rom"))
<1>1. Sound(Now) /\ Now.kbd = {} /\ hex \subseteq Seq(Record)
  BY DEF CliInv, Good
<1>2. ASSUME NEW w \in Pokes, Becomes(umk_load_ram(Now, w[1], w[2]))
      PROVE  \E m : Becomes(m) /\ Edits(Now, m) /\ (m.rom = Now.rom \/ Command("rom"))
  <2>1. Writes(Now, umk_load_ram(Now, w[1], w[2]))
    BY <1>1, LoadTypes, LoadWrites
  <2> QED BY <1>2, <2>1 DEF Writes
<1>3. ASSUME NEW w \in Pokes, Command("rom"), Becomes(umk_load_rom(Now, w[1], w[2]))
      PROVE  \E m : Becomes(m) /\ Edits(Now, m) /\ (m.rom = Now.rom \/ Command("rom"))
  <2>1. Edits(Now, umk_load_rom(Now, w[1], w[2]))
    BY <1>1, LoadTypes, RomEdits
  <2> QED BY <1>3, <2>1
<1>4. ASSUME NEW v \in Targets, SetRegister(v)
      PROVE  \E m : Becomes(m) /\ Edits(Now, m) /\ (m.rom = Now.rom \/ Command("rom"))
  <2>1. v \in Address
    BY CliAssumption
  <2> QED BY <1>1, <1>4, <2>1, RegisterGiven DEF Reassigns
<1>5. ASSUME NEW file \in HexFiles \cup hex, Becomes(load_hex(Now, file))
      PROVE  \E m : Becomes(m) /\ Edits(Now, m) /\ (m.rom = Now.rom \/ Command("rom"))
  <2>1. file \in Seq(Record)
    BY <1>1, CliAssumption
  <2>2. Writes(Now, load_hex(Now, file))
    BY <1>1, <2>1, HexWrites
  <2> QED BY <1>5, <2>2 DEF Writes
<1>6. ASSUME NEW k \in Keys, Becomes(press_key(Now, k))
      PROVE  \E m : Becomes(m) /\ Edits(Now, m) /\ (m.rom = Now.rom \/ Command("rom"))
  <2>1. Edits(Now, press_key(Now, k)) /\ press_key(Now, k).rom = Now.rom
    BY <1>1, KeyEdits
  <2> QED BY <1>6, <2>1
<1> QED BY <1>2, <1>3, <1>4, <1>5, <1>6 DEF Edit, LoadHex, PressKey, Key, load_bin

LEMMA EditedGood ==
  ASSUME CliInv, edited' = (step.mc_index # 0), NEW m, Becomes(m), Edits(Now, m)
  PROVE  Good(Now', edited')
<1>1. Sound(m) /\ Now' = m /\ m.step.mc_index = step.mc_index
  BY NowIs, NowFields DEF Edits, Carries, Sound
<1>2. Requests(m) /\ m.kbd = {}
  BY DEF Edits, Carries, CliInv, Good
<1>3. edited' = FALSE => m.step.mc_index = 0
  BY <1>1
<1> QED BY <1>1, <1>2, <1>3, AtRestShows DEF Good

LEMMA RunGood ==
  ASSUME CliInv, Run
  PROVE  Good(Now', edited')
<1>1. CASE UNCHANGED <<vars, edited>>
  <2>1. Now' = Now /\ edited' = edited
    BY <1>1 DEF vars, Now
  <2> QED BY <2>1 DEF CliInv
<1>2. CASE \E addr \in Targets : SetPc(addr) /\ edited' = (step.mc_index # 0)
  <2>1. PICK addr \in Targets : SetPc(addr) /\ edited' = (step.mc_index # 0)
    BY <1>2
  <2>2. PICK m : Becomes(m) /\ Edits(Now, m)
    BY <2>1, CliAssumption, PcSet DEF Reassigns, CliInv, Good
  <2> QED BY <2>1, <2>2, EditedGood
<1> QED BY <1>1, <1>2 DEF Run

LEMMA RunInstructionGood ==
  ASSUME CliInv, RunInstruction
  PROVE  Good(Now', edited')
<1> DEFINE m == umk_step_instruction(Now)
<1>1. Becomes(m) /\ edited' = FALSE
  BY DEF RunInstruction
<1>2. Sound(Now) /\ Requests(Now) /\ Now.kbd = {}
  BY DEF CliInv, Good
<1>3. Carries(Now, m) /\ Shows(m)
  BY <1>2, StepsCarry, InstructionOne, OneShows
<1> HIDE DEF m
<1>4. Now' = m
  BY <1>1, <1>3, NowIs DEF Carries, Sound
<1>5. Requests(m) /\ m.kbd = {}
  BY <1>2, <1>3 DEF Carries
<1> QED BY <1>1, <1>3, <1>4, <1>5 DEF Carries, Good

LEMMA StateLoadGood ==
  ASSUME CliInv, StateLoad
  PROVE  Good(Now', edited')
<1>1. PICK f \in state : Becomes(f.m) /\ edited' = f.edited
  BY DEF StateLoad, umk_state_load
<1>2. Good(f.m, f.edited)
  BY DEF CliInv
<1>3. Now' = f.m
  BY <1>1, <1>2, NowIs DEF Good, Sound
<1> QED BY <1>1, <1>2, <1>3

LEMMA CliInvInit ==
  ASSUME CliInit
  PROVE  CliInv
<1> DEFINE m == umk_init(RamMax)
<1>1. PowerOn(m) /\ resets = 0 /\ MaxResets \in Nat
  BY UmkAssumption DEF CliInit, PowerOn
<1>2. Sound(m) /\ m.cpu = ResetCpu /\ m.step.mc_index = 0 /\ m.kbd = {}
  BY OptionAssumption, PowerOnSound
<1> HIDE DEF m
<1>3. Now = m
  BY <1>1, <1>2, NowIs DEF Sound
<1>4. Requests(m) /\ Shows(m)
  BY <1>2, ResetType, AtRestShows DEF Requests
<1>5. Good(Now, edited)
  BY <1>2, <1>3, <1>4 DEF CliInit, Good
<1> QED BY <1>1, <1>5 DEF CliInit, CliInv

LEMMA CliInvStep ==
  ASSUME CliInv, [CliNext]_cvars
  PROVE  CliInv'
<1>0. resets \in 0 .. MaxResets
  BY DEF CliInv
<1>1. ASSUME Good(Now', edited'), resets' \in 0 .. MaxResets,
             state' = state, hex' = hex, session' = session
      PROVE  CliInv'
  BY <1>1 DEF CliInv
<1>2. CASE Option
  <2>1. edited' = edited /\ UNCHANGED <<resets, state, hex, session>>
    BY <1>2 DEF Option
  <2> QED BY <1>0, <1>1, <1>2, <2>1, OptionGood
<1>3. CASE Control
  <2>1. UNCHANGED <<state, hex, session>>
    BY <1>3 DEF Control, cli
  <2> QED BY <1>1, <1>3, <2>1, ControlGood, ControlBecomes
<1>4. CASE Edit
  <2>1. UNCHANGED <<resets, state, hex, session>> /\ edited' = (step.mc_index # 0)
    BY <1>4 DEF Edit, cli
  <2>2. Good(Now', edited')
    BY <1>4, <2>1, EditBecomes, EditedGood
  <2> QED BY <1>0, <1>1, <2>1, <2>2
<1>5. CASE Run
  <2>1. UNCHANGED <<resets, state, hex, session>>
    BY <1>5 DEF Run, vars
  <2> QED BY <1>0, <1>1, <1>5, <2>1, RunGood
<1>6. CASE RunInstruction
  <2>1. UNCHANGED <<resets, state, hex, session>>
    BY <1>6 DEF RunInstruction
  <2> QED BY <1>0, <1>1, <1>6, <2>1, RunInstructionGood
<1>7. CASE StateLoad
  <2>1. UNCHANGED <<resets, state, hex, session>>
    BY <1>7 DEF StateLoad, cli
  <2> QED BY <1>0, <1>1, <1>7, <2>1, StateLoadGood
<1>8. CASE SaveHex
  <2>1. PICK r \in Ranges : hex' = {save_hex(Now, r[1], r[2])}
    BY <1>8 DEF SaveHex
  <2>2. UNCHANGED <<vars, edited, state, session>>
    BY <1>8 DEF SaveHex
  <2>3. Now' = Now /\ resets' = resets
    BY <2>2 DEF vars, Now
  <2>4. Now \in Machines /\ r[1] \in Address /\ r[2] \in Nat
    BY CliAssumption DEF CliInv, Good, Sound
  <2>5. hex' \subseteq Seq(Record)
    BY <2>1, <2>4, HexType
  <2> QED BY <2>2, <2>3, <2>5 DEF CliInv
<1>9. CASE StateSave
  <2>1. state' \in {{}, {[m |-> Now, edited |-> edited]}}
    BY <1>9 DEF StateSave
  <2>2. UNCHANGED <<vars, edited, hex, session>>
    BY <1>9 DEF StateSave
  <2>3. Now' = Now /\ resets' = resets
    BY <2>2 DEF vars, Now
  <2>4. \A f \in state' : Good(f.m, f.edited)
    BY <2>1 DEF CliInv
  <2> QED BY <2>2, <2>3, <2>4 DEF CliInv
<1>10. CASE Bp \/ RunOver \/ Quit \/ UNCHANGED cvars
  <2>1. UNCHANGED <<vars, edited, state, hex, session>>
    BY <1>10 DEF Bp, RunOver, Quit, cvars, cli
  <2>2. Now' = Now /\ resets' = resets
    BY <2>1 DEF vars, Now
  <2> QED BY <2>1, <2>2 DEF CliInv
<1> QED BY <1>2, <1>3, <1>4, <1>5, <1>6, <1>7, <1>8, <1>9, <1>10 DEF CliNext

LEMMA CliInvariant == CliSpec => []CliInv
<1>1. CliInit => CliInv
  BY CliInvInit
<1>2. CliInv /\ [CliNext]_cvars => CliInv'
  BY CliInvStep
<1> QED BY <1>1, <1>2, PTL DEF CliSpec

LEMMA CliInvImplies ==
  ASSUME CliInv
  PROVE  TypeOK /\ DisplayInSync /\ DryRunFits /\ ShownUnlessEdited
<1>1. Sound(Now) /\ resets \in 0 .. MaxResets /\ (edited \/ Shows(Now))
  BY DEF CliInv, Good
<1> QED BY <1>1, SoundImplies, ShowsImplies DEF ShownUnlessEdited

(* The variables of the machine keep their types whatever the user loads,     *)
(* pokes and runs.                                                           *)
THEOREM CommandsKeepTypes == CliSpec => []TypeOK
BY CliInvariant, CliInvImplies, PTL

(* After every command the display has integrated up to the clock of the CPU. *)
THEOREM CommandsKeepDisplayInSync == CliSpec => []DisplayInSync
BY CliInvariant, CliInvImplies, PTL

(* The trace and the journal of a dry run hold whatever instruction the memory *)
(* that the user has edited starts with.                                     *)
THEOREM CommandsKeepDryRunsFit == CliSpec => []DryRunFits
BY CliInvariant, CliInvImplies, PTL

(* The cycles shown so far belong to what the last press executes, through    *)
(* state files too, unless a command edited the machine or a request arrived. *)
THEOREM SequencesAreShownUnlessEdited == CliSpec => []ShownUnlessEdited
BY CliInvariant, CliInvImplies, PTL

-----------------------------------------------------------------------------
LEMMA NowThen ==
  ASSUME NEW m \in Machines, Becomes(m)
  PROVE  Now' = m
BY DEF Becomes, Now, Machines

(* `key` is a tap or nothing. *)
LEMMA KeyTaps ==
  ASSUME CliInv, NEW k \in Keys, Key(k)
  PROVE  IF step.latch_step THEN Now' = Now
         ELSE \E h \in Held(Now, {k}) : Now' \in Held(h, {})
<1> DEFINE n == press_key(Now, k)
<1>1. Becomes(n)
  BY DEF Key
<1>2. Sound(Now) /\ Now.kbd = {} /\ Now.step = step
  BY NowFields DEF CliInv, Good
<1>3. /\ Edits(Now, n)
      /\ IF Now.step.latch_step THEN n = Now
         ELSE \E h \in Held(Now, {k}) : n \in Held(h, {})
  BY <1>2, KeyEdits
<1>4. n \in Machines
  BY <1>3 DEF Edits, Carries, Sound
<1> HIDE DEF n
<1>5. Now' = n
  BY <1>1, <1>4, NowThen
<1> QED BY <1>2, <1>3, <1>5

(* With РБ/ШГ latched `key` changes nothing; otherwise the program runs for     *)
(* KEY_HOLD and the rest of an instruction with that key down and no other,  *)
(* and then for as long with none (press_key).                               *)
THEOREM KeysAreTapsOrNothing == CliSpec => KeyIsTapOrNothing
<1>1. CliInv /\ [CliNext]_cvars =>
        [\A k \in Keys : Key(k) =>
           IF step.latch_step THEN Now' = Now
           ELSE \E h \in Held(Now, {k}) : Now' \in Held(h, {})]_cvars
  BY KeyTaps
<1> QED BY <1>1, CliInvariant, PTL DEF CliSpec, KeyIsTapOrNothing

-----------------------------------------------------------------------------
(* The table of breakpoints holds exactly the addresses that are wanted, as    *)
(* many copies of each as there are.                                         *)
LEMMA AppendAdds ==
  ASSUME NEW S, NEW s \in Seq(S), NEW x \in S
  PROVE  ToSet(Append(s, x)) = ToSet(s) \cup {x}
<1> DEFINE t == Append(s, x)
<1>1. /\ DOMAIN s = 1 .. Len(s) /\ Len(s) \in Nat
      /\ t \in Seq(S) /\ Len(t) = Len(s) + 1 /\ DOMAIN t = 1 .. Len(t)
      /\ t[Len(s) + 1] = x /\ \A i \in 1 .. Len(s) : t[i] = s[i]
  BY AppendProperties, LenProperties
<1> HIDE DEF t
<1>2. ASSUME NEW i \in DOMAIN t
      PROVE  t[i] \in ToSet(s) \cup {x}
  <2>1. i \in 1 .. Len(s) \/ i = Len(s) + 1
    BY <1>1
  <2> QED BY <1>1, <2>1 DEF ToSet
<1>3. ASSUME NEW i \in DOMAIN s
      PROVE  s[i] \in ToSet(t)
  <2>1. i \in DOMAIN t /\ t[i] = s[i]
    BY <1>1
  <2> QED BY <2>1 DEF ToSet
<1>4. x \in ToSet(t)
  <2>1. Len(s) + 1 \in DOMAIN t
    BY <1>1
  <2> QED BY <1>1, <2>1 DEF ToSet
<1> QED BY <1>2, <1>3, <1>4 DEF ToSet, t

(* `del` takes every copy of the address out and leaves the others. *)
LEMMA RemovedAll ==
  ASSUME NEW bps \in Seq(Address), NEW addr
  PROVE  Removed(bps, addr) \in Seq(Address) /\ ToSet(Removed(bps, addr)) = ToSet(bps) \ {addr}
<1> DEFINE c == Len(bps)
           S == Seq(Address)
           Put(p, i) == IF bps[i] = addr THEN p ELSE Append(p, bps[i])
           G == [i \in 1 .. c |-> [p \in S |-> Put(p, i)]]
           IsRun(f) == f = [i \in 0 .. c |-> IF i = 0 THEN << >> ELSE Put(f[i - 1], i)]
           t == Kept(bps, addr)
           First(i) == {bps[j] : j \in 1 .. i}
           W == {i \in 0 .. c : t[i] \in S /\ ToSet(t[i]) = First(i) \ {addr}}
<1>1. c \in Nat /\ << >> \in S /\ \A i \in 1 .. c : bps[i] \in Address
  BY LenProperties, EmptySeq, ElementOfSeq
<1>2. ASSUME NEW i \in 1 .. c, NEW p \in S
      PROVE  Put(p, i) \in S /\ ToSet(Put(p, i)) \ {addr} = (ToSet(p) \cup {bps[i]}) \ {addr}
  <2>1. bps[i] \in Address
    BY <1>1
  <2>2. Append(p, bps[i]) \in S /\ ToSet(Append(p, bps[i])) = ToSet(p) \cup {bps[i]}
    BY <2>1, AppendProperties, AppendAdds
  <2> QED BY <2>2
<1>3. \E f : IsRun(f)
  <2>1. G \in [1 .. c -> [S -> S]] /\ \A i \in 1 .. c, p \in S : G[i][p] = Put(p, i)
    BY <1>2
  <2> HIDE DEF G, S, Put, c
  <2>2. PICK f \in [0 .. c -> S] : Iterates(f, << >>, c, G)
    BY <1>1, <2>1, Iterated
  <2>3. \A i \in 0 .. c : i # 0 => i \in 1 .. c /\ f[i - 1] \in S
    BY <1>1
  <2>4. IsRun(f)
    BY <2>1, <2>2, <2>3 DEF Iterates
  <2> QED BY <2>4
<1>4. t = CHOOSE f : IsRun(f)
  BY DEF Kept, Put, c
<1> HIDE DEF IsRun, t
<1>5. IsRun(t)
  BY <1>3, <1>4
<1>6. t[0] = << >> /\ \A i \in 1 .. c : t[i] = Put(t[i - 1], i)
  <2> HIDE DEF Put
  <2> QED BY <1>1, <1>5 DEF IsRun
<1>7. 0 \in W
  <2>1. ToSet(<< >>) = {} /\ First(0) = {}
    BY DEF ToSet
  <2>2. 0 \in 0 .. c /\ t[0] = << >> /\ t[0] \in S
    BY <1>1, <1>6
  <2>3. ToSet(t[0]) = First(0) \ {addr}
    BY <2>1, <2>2
  <2> HIDE DEF First, t
  <2> QED BY <2>2, <2>3
<1>8. ASSUME NEW i \in 1 .. c, i - 1 \in W
      PROVE  i \in W
  <2> DEFINE p == t[i - 1]
  <2>1. p \in S /\ ToSet(p) = First(i - 1) \ {addr} /\ t[i] = Put(p, i)
    BY <1>6, <1>8
  <2> HIDE DEF p
  <2>2. t[i] \in S
    BY <1>2, <2>1
  <2>3. addr \notin ToSet(t[i])
    <3>1. CASE bps[i] = addr
      BY <2>1, <3>1
    <3>2. CASE bps[i] # addr
      <4>1. ToSet(t[i]) = ToSet(p) \cup {bps[i]}
        BY <1>1, <2>1, <3>2, AppendAdds
      <4> QED BY <2>1, <3>2, <4>1
    <3> QED BY <3>1, <3>2
  <2>4. First(i) = First(i - 1) \cup {bps[i]}
    <3>1. \A j : j \in 1 .. i <=> j \in 1 .. i - 1 \/ j = i
      BY <1>1
    <3> QED BY <3>1
  <2>5. ToSet(t[i]) \ {addr} = (ToSet(p) \cup {bps[i]}) \ {addr}
    BY <1>2, <2>1
  <2> HIDE DEF First
  <2>6. ToSet(t[i]) = First(i) \ {addr}
    BY <2>1, <2>3, <2>4, <2>5
  <2>7. i \in 0 .. c
    BY <1>1
  <2> QED BY <2>2, <2>6, <2>7
<1>9. \A i \in 1 .. c : i - 1 \in W => i \in W
  BY <1>8
<1> HIDE DEF W
<1>10. \A i \in 0 .. c : i \in W
  BY <1>1, <1>7, <1>9, Upwards
<1>11. t[c] \in S /\ ToSet(t[c]) = First(c) \ {addr}
  <2>1. c \in W
    BY <1>1, <1>10
  <2> HIDE DEF First
  <2> QED BY <2>1 DEF W
<1>12. First(c) = ToSet(bps)
  BY LenProperties DEF ToSet
<1>13. Removed(bps, addr) = t[c]
  BY DEF Removed, t
<1> QED BY <1>11, <1>12, <1>13

BpInv ==
  /\ wanted = ToSet(breakpoints) /\ breakpoints \in Seq(Address)
  /\ run \in [on : BOOLEAN, until : Nat, odd : BOOLEAN]
  /\ run.on => args = << >>

LEMMA BpInvInit ==
  ASSUME CliInit
  PROVE  BpInv
<1>1. << >> \in Seq(Address) /\ ToSet(<< >>) = {}
  BY EmptySeq DEF ToSet
<1> QED BY <1>1 DEF CliInit, BpInv, NotRunning

LEMMA BpInvStep ==
  ASSUME CliInv, BpInv, [CliNext]_cvars
  PROVE  BpInv'
<1>1. cpu.cycles \in Nat
  BY NowFields, Fields, CpuFields DEF CliInv, Good, Sound
<1>2. CASE Bp
  <2>1. run' = run /\ args' = args
    BY <1>2 DEF Bp
  <2>2. ASSUME NEW addr \in Breakpoints,
               breakpoints' = Append(breakpoints, addr), wanted' = wanted \cup {addr}
        PROVE  BpInv'
    <3>1. addr \in Address
      BY CliAssumption
    <3>2. breakpoints' \in Seq(Address) /\ ToSet(breakpoints') = ToSet(breakpoints) \cup {addr}
      BY <2>2, <3>1, AppendProperties, AppendAdds DEF BpInv
    <3> QED BY <2>1, <2>2, <3>2 DEF BpInv
  <2>3. ASSUME NEW addr \in Breakpoints,
               breakpoints' = Removed(breakpoints, addr), wanted' = wanted \ {addr}
        PROVE  BpInv'
    BY <2>1, <2>3, RemovedAll DEF BpInv
  <2>4. ASSUME breakpoints' = << >>, wanted' = {}
        PROVE  BpInv'
    <3>1. << >> \in Seq(Address) /\ ToSet(<< >>) = {}
      BY EmptySeq DEF ToSet
    <3> QED BY <2>1, <2>4, <3>1 DEF BpInv
  <2> QED BY <1>2, <2>2, <2>3, <2>4 DEF Bp
<1>3. CASE Run
  <2>1. PICK n \in Budgets : run' = [on |-> TRUE, until |-> cpu.cycles + n, odd |-> FALSE]
    BY <1>3 DEF Run
  <2>2. n \in Nat
    BY CliAssumption
  <2>3. cpu.cycles + n \in Nat
    BY <1>1, <2>2
  <2>4. UNCHANGED <<breakpoints, wanted, args>> /\ args = << >>
    BY <1>3 DEF Run, Command
  <2> QED BY <2>1, <2>3, <2>4 DEF BpInv
<1>4. CASE RunInstruction
  <2>1. run' = NotRunning \/ run' = [run EXCEPT !.odd = ~run.odd]
    BY <1>4 DEF RunInstruction
  <2>2. UNCHANGED <<breakpoints, wanted, args>> /\ run.on
    BY <1>4 DEF RunInstruction
  <2>3. NotRunning \in [on : BOOLEAN, until : Nat, odd : BOOLEAN]
    BY DEF NotRunning
  <2>4. [run EXCEPT !.odd = ~run.odd] \in [on : BOOLEAN, until : Nat, odd : BOOLEAN]
    <3>1. (~run.odd) \in BOOLEAN
      OBVIOUS
    <3> QED BY <3>1 DEF BpInv
  <2> QED BY <2>1, <2>2, <2>3, <2>4 DEF BpInv
<1>5. CASE RunOver
  BY <1>5 DEF RunOver, BpInv, NotRunning
<1>6. CASE Option \/ Control \/ Edit \/ SaveHex \/ StateSave \/ StateLoad \/ Quit \/ UNCHANGED cvars
  <2>1. UNCHANGED <<breakpoints, wanted, run>> /\ (args' = args \/ args # << >>)
    BY <1>6 DEF Option, Control, Edit, SaveHex, StateSave, StateLoad, Quit, cvars, cli
  <2> QED BY <2>1 DEF BpInv
<1> QED BY <1>2, <1>3, <1>4, <1>5, <1>6 DEF CliNext

LEMMA RunStops ==
  ASSUME CliInv, BpInv, CliNext, run.on
  PROVE  ~run'.on <=> \/ cpu.cycles >= run.until
                      \/ /\ cpu'.cycles > cpu.cycles
                         /\ cpu'.pc \in wanted \/ (cpu'.halted /\ ~cpu'.int_pending)
<1> DEFINE Stops == cpu'.pc \in wanted \/ (cpu'.halted /\ ~cpu'.int_pending)
<1>1. run \in [on : BOOLEAN, until : Nat, odd : BOOLEAN] /\ run.on = TRUE /\ args = << >>
  BY DEF BpInv
<1>2. cpu.cycles \in Nat
  BY NowFields, Fields, CpuFields DEF CliInv, Good, Sound
<1>3. RunInstruction \/ RunOver
  BY <1>1 DEF CliNext, Option, Control, PressStep, SetSwitch, Reset, Interrupt, Edit, PressKey,
              Key, LoadHex, Bp, Run, SaveHex, StateSave, StateLoad, Quit, Command
<1>4. CASE RunInstruction
  <2>1. /\ run' = IF Stops THEN NotRunning ELSE [run EXCEPT !.odd = ~run.odd]
        /\ cpu.cycles < run.until /\ Becomes(umk_step_instruction(Now))
    BY <1>4 DEF RunInstruction, BpInv, bp_hit
  <2>2. cpu'.cycles > cpu.cycles
    <3> DEFINE n == umk_step_instruction(Now)  d == exec_one(Now)
    <3>1. Sound(Now)
      BY DEF CliInv, Good
    <3>2. One(Now, n) /\ Executes(Now, d)
      BY <3>1, InstructionOne, ExecSound
    <3>3. n.cpu = d.cpu
      BY <3>2 DEF One
    <3>4. d \in Machines /\ Now.cpu.cycles + 4 <= d.cpu.cycles
      BY <3>2 DEF Executes
    <3>5. cpu' = n.cpu /\ Now.cpu = cpu
      BY <2>1, NowFields DEF Becomes
    <3> HIDE DEF n, d
    <3>6. d.cpu.cycles \in Nat
      BY <3>4, Fields, CpuFields
    <3> QED BY <1>2, <3>3, <3>4, <3>5, <3>6
  <2> HIDE DEF Stops
  <2>3. run'.on = IF Stops THEN FALSE ELSE TRUE
    BY <1>1, <2>1 DEF NotRunning
  <2>4. ~(cpu.cycles >= run.until)
    BY <1>1, <1>2, <2>1
  <2> QED BY <2>2, <2>3, <2>4 DEF Stops
<1>5. CASE RunOver
  BY <1>5 DEF RunOver, NotRunning
<1> QED BY <1>3, <1>4, <1>5

(* A run ends where its budget does, or once an instruction it has executed    *)
(* brought it to a breakpoint that was set and not removed since, or to a halt *)
(* with no request that could wake the machine; nowhere else.                *)
THEOREM RunsStopAtBreakpoints == CliSpec => BreakpointsHonoured
<1>1. CliInit => BpInv
  BY BpInvInit
<1>2. CliInv /\ BpInv /\ [CliNext]_cvars => BpInv'
  BY BpInvStep
<1>3. CliInv /\ BpInv /\ [CliNext]_cvars =>
        [run.on =>
           (~run'.on <=> \/ cpu.cycles >= run.until
                         \/ /\ cpu'.cycles > cpu.cycles
                            /\ cpu'.pc \in wanted \/ (cpu'.halted /\ ~cpu'.int_pending))]_cvars
  BY RunStops
<1> QED BY <1>1, <1>2, <1>3, CliInvariant, PTL DEF CliSpec, BreakpointsHonoured

-----------------------------------------------------------------------------
(* What the options left of the ROM and of the size of RAM, once the first k   *)
(* arguments have been read.                                                 *)
LoadsBy(k) ==
  \E i \in 1 .. k : /\ session.args[i] = "--rom"
                    /\ \A j \in 1 .. k : session.args[j] = "--rev1" => j < i

HalfBy(k) == \E j \in 1 .. k : session.args[j] = "--rev1"

BlankRom == [a \in 0 .. RamBase - 1 |-> 0]

Burned(r, data) ==
  IF Len(data) > RamBase THEN r
  ELSE [a \in DOMAIN r |-> IF a + 1 \in DOMAIN data THEN data[a + 1] ELSE r[a]]

Fits(m, k) ==
  /\ m.rom = IF LoadsBy(k) THEN Burned(BlankRom, session.image) ELSE BlankRom
  /\ DOMAIN m.ram = 0 .. (IF HalfBy(k) THEN RamRev1 ELSE RamMax) - 1

RomInv ==
  LET Done == Len(session.args) - Len(args)
  IN  /\ args \in Seq({"--rom", "--rom missing", "--rev1"}) /\ Done \in Nat
      /\ \A i \in 1 .. Len(args) : args[i] = session.args[Done + i]
      /\ args # << >> => state = {}
      /\ "rom" \notin session.commands =>
           Fits(Now, Done) /\ \A f \in state : Fits(f.m, Done)

LEMMA RomBurned ==
  ASSUME NEW m, "rom" \in DOMAIN m, DOMAIN m.rom = 0 .. RamBase - 1, NEW data \in Seq(Byte)
  PROVE  umk_load_rom(m, 0, data).rom = Burned(m.rom, data)
<1>0. 0 + Len(data) = Len(data)
  BY LenProperties
<1>1. CASE 0 + Len(data) > RamBase
  <2>1. umk_load_rom(m, 0, data) = m
    BY <1>1 DEF umk_load_rom
  <2>2. Burned(m.rom, data) = m.rom
    <3>1. Len(data) > RamBase
      BY <1>0, <1>1
    <3> QED BY <3>1 DEF Burned
  <2> QED BY <2>1, <2>2
<1>2. CASE ~(0 + Len(data) > RamBase)
  <2> DEFINE q == [a \in DOMAIN m.rom |-> IF a - 0 + 1 \in DOMAIN data
                                          THEN data[a - 0 + 1] ELSE m.rom[a]]
             s == [a \in DOMAIN m.rom |-> IF a + 1 \in DOMAIN data
                                          THEN data[a + 1] ELSE m.rom[a]]
  <2>1. umk_load_rom(m, 0, data) = [m EXCEPT !.rom = q]
    BY <1>2 DEF umk_load_rom
  <2>2. \A a \in 0 .. RamBase - 1 : a - 0 = a
    OBVIOUS
  <2>3. \A a \in DOMAIN m.rom : a - 0 = a
    BY <2>2
  <2>4. q = s
    BY <2>3
  <2>5. Burned(m.rom, data) = s
    BY <1>0, <1>2, Zenon DEF Burned
  <2> HIDE DEF q, s
  <2>6. umk_load_rom(m, 0, data).rom = q
    BY <2>1
  <2> QED BY <2>4, <2>5, <2>6
<1> QED BY <1>1, <1>2

LEMMA RomFields ==
  ASSUME NEW m \in Machines
  PROVE  "rom" \in DOMAIN m /\ DOMAIN m.rom = 0 .. RamBase - 1
<1>1. m.rom \in [0 .. RamBase - 1 -> Byte]
  BY Fields DEF Roms
<1>2. "rom" \in DOMAIN m
  BY DEF Machines
<1> QED BY <1>1, <1>2

(* An image that is loaded over itself leaves the ROM as it was. *)
LEMMA BurnedTwice ==
  ASSUME NEW r, NEW data
  PROVE  Burned(Burned(r, data), data) = Burned(r, data)
<1>1. CASE Len(data) > RamBase
  BY <1>1 DEF Burned
<1>2. CASE ~(Len(data) > RamBase)
  <2> DEFINE s == Burned(r, data)
  <2>1. s = [a \in DOMAIN r |-> IF a + 1 \in DOMAIN data THEN data[a + 1] ELSE r[a]]
    BY <1>2 DEF Burned
  <2>2. Burned(s, data) = [a \in DOMAIN s |-> IF a + 1 \in DOMAIN data THEN data[a + 1] ELSE s[a]]
    BY <1>2 DEF Burned
  <2> HIDE DEF s
  <2>3. DOMAIN s = DOMAIN r
    BY <2>1
  <2>4. \A a \in DOMAIN r : (IF a + 1 \in DOMAIN data THEN data[a + 1] ELSE s[a]) = s[a]
    BY <2>1
  <2>5. Burned(s, data) = [a \in DOMAIN s |-> s[a]]
    BY <2>2, <2>3, <2>4
  <2>6. s = [a \in DOMAIN s |-> s[a]]
    BY <2>1
  <2> QED BY <2>5, <2>6 DEF s
<1> QED BY <1>1, <1>2

LEMMA BlankAtPowerOn ==
  ASSUME NEW size
  PROVE  umk_init(size).rom = BlankRom
BY DEF umk_init, BlankRom

(* How one more option changes what was loaded. *)
LEMMA OneMoreOption ==
  ASSUME NEW k \in Nat
  PROVE  /\ session.args[k + 1] = "--rom" => LoadsBy(k + 1) /\ (HalfBy(k + 1) <=> HalfBy(k))
         /\ session.args[k + 1] = "--rom missing" =>
              (LoadsBy(k + 1) <=> LoadsBy(k)) /\ (HalfBy(k + 1) <=> HalfBy(k))
         /\ session.args[k + 1] = "--rev1" => ~LoadsBy(k + 1) /\ HalfBy(k + 1)
<1>1. /\ \A j : j \in 1 .. k + 1 <=> j \in 1 .. k \/ j = k + 1
      /\ \A j \in 1 .. k : j < k + 1
      /\ \A j \in 1 .. k + 1 : ~(k + 1 < j)
  OBVIOUS
<1>2. CASE session.args[k + 1] = "--rom"
  BY <1>1, <1>2 DEF LoadsBy, HalfBy
<1>3. CASE session.args[k + 1] = "--rom missing"
  BY <1>1, <1>3 DEF LoadsBy, HalfBy
<1>4. CASE session.args[k + 1] = "--rev1"
  BY <1>1, <1>4 DEF LoadsBy, HalfBy
<1> QED BY <1>2, <1>3, <1>4

LEMMA RomInvInit ==
  ASSUME CliInit
  PROVE  RomInv
<1> DEFINE m == umk_init(RamMax)
<1>1. PowerOn(m)
  BY DEF CliInit
<1>2. Sound(m) /\ DOMAIN m.ram = 0 .. RamMax - 1
  BY OptionAssumption, PowerOnSound
<1>3. m.rom = BlankRom
  BY BlankAtPowerOn
<1> HIDE DEF m
<1>4. Now = m
  BY <1>1, <1>2, NowIs DEF Sound
<1>5. ~LoadsBy(0) /\ ~HalfBy(0)
  BY DEF LoadsBy, HalfBy
<1>6. Fits(Now, 0)
  BY <1>2, <1>3, <1>4, <1>5 DEF Fits
<1>7. /\ session.args \in Seq({"--rom", "--rom missing", "--rev1"})
      /\ args = session.args /\ state = {}
  BY SessionAssumption DEF CliInit
<1>8. Len(args) \in Nat
  BY <1>7, LenProperties
<1> DEFINE d == Len(session.args) - Len(args)
<1>9. d = 0 /\ \A i \in 1 .. Len(args) : args[i] = args[d + i]
  <2>1. Len(session.args) = Len(args)
    BY <1>7
  <2>2. d = 0
    BY <1>8, <2>1
  <2> HIDE DEF d
  <2>3. \A i \in 1 .. Len(args) : d + i = i
    BY <1>8, <2>2
  <2> QED BY <2>2, <2>3
<1> HIDE DEF d
<1>10. /\ args \in Seq({"--rom", "--rom missing", "--rev1"}) /\ d \in Nat
       /\ \A i \in 1 .. Len(args) : args[i] = session.args[d + i]
       /\ Fits(Now, d)
  BY <1>6, <1>7, <1>9
<1> QED BY <1>7, <1>10 DEF RomInv, d

(* Each option leaves the ROM and the RAM that the options read so far ask for. *)
LEMMA OptionFits ==
  ASSUME CliInv, Option, NEW k \in Nat, Head(args) = session.args[k + 1], Fits(Now, k)
  PROVE  Fits(Now', k + 1)
<1>1. session.image \in Seq(Byte) /\ Sound(Now) /\ Now \in Machines /\ 0 \in Nat
  BY SessionAssumption DEF CliInv, Good, Sound
<1>2. ASSUME NEW m, Becomes(m), Sound(m)
      PROVE  Now' = m
  BY <1>2, NowIs DEF Sound
<1>3. ASSUME Head(args) = "--rom", Becomes(umk_reset(load_bin(Now, 0, session.image, TRUE)))
      PROVE  Fits(Now', k + 1)
  <2> DEFINE p == umk_load_rom(Now, 0, session.image)
             m == umk_reset(p)
  <2>1. Becomes(m)
    BY <1>3 DEF load_bin
  <2>2. Sound(p) /\ p.ram = Now.ram
    BY <1>1, RomSound
  <2>3. p.rom = Burned(BlankRom, session.image)
    <3>1. p.rom = Burned(Now.rom, session.image)
      BY <1>1, RomFields, RomBurned
    <3>2. Now.rom = BlankRom \/ Now.rom = Burned(BlankRom, session.image)
      BY DEF Fits
    <3> QED BY <3>1, <3>2, BurnedTwice
  <2> HIDE DEF p
  <2>4. Sound(m) /\ m.rom = p.rom /\ m.ram = p.ram
    BY <2>2, ResetSound
  <2> HIDE DEF m
  <2>5. LoadsBy(k + 1) /\ (HalfBy(k + 1) <=> HalfBy(k))
    BY <1>3, OneMoreOption
  <2> QED BY <1>2, <2>1, <2>2, <2>3, <2>4, <2>5 DEF Fits
<1>4. ASSUME Head(args) = "--rom missing", Becomes(umk_reset(Now))
      PROVE  Fits(Now', k + 1)
  <2> DEFINE m == umk_reset(Now)
  <2>1. Sound(m) /\ m.rom = Now.rom /\ m.ram = Now.ram
    BY <1>1, ResetSound
  <2>2. Becomes(m)
    BY <1>4
  <2> HIDE DEF m
  <2>3. (LoadsBy(k + 1) <=> LoadsBy(k)) /\ (HalfBy(k + 1) <=> HalfBy(k))
    BY <1>4, OneMoreOption
  <2> QED BY <1>2, <2>1, <2>2, <2>3 DEF Fits
<1>5. ASSUME Head(args) = "--rev1", Becomes(umk_init(RamRev1))
      PROVE  Fits(Now', k + 1)
  <2> DEFINE m == umk_init(RamRev1)
  <2>1. Sound(m) /\ m.rom = BlankRom /\ DOMAIN m.ram = 0 .. RamRev1 - 1
    BY OptionAssumption, PowerOnSound, BlankAtPowerOn
  <2>2. Becomes(m)
    BY <1>5
  <2> HIDE DEF m
  <2>3. ~LoadsBy(k + 1) /\ HalfBy(k + 1)
    BY <1>5, OneMoreOption
  <2> QED BY <1>2, <2>1, <2>2, <2>3 DEF Fits
<1> QED BY <1>3, <1>4, <1>5 DEF Option

(* Every other command keeps them, the ROM unless the user loads it anew. *)
LEMMA MemoryKept ==
  ASSUME CliInv, Control \/ Edit \/ Run \/ RunInstruction
  PROVE  /\ DOMAIN Now'.ram = DOMAIN Now.ram
         /\ Now'.rom = Now.rom \/ Command("rom")
<1>0. Sound(Now) /\ Requests(Now)
  BY DEF CliInv, Good
<1>1. ASSUME NEW m, Becomes(m), Carries(Now, m), m.rom = Now.rom \/ Command("rom")
      PROVE  /\ DOMAIN Now'.ram = DOMAIN Now.ram
             /\ Now'.rom = Now.rom \/ Command("rom")
  <2>1. Now' = m
    BY <1>1, NowIs DEF Carries, Sound
  <2> QED BY <1>1, <2>1 DEF Carries
<1>2. CASE Control
  <2>1. PICK m : Becomes(m) /\ Steers(Now, m)
    BY <1>2, ControlBecomes
  <2> QED BY <1>1, <2>1 DEF Steers
<1>3. CASE Edit
  <2>1. PICK m : Becomes(m) /\ Edits(Now, m) /\ (m.rom = Now.rom \/ Command("rom"))
    BY <1>3, EditBecomes
  <2> QED BY <1>1, <2>1 DEF Edits
<1>4. CASE Run
  <2>1. CASE UNCHANGED <<vars, edited>>
    <3>1. Now' = Now
      BY <2>1 DEF vars, Now
    <3> QED BY <3>1
  <2>2. CASE \E addr \in Targets : SetPc(addr)
    <3>1. PICK m : Becomes(m) /\ Reassigns(Now, m)
      BY <1>0, <2>2, CliAssumption, PcSet
    <3> QED BY <1>1, <3>1 DEF Reassigns, Edits
  <2> QED BY <1>4, <2>1, <2>2 DEF Run
<1>5. CASE RunInstruction
  <2>1. Becomes(umk_step_instruction(Now))
    BY <1>5 DEF RunInstruction
  <2>2. Carries(Now, umk_step_instruction(Now)) /\ umk_step_instruction(Now).rom = Now.rom
    BY <1>0, StepsCarry
  <2> QED BY <1>1, <2>1, <2>2
<1> QED BY <1>2, <1>3, <1>4, <1>5

LEMMA TailOf ==
  ASSUME NEW S, NEW s \in Seq(S), s # << >>
  PROVE  /\ Tail(s) \in Seq(S) /\ Len(Tail(s)) = Len(s) - 1
         /\ Len(s) \in Nat /\ Len(s) > 0 /\ Head(s) = s[1]
         /\ \A i \in 1 .. Len(s) - 1 : Tail(s)[i] = s[i + 1]
OBVIOUS

LEMMA NextArgument ==
  ASSUME NEW S, NEW s \in Seq(S), NEW t \in Seq(S), t # << >>, NEW k \in Nat,
         k = Len(s) - Len(t), \A i \in 1 .. Len(t) : t[i] = s[k + i]
  PROVE  /\ Tail(t) \in Seq(S) /\ Len(s) - Len(Tail(t)) = k + 1 /\ Head(t) = s[k + 1]
         /\ \A i \in 1 .. Len(Tail(t)) : Tail(t)[i] = s[(k + 1) + i]
<1> DEFINE l == Len(t)
           n == Len(s)
           u == Tail(t)
<1>1. /\ u \in Seq(S) /\ Len(u) = l - 1 /\ l \in Nat /\ l > 0 /\ n \in Nat
      /\ Head(t) = t[1] /\ \A i \in 1 .. l - 1 : u[i] = t[i + 1]
  BY TailOf, LenProperties
<1> HIDE DEF u, l, n
<1>2. n - Len(u) = k + 1
  BY <1>1 DEF l, n
<1>3. 1 \in 1 .. l
  BY <1>1
<1>4. ASSUME NEW i \in 1 .. l - 1
      PROVE  i + 1 \in 1 .. l /\ k + (i + 1) = (k + 1) + i
  BY <1>1
<1>5. Head(t) = s[k + 1]
  BY <1>1, <1>3 DEF l
<1>6. \A i \in 1 .. l - 1 : u[i] = s[(k + 1) + i]
  BY <1>1, <1>4 DEF l
<1> QED BY <1>1, <1>2, <1>5, <1>6 DEF u, n

LEMMA RomInvStep ==
  ASSUME CliInv, RomInv, [CliNext]_cvars
  PROVE  RomInv'
<1> DEFINE Opts == {"--rom", "--rom missing", "--rev1"}
           k == Len(session.args) - Len(args)
           Free == "rom" \notin session.commands
<1>0. /\ args \in Seq(Opts) /\ k \in Nat /\ session.args \in Seq(Opts)
      /\ \A i \in 1 .. Len(args) : args[i] = session.args[k + i]
      /\ args # << >> => state = {}
      /\ Free => Fits(Now, k) /\ \A f \in state : Fits(f.m, k)
  BY SessionAssumption DEF RomInv, CliInv
<1>1. ASSUME UNCHANGED <<args, session>>, args # << >> => state' = {},
             Free => Fits(Now', k) /\ \A f \in state' : Fits(f.m, k)
      PROVE  RomInv'
  <2> QED BY <1>0, <1>1 DEF RomInv, Fits, LoadsBy, HalfBy
<1>2. CASE Option
  <2>1. UNCHANGED <<session, state>> /\ args # << >> /\ args' = Tail(args)
    BY <1>2 DEF Option
  <2>2. /\ Tail(args) \in Seq(Opts) /\ Len(session.args) - Len(Tail(args)) = k + 1
        /\ Head(args) = session.args[k + 1]
        /\ \A i \in 1 .. Len(Tail(args)) : Tail(args)[i] = session.args[(k + 1) + i]
    <3> DEFINE l == k
    <3>1. l \in Nat /\ l = Len(session.args) - Len(args)
      BY <1>0
    <3> HIDE DEF l
    <3>2. \A i \in 1 .. Len(args) : args[i] = session.args[l + i]
      BY <1>0 DEF l
    <3> HIDE DEF k, Opts
    <3> QED BY <1>0, <2>1, <3>1, <3>2, NextArgument DEF l
  <2>3. Free => Fits(Now', k + 1)
    <3> HIDE DEF k
    <3> QED BY <1>0, <1>2, <2>2, OptionFits
  <2>4. state' = {} /\ session' = session
    BY <1>0, <2>1
  <2> HIDE DEF k
  <2>5. k + 1 \in Nat
    <3>1. k \in Nat
      BY <1>0
    <3> HIDE <1>0
    <3> QED BY <3>1
  <2> QED BY <2>1, <2>2, <2>3, <2>4, <2>5 DEF RomInv, Fits, LoadsBy, HalfBy
<1>3. CASE Control \/ Edit \/ Run \/ RunInstruction
  <2>1. UNCHANGED <<args, session, state>>
    BY <1>3 DEF Control, Edit, Run, RunInstruction, cli
  <2>2. Free => Fits(Now', k)
    <3> HIDE DEF k
    <3> QED BY <1>0, <1>3, MemoryKept DEF Fits, Command
  <2> QED BY <1>0, <1>1, <2>1, <2>2
<1>4. CASE StateSave
  <2>1. UNCHANGED <<args, session, vars>> /\ args = << >>
    BY <1>4 DEF StateSave, Command
  <2>2. Now' = Now
    BY <2>1 DEF vars, Now
  <2>3. \A f \in state' : f.m = Now
    BY <1>4 DEF StateSave
  <2> QED BY <1>0, <1>1, <2>1, <2>2, <2>3
<1>5. CASE StateLoad
  <2>1. UNCHANGED <<args, session, state>>
    BY <1>5 DEF StateLoad, cli
  <2>2. PICK f \in state : Becomes(f.m)
    BY <1>5 DEF StateLoad, umk_state_load
  <2>3. Now' = f.m
    BY <2>2, NowIs DEF CliInv, Good, Sound
  <2> QED BY <1>0, <1>1, <2>1, <2>3
<1>6. CASE Bp \/ RunOver \/ SaveHex \/ Quit \/ UNCHANGED cvars
  <2>1. UNCHANGED <<vars, args, session, state>>
    BY <1>6 DEF Bp, RunOver, SaveHex, Quit, cvars, cli
  <2>2. Now' = Now
    BY <2>1 DEF vars, Now
  <2> QED BY <1>0, <1>1, <2>1, <2>2
<1> QED BY <1>2, <1>3, <1>4, <1>5, <1>6 DEF CliNext

LEMMA RomInvImplies ==
  ASSUME CliInv, RomInv
  PROVE  RomUnlessRev1Follows
<1> DEFINE N == Len(session.args)
           loaded == \E i \in Position("--rom") : \A j \in Position("--rev1") : j < i
<1>1. SUFFICES ASSUME args = << >>, "rom" \notin session.commands
               PROVE  /\ rom = (IF loaded THEN umk_load_rom(umk_init(1), 0, session.image).rom
                                ELSE umk_init(1).rom)
                      /\ Cardinality(DOMAIN ram) = IF Position("--rev1") = {} THEN RamMax ELSE RamRev1
  BY DEF RomUnlessRev1Follows
<1>2. session.args \in Seq({"--rom", "--rom missing", "--rev1"}) /\ session.image \in Seq(Byte)
  BY SessionAssumption DEF CliInv
<1>3. N \in Nat /\ DOMAIN session.args = 1 .. N /\ Len(args) = 0
  BY <1>1, <1>2, LenProperties, EmptySeq
<1>4. Fits(Now, N)
  <2>1. Fits(Now, N - Len(args))
    BY <1>1 DEF RomInv
  <2>2. N - Len(args) = N
    BY <1>3
  <2> QED BY <2>1, <2>2
<1>5. loaded <=> LoadsBy(N)
  BY <1>3 DEF LoadsBy, Position
<1>6. Position("--rev1") = {} <=> ~HalfBy(N)
  BY <1>3 DEF HalfBy, Position
<1>7. /\ umk_init(1).rom = BlankRom
      /\ umk_load_rom(umk_init(1), 0, session.image).rom = Burned(BlankRom, session.image)
  <2>1. umk_init(1).rom = BlankRom
    BY BlankAtPowerOn
  <2>2. "rom" \in DOMAIN umk_init(1) /\ DOMAIN BlankRom = 0 .. RamBase - 1
    BY DEF umk_init, BlankRom
  <2> QED BY <1>2, <2>1, <2>2, RomBurned
<1> HIDE DEF loaded
<1>8. rom = (IF loaded THEN umk_load_rom(umk_init(1), 0, session.image).rom ELSE umk_init(1).rom)
  BY <1>4, <1>5, <1>7, NowFields DEF Fits
<1>9. ASSUME NEW size \in RamSizes PROVE Cardinality(0 .. size - 1) = size
  <2>1. size \in Int /\ size >= 1
    BY UmkAssumption
  <2>2. size - 1 \in Int /\ 0 \in Int /\ ~(0 > size - 1) /\ (size - 1) - 0 + 1 = size
    BY <2>1
  <2> QED BY <2>2, FS_Interval
<1>10. Cardinality(DOMAIN ram) = IF Position("--rev1") = {} THEN RamMax ELSE RamRev1
  BY <1>4, <1>6, <1>9, OptionAssumption, NowFields DEF Fits
<1> QED BY <1>8, <1>10

(* After the options the ROM is that of --rom unless a --rev1 came after it,   *)
(* and RAM is halved by --rev1, for as long as no command loads the ROM.      *)
THEOREM RomsAreKept == CliSpec => []RomUnlessRev1Follows
<1>1. CliInit => RomInv
  BY RomInvInit
<1>2. CliInv /\ RomInv /\ [CliNext]_cvars => RomInv'
  BY RomInvStep
<1>3. CliInv /\ RomInv => RomUnlessRev1Follows
  BY RomInvImplies
<1> QED BY <1>1, <1>2, <1>3, CliInvariant, PTL DEF CliSpec

-----------------------------------------------------------------------------
(* What is in memory after bytes, and records, have been poked: in each cell  *)
(* the last byte that landed there.                                          *)
LEMMA PokeLands ==
  ASSUME NEW m, Sound(m), NEW addr \in Address, NEW val, NEW i \in DOMAIN m.ram
  PROVE  umk_poke(m, addr, val).ram[i] = IF Lands(m, addr, i) THEN val ELSE m.ram[i]
<1>1. m \in Machines /\ addr \in Int
  BY OfAddress DEF Sound
<1>2. umk_poke(m, addr, val).ram =
        IF InRam(addr) THEN [m.ram EXCEPT ![RamIndex(m, addr)] = val] ELSE m.ram
  BY <1>1, PokedRam
<1> QED BY <1>2 DEF Lands

LEMMA LandsAlike ==
  ASSUME NEW m, NEW n, DOMAIN n.ram = DOMAIN m.ram, NEW addr, NEW i
  PROVE  Lands(n, addr, i) <=> Lands(m, addr, i)
BY DEF Lands, RamIndex

(* The bytes among the first n of data that land in cell i. *)
Puts(m, addr, i, n) == {k \in 1 .. n : Lands(m, Word(addr + k - 1), i)}

LastOf(K, data, old, x) ==
  \/ K = {} /\ x = old
  \/ \E k \in K : (\A l \in K : l <= k) /\ x = data[k]

LEMMA LoadLast ==
  ASSUME NEW m, Sound(m), NEW addr \in Nat, NEW data \in Seq(Byte), NEW i \in DOMAIN m.ram
  PROVE  LastOf(Puts(m, addr, i, Len(data)), data, m.ram[i],
                umk_load_ram(m, addr, data).ram[i])
<1> DEFINE c == Len(data)
           t == Loaded(m, addr, data)
           K(n) == Puts(m, addr, i, n)
           W == {n \in 0 .. c : LastOf(K(n), data, m.ram[i], t[n].ram[i])}
<1>1. c \in Nat
  BY LenProperties
<1>2. /\ t[0] = m /\ \A n \in 0 .. c : Writes(m, t[n])
      /\ \A n \in 1 .. c : t[n] = umk_poke(t[n - 1], Word(addr + n - 1), data[n])
  BY LoadSteps
<1> HIDE DEF t
<1>3. 0 \in W
  <2>1. K(0) = {}
    BY DEF Puts
  <2> QED BY <1>1, <1>2, <2>1 DEF LastOf
<1>4. ASSUME NEW n \in 1 .. c, n - 1 \in W
      PROVE  n \in W
  <2> DEFINE p == t[n - 1]
             a == Word(addr + n - 1)
  <2>1. Sound(p) /\ DOMAIN p.ram = DOMAIN m.ram
    <3>1. n - 1 \in 0 .. c
      BY <1>1
    <3> QED BY <1>2, <3>1 DEF Writes, Edits, Carries
  <2>2. LastOf(K(n - 1), data, m.ram[i], p.ram[i])
    BY <1>4
  <2>3. a \in Address
    BY <1>1, WordType
  <2>4. t[n] = umk_poke(p, a, data[n])
    BY <1>2
  <2> HIDE DEF p
  <2>5. t[n].ram[i] = IF Lands(m, a, i) THEN data[n] ELSE p.ram[i]
    <3> HIDE DEF a
    <3> QED BY <2>1, <2>3, <2>4, PokeLands, LandsAlike
  <2>6. K(n) = IF Lands(m, a, i) THEN K(n - 1) \cup {n} ELSE K(n - 1)
    <3>1. \A k : k \in 1 .. n <=> k \in 1 .. n - 1 \/ k = n
      BY <1>1
    <3> QED BY <3>1 DEF Puts
  <2>7. \A k \in K(n - 1) : k <= n
    BY <1>1 DEF Puts
  <2>8. n <= n /\ n \in 0 .. c
    BY <1>1
  <2> HIDE DEF K, a, t
  <2>9. LastOf(K(n), data, m.ram[i], t[n].ram[i])
    <3>1. CASE Lands(m, a, i)
      <4>1. n \in K(n) /\ (\A l \in K(n) : l <= n) /\ t[n].ram[i] = data[n]
        BY <2>5, <2>6, <2>7, <2>8, <3>1
      <4> QED BY <4>1 DEF LastOf
    <3>2. CASE ~Lands(m, a, i)
      BY <2>2, <2>5, <2>6, <3>2
    <3> QED BY <3>1, <3>2
  <2> QED BY <2>8, <2>9
<1>5. \A n \in 1 .. c : n - 1 \in W => n \in W
  BY <1>4
<1> HIDE DEF W
<1>6. \A n \in 0 .. c : n \in W
  BY <1>1, <1>3, <1>5, Upwards
<1>7. c \in W
  BY <1>1, <1>6
<1> QED BY <1>7 DEF W, t, umk_load_ram

(* The same for records: the last one counts, and in it the last byte. *)
InCell(ws, file, old, x) ==
  \/ ws = {} /\ x = old
  \/ \E w \in ws : (\A v \in ws : Later(w, v)) /\ x = file[w[1]].data[w[2]]

LEMMA PokesAre ==
  ASSUME NEW m, NEW file \in Seq(Record), NEW i, NEW n \in 0 .. Len(file)
  PROVE  \A w : w \in Pokes_at(m, file, i, n) <=>
           \E j \in 1 .. n : \E k \in 1 .. Len(file[j].data) :
              w = <<j, k>> /\ file[j].type = 0 /\ Lands(m, Word(file[j].addr + k - 1), i)
<1>1. \A j \in 1 .. n : DOMAIN file[j].data = 1 .. Len(file[j].data)
  <2>1. \A j \in 1 .. n : j \in 1 .. Len(file)
    BY LenProperties
  <2>2. \A j \in 1 .. n : file[j] \in Record
    BY <2>1, ElementOfSeq
  <2>3. \A r \in Record : r.data \in Seq(Byte)
    BY DEF Record
  <2> QED BY <2>2, <2>3, LenProperties
<1> QED BY <1>1 DEF Pokes_at

LEMMA RecordLast ==
  ASSUME NEW m, NEW file \in Seq(Record), NEW i \in DOMAIN m.ram, NEW n \in 1 .. Len(file),
         NEW p, Sound(p), DOMAIN p.ram = DOMAIN m.ram,
         InCell(Pokes_at(m, file, i, n - 1), file, m.ram[i], p.ram[i])
  PROVE  InCell(Pokes_at(m, file, i, n), file, m.ram[i], LoadRecord(p, file[n]).ram[i])
<1> DEFINE r == file[n]
           old == Pokes_at(m, file, i, n - 1)
           new == Pokes_at(m, file, i, n)
           K == Puts(p, r.addr, i, Len(r.data))
           q == LoadRecord(p, r)
<1>0. Len(file) \in Nat /\ r \in Record /\ n - 1 \in 0 .. Len(file) /\ n \in 0 .. Len(file)
  BY LenProperties, ElementOfSeq
<1>1. r.addr \in Nat /\ r.data \in Seq(Byte) /\ Len(r.data) \in Nat
  BY <1>0, LenProperties DEF Record
<1>2. \A w : w \in old <=>
        \E j \in 1 .. n - 1 : \E k \in 1 .. Len(file[j].data) :
           w = <<j, k>> /\ file[j].type = 0 /\ Lands(m, Word(file[j].addr + k - 1), i)
  BY <1>0, PokesAre
<1>3. \A w : w \in new <=>
        \E j \in 1 .. n : \E k \in 1 .. Len(file[j].data) :
           w = <<j, k>> /\ file[j].type = 0 /\ Lands(m, Word(file[j].addr + k - 1), i)
  BY <1>0, PokesAre
<1>4. \A k : k \in K <=> k \in 1 .. Len(r.data) /\ Lands(m, Word(r.addr + k - 1), i)
  BY LandsAlike DEF Puts
<1>5. \A j : j \in 1 .. n <=> j \in 1 .. n - 1 \/ j = n
  OBVIOUS
<1>6. \A w : w \in new <=> w \in old \/ (r.type = 0 /\ \E k \in K : w = <<n, k>>)
  BY <1>2, <1>3, <1>4, <1>5
<1>7. \A w \in old : w[1] < n
  BY <1>0, <1>2
<1> HIDE DEF old, new, r
<1>8. CASE r.type # 0
  <2>1. new = old
    BY <1>6, <1>8
  <2>2. q = p
    BY <1>8 DEF LoadRecord
  <2> QED BY <2>1, <2>2 DEF old, new, r
<1>9. CASE r.type = 0
  <2>1. q = umk_load_ram(p, r.addr, r.data)
    BY <1>9 DEF LoadRecord
  <2>2. LastOf(K, r.data, p.ram[i], q.ram[i])
    BY <1>1, <2>1, LoadLast
  <2> HIDE DEF q, K
  <2>3. CASE K = {} /\ q.ram[i] = p.ram[i]
    <3>1. new = old
      BY <1>6, <2>3
    <3> QED BY <2>3, <3>1 DEF old, new, r, q
  <2>4. ASSUME NEW k \in K, \A l \in K : l <= k, q.ram[i] = r.data[k]
        PROVE  InCell(new, file, m.ram[i], q.ram[i])
    <3> DEFINE w == <<n, k>>
    <3>1. w \in new /\ w[1] = n /\ w[2] = k
      BY <1>6, <1>9
    <3>2. \A v \in new : Later(w, v)
      <4>1. ASSUME NEW v \in new PROVE Later(w, v)
        <5>1. CASE v \in old
          BY <1>7, <3>1, <5>1 DEF Later
        <5>2. ASSUME NEW l \in K, v = <<n, l>> PROVE Later(w, v)
          <6>1. v[1] = n /\ v[2] = l /\ l <= k /\ l \in Nat /\ k \in Nat
            BY <1>4, <1>1, <2>4, <5>2
          <6> QED BY <3>1, <6>1 DEF Later
        <5> QED BY <1>6, <5>1, <5>2
      <4> QED BY <4>1
    <3>3. q.ram[i] = file[w[1]].data[w[2]]
      BY <2>4, <3>1 DEF r
    <3> HIDE DEF w
    <3> QED BY <3>1, <3>2, <3>3 DEF InCell
  <2> QED BY <2>2, <2>3, <2>4 DEF LastOf, new, q, r
<1> QED BY <1>8, <1>9

LEMMA RecordsLast ==
  ASSUME NEW m, Sound(m), NEW file \in Seq(Record), NEW i \in DOMAIN m.ram
  PROVE  InCell(Pokes_at(m, file, i, Len(file)), file, m.ram[i],
                Records(m, file)[Len(file)].ram[i])
<1> DEFINE c == Len(file)
           t == Records(m, file)
           W == {n \in 0 .. c : InCell(Pokes_at(m, file, i, n), file, m.ram[i], t[n].ram[i])}
<1>1. c \in Nat
  BY LenProperties
<1>2. /\ t[0] = m /\ \A n \in 0 .. c : Writes(m, t[n])
      /\ \A n \in 1 .. c : t[n] = LoadRecord(t[n - 1], file[n])
  BY RecordSteps
<1> HIDE DEF t
<1>3. 0 \in W
  <2>1. Pokes_at(m, file, i, 0) = {}
    BY DEF Pokes_at
  <2> QED BY <1>1, <1>2, <2>1 DEF InCell
<1>4. ASSUME NEW n \in 1 .. c, n - 1 \in W
      PROVE  n \in W
  <2> DEFINE p == t[n - 1]
  <2>1. Sound(p) /\ DOMAIN p.ram = DOMAIN m.ram
    <3>1. n - 1 \in 0 .. c
      BY <1>1
    <3> QED BY <1>2, <3>1 DEF Writes, Edits, Carries
  <2>2. InCell(Pokes_at(m, file, i, n - 1), file, m.ram[i], p.ram[i])
    BY <1>4
  <2>3. t[n] = LoadRecord(p, file[n])
    BY <1>2
  <2> HIDE DEF p
  <2>4. InCell(Pokes_at(m, file, i, n), file, m.ram[i], t[n].ram[i])
    BY <2>1, <2>2, <2>3, RecordLast
  <2>5. n \in 0 .. c
    BY <1>1
  <2> QED BY <2>4, <2>5
<1>5. \A n \in 1 .. c : n - 1 \in W => n \in W
  BY <1>4
<1> HIDE DEF W
<1>6. \A n \in 0 .. c : n \in W
  BY <1>1, <1>3, <1>5, Upwards
<1>7. c \in W
  BY <1>1, <1>6
<1> QED BY <1>7 DEF W, t

LEMMA HexLast ==
  ASSUME NEW m, Sound(m), NEW file \in Seq(Record), NEW i \in DOMAIN m.ram
  PROVE  InCell(Pokes_at(m, file, i, Len(Upto(file))), file, m.ram[i], load_hex(m, file).ram[i])
<1> DEFINE u == Upto(file)
           k == Len(u)
           read == Pokes_at(m, u, i, k)
           ws == Pokes_at(m, file, i, k)
<1>1. /\ u \in Seq(Record) /\ k \in Nat /\ k \in 0 .. k /\ k \in 0 .. Len(file)
      /\ \A j \in 1 .. k : u[j] = file[j]
  BY UptoIs, LenProperties
<1>2. InCell(read, u, m.ram[i], load_hex(m, file).ram[i])
  BY <1>1, RecordsLast DEF load_hex
<1> HIDE DEF u, k
<1>3. \A w : w \in read <=>
        \E j \in 1 .. k : \E l \in 1 .. Len(u[j].data) :
           w = <<j, l>> /\ u[j].type = 0 /\ Lands(m, Word(u[j].addr + l - 1), i)
  BY <1>1, PokesAre DEF k
<1>4. \A w : w \in ws <=>
        \E j \in 1 .. k : \E l \in 1 .. Len(file[j].data) :
           w = <<j, l>> /\ file[j].type = 0 /\ Lands(m, Word(file[j].addr + l - 1), i)
  BY <1>1, PokesAre
<1>5. \A w \in ws : u[w[1]] = file[w[1]]
  BY <1>1, <1>4
<1> HIDE DEF ws, read
<1>6. ws = read
  <2>1. ASSUME NEW w \in ws PROVE w \in read
    <3>1. PICK j \in 1 .. k : \E l \in 1 .. Len(file[j].data) :
             w = <<j, l>> /\ file[j].type = 0 /\ Lands(m, Word(file[j].addr + l - 1), i)
      BY <1>4
    <3>2. u[j] = file[j]
      BY <1>1
    <3> QED BY <1>3, <3>1, <3>2
  <2>2. ASSUME NEW w \in read PROVE w \in ws
    <3>1. PICK j \in 1 .. k : \E l \in 1 .. Len(u[j].data) :
             w = <<j, l>> /\ u[j].type = 0 /\ Lands(m, Word(u[j].addr + l - 1), i)
      BY <1>3
    <3>2. u[j] = file[j]
      BY <1>1
    <3> QED BY <1>4, <3>1, <3>2
  <2> QED BY <2>1, <2>2
<1>7. InCell(ws, file, m.ram[i], load_hex(m, file).ram[i])
  BY <1>2, <1>5, <1>6 DEF InCell
<1> QED BY <1>7 DEF ws, k, u

LEMMA PokesRead ==
  ASSUME NEW m, NEW file \in Seq(Record), NEW i
  PROVE  UNION {Pokes_at(m, file, i, n) : n \in ReadRecords(file)} =
           Pokes_at(m, file, i, Len(Upto(file)))
<1> DEFINE k == Len(Upto(file))
           P(n) == Pokes_at(m, file, i, n)
<1>1. ReadRecords(file) = 1 .. k /\ k \in 0 .. Len(file)
  BY UptoIs
<1>2. k \in Nat
  BY <1>1, LenProperties
<1>3. ASSUME NEW n \in 1 .. k PROVE P(n) \subseteq P(k)
  <2>1. \A j \in 1 .. n : j \in 1 .. k
    BY <1>2
  <2> QED BY <2>1 DEF Pokes_at
<1>4. CASE k = 0
  <2>1. P(k) = {} /\ ReadRecords(file) = {}
    BY <1>1, <1>4 DEF Pokes_at
  <2> HIDE DEF P, k
  <2> QED BY <2>1 DEF P, k
<1>5. CASE k # 0
  <2>1. k \in 1 .. k
    BY <1>2, <1>5
  <2> HIDE DEF P, k
  <2>2. UNION {P(n) : n \in 1 .. k} = P(k)
    BY <1>3, <2>1
  <2> QED BY <1>1, <2>2 DEF P, k
<1> QED BY <1>4, <1>5

LEMMA FileStops ==
  ASSUME CliInv, NEW file \in HexFiles, LoadHex(file), NEW i \in DOMAIN ram,
         NEW ws, ws = UNION {Pokes_at(Now, file, i, n) : n \in ReadRecords(file)}
  PROVE  IF ws = {} THEN ram'[i] = ram[i]
         ELSE \E w \in ws : (\A v \in ws : Later(w, v)) /\ ram'[i] = file[w[1]].data[w[2]]
<1>1. Sound(Now) /\ Now.ram = ram /\ file \in Seq(Record)
  BY NowFields, CliAssumption DEF CliInv, Good
<1>2. ram' = load_hex(Now, file).ram
  BY DEF LoadHex, Becomes
<1>3. ws = Pokes_at(Now, file, i, Len(Upto(file)))
  BY <1>1, PokesRead
<1>4. InCell(ws, file, Now.ram[i], load_hex(Now, file).ram[i])
  BY <1>1, <1>3, HexLast
<1> QED BY <1>1, <1>2, <1>4 DEF InCell

(* A HEX file that is refused has put into memory every record up to the bad  *)
(* one, that one included, and nothing of what comes after.                  *)
THEOREM FilesStopAtTheBadRecord == CliSpec => BadFileStopsAtRecord
<1>1. ASSUME CliInv
      PROVE  [\A file \in HexFiles : LoadHex(file) =>
               \A i \in DOMAIN ram :
                 LET ws == UNION {Pokes_at(Now, file, i, n) : n \in ReadRecords(file)}
                 IN  IF ws = {} THEN ram'[i] = ram[i]
                     ELSE \E w \in ws : (\A v \in ws : Later(w, v))
                                        /\ ram'[i] = file[w[1]].data[w[2]]]_cvars
  BY <1>1, FileStops
<1>2. CliInv /\ [CliNext]_cvars =>
        [\A file \in HexFiles : LoadHex(file) =>
               \A i \in DOMAIN ram :
                 LET ws == UNION {Pokes_at(Now, file, i, n) : n \in ReadRecords(file)}
                 IN  IF ws = {} THEN ram'[i] = ram[i]
                     ELSE \E w \in ws : (\A v \in ws : Later(w, v))
                                        /\ ram'[i] = file[w[1]].data[w[2]]]_cvars
  BY <1>1
<1> QED BY <1>2, CliInvariant, PTL DEF CliSpec, BadFileStopsAtRecord

(* Records of RecordSize bytes, the last one of what is left. *)
LEMMA Divided ==
  ASSUME NEW R \in Nat, R > 0, NEW x \in Nat
  PROVE  /\ x \div R \in Nat /\ x % R \in 0 .. R - 1
         /\ x = R * (x \div R) + (x % R)
OBVIOUS

LEMMA Larger ==
  ASSUME NEW R \in Nat, NEW x \in Nat, NEW y \in Nat, x <= y
  PROVE  R * x \in Nat /\ R * y \in Nat /\ R * x <= R * y
OBVIOUS

LEMMA QuotientsOrdered ==
  ASSUME NEW R \in Nat, R > 0, NEW x \in Nat, NEW y \in Nat, x < y
  PROVE  x \div R + 1 <= (y + R - 1) \div R
<1> DEFINE p == x \div R
           z == y + R - 1
           q == z \div R
<1>1. p \in Nat /\ x % R \in 0 .. R - 1 /\ x = R * p + (x % R)
  BY Divided
<1>2. z \in Nat
  OBVIOUS
<1>3. q \in Nat /\ z % R \in 0 .. R - 1 /\ z = R * q + (z % R)
  <2> HIDE DEF z
  <2> QED BY <1>2, Divided
<1>4. z >= x + R
  OBVIOUS
<1> HIDE DEF p, q, z
<1>5. SUFFICES ASSUME q <= p PROVE FALSE
  BY <1>1, <1>3 DEF p, q, z
<1>6. R * q <= R * p /\ R * q \in Nat /\ R * p \in Nat
  BY <1>1, <1>3, <1>5, Larger
<1>7. x >= R * p /\ z < R * q + R
  BY <1>1, <1>2, <1>3, <1>6
<1> QED BY <1>2, <1>4, <1>6, <1>7

Chunk(len, done) == IF len - done < RecordSize THEN len - done ELSE RecordSize

LEMMA ChunkBounds ==
  ASSUME NEW len \in Nat, NEW done \in Nat, RecordSize \in Nat, NEW k \in 1 .. Chunk(len, done)
  PROVE  k \in Nat /\ k >= 1 /\ k <= RecordSize /\ k <= len - done
<1>1. CASE len - done < RecordSize
  BY <1>1 DEF Chunk
<1>2. CASE ~(len - done < RecordSize)
  BY <1>2 DEF Chunk
<1> QED BY <1>1, <1>2

SavedAs(r, m, addr, n) ==
  /\ r.addr = addr /\ r.type = 0 /\ r.sum_ok = (addr \in Address)
  /\ DOMAIN r.data = 1 .. n
  /\ \A k \in 1 .. n : r.data[k] = umk_peek(m, Word(addr + k - 1))

LEMMA SavedRecords ==
  ASSUME NEW m \in Machines, NEW addr \in Address, NEW len \in Nat,
         NEW file, file = save_hex(m, addr, len)
  PROVE  /\ file \in Seq(Record)
         /\ Len(file) = (len + RecordSize - 1) \div RecordSize
         /\ \A j \in 1 .. Len(file) : \A d : d = RecordSize * (j - 1) =>
              d \in Nat /\ SavedAs(file[j], m, addr + d, Chunk(len, d))
<1> DEFINE c == (len + RecordSize - 1) \div RecordSize
           r(d) == [addr |-> addr + d, type |-> 0, sum_ok |-> addr + d \in Address,
                    data |-> [k \in 1 .. Chunk(len, d) |-> umk_peek(m, Word(addr + d + k - 1))]]
<1>1. RecordSize \in Nat /\ RecordSize > 0 /\ addr \in Nat
  BY CliAssumption, OfAddress
<1>2. c \in Nat
  <2>1. len + RecordSize - 1 \in Nat
    BY <1>1
  <2> HIDE DEF c
  <2> QED BY <1>1, <2>1, Divided DEF c
<1>3. file = [j \in 1 .. c |-> r(RecordSize * (j - 1))]
  BY DEF save_hex, Chunk
<1>4. file \in Seq(Record)
  BY HexType
<1> HIDE DEF r
<1>5. Len(file) = c
  <2>1. DOMAIN file = 1 .. c /\ DOMAIN file = 1 .. Len(file) /\ Len(file) \in Nat
    BY <1>3, <1>4, LenProperties
  <2> HIDE DEF c
  <2> QED BY <1>2, <2>1
<1> HIDE DEF c
<1>6. ASSUME NEW j \in 1 .. c, NEW d, d = RecordSize * (j - 1)
      PROVE  d \in Nat /\ SavedAs(file[j], m, addr + d, Chunk(len, d))
  <2>1. j - 1 \in Nat
    BY <1>2
  <2>2. d \in Nat
    BY <1>1, <1>6, <2>1
  <2>3. file[j] = r(d)
    BY <1>3, <1>6
  <2>4. SavedAs(r(d), m, addr + d, Chunk(len, d))
    BY DEF r, SavedAs
  <2> QED BY <2>2, <2>3, <2>4
<1> QED BY <1>4, <1>5, <1>6 DEF c

(* Every byte poked from a file of savehex is one of the range, as it was:    *)
(* those past FFFF end in ROM.                                               *)
LEMMA SavedByte ==
  ASSUME NEW m \in Machines, NEW p \in Machines, DOMAIN m.ram = DOMAIN p.ram,
         NEW addr \in Address, NEW len \in Nat,
         NEW file, file = save_hex(m, addr, len), NEW i,
         NEW w \in Pokes_at(p, file, i, Len(Upto(file)))
  PROVE  /\ \E b \in addr .. addr + len - 1 : Lands(p, b, i)
         /\ file[w[1]].data[w[2]] = m.ram[i]
<1> DEFINE R == RecordSize
           j == w[1]
           k == w[2]
           d == R * (j - 1)
           a == addr + d + k - 1
<1>1. /\ file \in Seq(Record) /\ Len(file) \in Nat /\ addr \in Nat /\ addr <= 65535
      /\ R \in Nat /\ R > 0 /\ 2 * R <= RamBase /\ RamBase \in Nat /\ RamBase <= 65535
  <2>1. R \in Nat /\ R > 0
    BY CliAssumption
  <2>2. 2 * R <= RamBase /\ RamBase \in Nat /\ RamBase <= 65535
    BY HexAssumption, MemoryAssumption
  <2> QED BY <2>1, <2>2, SavedRecords, LenProperties, OfAddress
<1>2. j \in 1 .. Len(Upto(file)) /\ k \in DOMAIN file[j].data /\ file[j].type = 0
      /\ Lands(p, Word(file[j].addr + k - 1), i)
  BY DEF Pokes_at
<1>3. j \in 1 .. Len(file) /\ j \in Nat
  BY <1>1, <1>2, UptoIs
<1>4. /\ d \in Nat /\ file[j].addr = addr + d /\ k \in 1 .. Chunk(len, d)
      /\ file[j].data[k] = umk_peek(m, Word(addr + d + k - 1))
  <2>1. d \in Nat /\ SavedAs(file[j], m, addr + d, Chunk(len, d))
    BY <1>3, SavedRecords
  <2> HIDE DEF d, j, k
  <2>2. file[j].addr = addr + d /\ k \in 1 .. Chunk(len, d)
    BY <1>2, <2>1 DEF SavedAs
  <2>3. file[j].data[k] = umk_peek(m, Word(addr + d + k - 1))
    BY <2>1, <2>2 DEF SavedAs
  <2> QED BY <2>1, <2>2, <2>3
<1>5. k \in Nat /\ k >= 1 /\ k <= R /\ k <= len - d
  <2>1. d \in Nat /\ k \in 1 .. Chunk(len, d)
    BY <1>4
  <2> HIDE DEF d, k
  <2> QED BY <1>1, <2>1, ChunkBounds
<1>6. addr + d <= 65535 + R
  <2>1. CASE j = 1
    <3>1. d = 0
      BY <1>1, <2>1
    <3> QED BY <1>1, <3>1
  <2>2. CASE j # 1
    <3>1. j - 1 \in 1 .. Len(file) /\ j - 1 \in 1 .. j - 1
      BY <1>3, <2>2
    <3> DEFINE e == R * ((j - 1) - 1)
    <3>2. file[j - 1].sum_ok
      <4>1. j \in ReadRecords(file)
        BY <1>1, <1>2, UptoIs
      <4> HIDE DEF j
      <4> QED BY <3>1, <4>1 DEF ReadRecords
    <3>3. e \in Nat /\ SavedAs(file[j - 1], m, addr + e, Chunk(len, e))
      BY <3>1, SavedRecords
    <3>4. d = e + R
      BY <1>1, <1>3
    <3> HIDE DEF e, d, R, j
    <3>5. addr + e \in Address
      BY <3>2, <3>3 DEF SavedAs
    <3>6. addr + e <= 65535
      BY <3>5, OfAddress
    <3> QED BY <1>1, <3>3, <3>4, <3>6
  <2> QED BY <2>1, <2>2
<1> HIDE DEF d, R, j, k
<1>7. a \in Nat /\ a <= 65535 + R + R - 1 /\ Lands(p, Word(a), i)
  BY <1>1, <1>2, <1>4, <1>5, <1>6
<1>8. a <= 65535
  <2> HIDE DEF a
  <2>1. SUFFICES ASSUME a > 65535 PROVE FALSE
    BY <1>7
  <2>2. a - 65536 \in Nat /\ a - 65536 < RamBase /\ a < 131072
    BY <1>1, <1>7, <2>1
  <2>3. Word(a) = a - 65536
    BY <1>7, <2>1, <2>2 DEF Word
  <2>4. ~InRam(Word(a))
    BY <1>1, <2>2, <2>3 DEF InRam
  <2> QED BY <1>7, <2>4 DEF Lands
<1>9. Word(a) = a
  BY <1>7, <1>8 DEF Word
<1>10. a \in addr .. addr + len - 1
  BY <1>1, <1>4, <1>5
<1>11. Lands(p, a, i) /\ file[j].data[k] = umk_peek(m, a)
  BY <1>4, <1>7, <1>9
<1> HIDE DEF a
<1>12. umk_peek(m, a) = m.ram[i]
  <2>1. Lands(m, a, i)
    BY <1>11, LandsAlike
  <2>2. ~InRom(a)
    BY <1>1, <1>7, <2>1 DEF Lands, InRam, InRom
  <2> QED BY <2>1, <2>2 DEF Lands, umk_peek
<1> QED BY <1>10, <1>11, <1>12 DEF j, k

(* Every byte of the range that lies in RAM is poked. *)
LEMMA ByteSaved ==
  ASSUME NEW m \in Machines, NEW p,
         NEW addr \in Address, NEW len \in Nat,
         NEW file, file = save_hex(m, addr, len), NEW i,
         NEW b \in addr .. addr + len - 1, Lands(p, b, i)
  PROVE  Pokes_at(p, file, i, Len(Upto(file))) # {}
<1> DEFINE R == RecordSize
           x == b - addr
           q == x \div R
           j == q + 1
           k == (x % R) + 1
<1>1. /\ file \in Seq(Record) /\ Len(file) \in Nat /\ addr \in Nat
      /\ Len(file) = (len + R - 1) \div R /\ R \in Nat /\ R > 0
  <2>1. file \in Seq(Record) /\ Len(file) = (len + R - 1) \div R
    BY SavedRecords
  <2>2. R \in Nat /\ R > 0
    BY CliAssumption
  <2> HIDE DEF R
  <2> QED BY <2>1, <2>2, LenProperties, OfAddress
<1>2. x \in Nat /\ x < len /\ b = addr + x
  BY <1>1
<1>3. b <= 65535
  BY MemoryAssumption DEF Lands, InRam
<1>4. q \in Nat /\ x % R \in 0 .. R - 1 /\ x = R * q + (x % R)
  BY <1>1, <1>2, Divided
<1>5. j <= Len(file)
  BY <1>1, <1>2, QuotientsOrdered
<1> HIDE DEF x, q, k
<1>6. j \in 1 .. Len(file) /\ j - 1 = q
  BY <1>1, <1>4, <1>5
<1> DEFINE d == R * q
<1>7. d \in Nat /\ x = d + (x % R) /\ x % R \in Nat /\ x % R < R
  <2>1. d \in Nat
    BY <1>1, <1>4
  <2> QED BY <1>1, <1>4, <2>1
<1>8. SavedAs(file[j], m, addr + d, Chunk(len, d))
  BY <1>6, SavedRecords
<1>9. k \in 1 .. Chunk(len, d)
  <2> HIDE DEF d
  <2>1. k \in Nat /\ k >= 1 /\ k <= R /\ k <= len - d
    BY <1>1, <1>2, <1>7 DEF k
  <2> QED BY <1>7, <2>1 DEF Chunk
<1>10. Word(addr + d + k - 1) = b
  <2> HIDE DEF d
  <2>1. addr + d + k - 1 = b
    BY <1>1, <1>2, <1>7 DEF k
  <2>2. b \in Nat
    BY <1>1, <1>2
  <2> QED BY <1>3, <2>1, <2>2 DEF Word
<1>11. j \in ReadRecords(file)
  <2>1. ASSUME NEW n \in 1 .. j - 1 PROVE file[n].sum_ok
    <3>1. n \in 1 .. Len(file) /\ n - 1 \in Nat /\ n - 1 <= q
      BY <1>6
    <3> DEFINE e == R * (n - 1)
    <3>2. e \in Nat /\ e <= d
      BY <1>1, <1>4, <3>1, Larger
    <3>3. SavedAs(file[n], m, addr + e, Chunk(len, e))
      BY <3>1, SavedRecords
    <3> HIDE DEF e, d
    <3>4. addr + e \in Nat /\ addr + e <= 65535
      BY <1>1, <1>2, <1>3, <1>7, <3>2
    <3>5. addr + e \in Address
      BY <3>4, InAddress
    <3> QED BY <3>3, <3>5 DEF SavedAs
  <2> HIDE DEF j
  <2> QED BY <1>6, <2>1 DEF ReadRecords
<1>12. j \in 1 .. Len(Upto(file))
  BY <1>1, <1>11, UptoIs
<1> HIDE DEF j, d
<1>13. file[j].addr = addr + d /\ file[j].type = 0 /\ k \in DOMAIN file[j].data
  BY <1>8, <1>9 DEF SavedAs
<1> DEFINE w == <<j, k>>
<1>14. w[1] = j /\ w[2] = k /\ Lands(p, Word(file[j].addr + k - 1), i)
  BY <1>10, <1>13
<1>15. w \in Pokes_at(p, file, i, Len(Upto(file)))
  BY <1>12, <1>13, <1>14 DEF Pokes_at
<1> QED BY <1>15

(* The file of savehex was taken from a machine with the RAM kept beside it,  *)
(* and the RAM fitted has not changed since: --rev1 comes before all commands. *)
TakenFrom(file, s) ==
  \E m \in Machines : file = save_hex(m, s.range[1], s.range[2]) /\ m.ram = s.ram

HexInv ==
  /\ \A file \in hex, s \in saved :
       s.range \in Ranges /\ DOMAIN s.ram = DOMAIN ram /\ TakenFrom(file, s)
  /\ \A f \in state : DOMAIN f.m.ram = DOMAIN ram
  /\ args # << >> => hex = {} /\ state = {}

LEMMA HexInvInit ==
  ASSUME CliInit
  PROVE  HexInv
BY DEF CliInit, HexInv

LEMMA HexInvStep ==
  ASSUME CliInv, HexInv, [CliNext]_cvars
  PROVE  HexInv'
<1>0. Now \in Machines /\ Now.ram = ram /\ Now'.ram = ram'
  BY NowFields DEF CliInv, Good, Sound, Now
<1>1. ASSUME UNCHANGED <<hex, saved, args>>, DOMAIN ram' = DOMAIN ram,
             \A f \in state' : DOMAIN f.m.ram = DOMAIN ram, args # << >> => state' = state
      PROVE  HexInv'
  BY <1>1 DEF HexInv, TakenFrom
<1>2. CASE Option
  <2>1. UNCHANGED <<hex, saved, state>> /\ args # << >>
    BY <1>2 DEF Option
  <2>2. hex = {} /\ state = {}
    BY <2>1 DEF HexInv
  <2> QED BY <2>1, <2>2 DEF HexInv
<1>3. CASE Control \/ Edit \/ Run \/ RunInstruction
  <2>1. UNCHANGED <<hex, saved, args, state>>
    BY <1>3 DEF Control, Edit, Run, RunInstruction, cli
  <2>2. DOMAIN ram' = DOMAIN ram
    BY <1>0, <1>3, MemoryKept
  <2>3. \A f \in state' : DOMAIN f.m.ram = DOMAIN ram
    BY <2>1 DEF HexInv
  <2> QED BY <1>1, <2>1, <2>2, <2>3
<1>4. CASE SaveHex
  <2>1. PICK r \in Ranges : hex' = {save_hex(Now, r[1], r[2])} /\ saved' = {[range |-> r, ram |-> ram]}
    BY <1>4 DEF SaveHex
  <2>2. UNCHANGED <<ram, args, state>> /\ args = << >>
    BY <1>4 DEF SaveHex, Command, vars
  <2> DEFINE s == [range |-> r, ram |-> ram]
             file == save_hex(Now, r[1], r[2])
  <2>3. s.range = r /\ s.ram = ram /\ TakenFrom(file, s)
    BY <1>0 DEF TakenFrom
  <2> HIDE DEF s, file
  <2>4. \A g \in hex', t \in saved' :
          t.range \in Ranges /\ DOMAIN t.ram = DOMAIN ram' /\ TakenFrom(g, t)
    BY <2>1, <2>2, <2>3 DEF s, file
  <2>5. \A f \in state' : DOMAIN f.m.ram = DOMAIN ram'
    BY <2>2 DEF HexInv
  <2> QED BY <2>2, <2>4, <2>5 DEF HexInv, TakenFrom
<1>5. CASE StateSave
  <2>1. UNCHANGED <<ram, hex, saved, args>> /\ args = << >>
    BY <1>5 DEF StateSave, Command, vars
  <2>2. \A f \in state' : f.m = Now
    BY <1>5 DEF StateSave
  <2>3. \A f \in state' : DOMAIN f.m.ram = DOMAIN ram
    BY <1>0, <2>2
  <2> QED BY <1>1, <2>1, <2>3
<1>6. CASE StateLoad
  <2>1. UNCHANGED <<hex, saved, args, state>>
    BY <1>6 DEF StateLoad, cli
  <2>2. PICK f \in state : Becomes(f.m)
    BY <1>6 DEF StateLoad, umk_state_load
  <2>3. DOMAIN ram' = DOMAIN ram /\ \A g \in state' : DOMAIN g.m.ram = DOMAIN ram
    BY <2>1, <2>2 DEF Becomes, HexInv
  <2> QED BY <1>1, <2>1, <2>3
<1>7. CASE Bp \/ RunOver \/ Quit \/ UNCHANGED cvars
  <2>1. UNCHANGED <<ram, hex, saved, args, state>>
    BY <1>7 DEF Bp, RunOver, Quit, cvars, cli, vars
  <2>2. \A f \in state' : DOMAIN f.m.ram = DOMAIN ram
    BY <2>1 DEF HexInv
  <2> QED BY <1>1, <2>1, <2>2
<1> QED BY <1>2, <1>3, <1>4, <1>5, <1>6, <1>7 DEF CliNext

LEMMA FileRestores ==
  ASSUME CliInv, HexInv, NEW file \in hex, NEW s \in saved, LoadHex(file), NEW i \in DOMAIN ram
  PROVE  ram'[i] = IF i \in Covered(s.range) THEN s.ram[i] ELSE ram[i]
<1> DEFINE ws == Pokes_at(Now, file, i, Len(Upto(file)))
           addr == s.range[1]
           len == s.range[2]
<1>1. Sound(Now) /\ Now \in Machines /\ Now.ram = ram /\ file \in Seq(Record)
  BY NowFields DEF CliInv, Good, Sound
<1>2. ram' = load_hex(Now, file).ram
  BY DEF LoadHex, Becomes
<1>3. InCell(ws, file, ram[i], ram'[i])
  BY <1>1, <1>2, HexLast
<1>4. PICK m \in Machines : file = save_hex(m, addr, len) /\ m.ram = s.ram
  BY DEF HexInv, TakenFrom
<1>5. addr \in Address /\ len \in Nat /\ DOMAIN m.ram = DOMAIN Now.ram
  BY <1>1, <1>4, CliAssumption DEF HexInv
<1>6. i \in Covered(s.range) <=> \E b \in addr .. addr + len - 1 : Lands(Now, b, i)
  BY DEF Covered, Lands
<1> HIDE DEF addr, len
<1>7. ASSUME NEW w \in ws
      PROVE  i \in Covered(s.range) /\ file[w[1]].data[w[2]] = s.ram[i]
  BY <1>1, <1>4, <1>5, <1>6, SavedByte
<1>8. i \in Covered(s.range) => ws # {}
  BY <1>4, <1>5, <1>6, ByteSaved
<1> HIDE DEF ws
<1> QED BY <1>3, <1>7, <1>8 DEF InCell

(* A file of savehex brings back the RAM it was taken from, as far as its      *)
(* range goes, and leaves the rest of memory alone.                          *)
THEOREM HexFilesRestore == CliSpec => HexRestores
<1>1. CliInit => HexInv
  BY HexInvInit
<1>2. CliInv /\ HexInv /\ [CliNext]_cvars => HexInv'
  BY HexInvStep
<1>3. CliInv /\ HexInv /\ [CliNext]_cvars =>
        [\A file \in hex, s \in saved : LoadHex(file) =>
           \A i \in DOMAIN ram :
             ram'[i] = IF i \in Covered(s.range) THEN s.ram[i] ELSE ram[i]]_cvars
  BY FileRestores
<1> QED BY <1>1, <1>2, <1>3, CliInvariant, PTL DEF CliSpec, HexRestores

-----------------------------------------------------------------------------
(* Interrupt control under the commands: each of them, `key` and a state load  *)
(* apart, is one step of the CPU, a reset, a request, or nothing.             *)
CpuMoves(c, d) ==
  \/ SameLogic(c, d)
  \/ CpuStepsTo(c, d)
  \/ d = ResetCpu
  \/ d = [c EXCEPT !.int_pending = TRUE, !.int_vector = \hFF]

LEMMA LogicKept ==
  ASSUME SameLogic(cpu, cpu')
  PROVE  UNCHANGED Interrupts!vars
<1>1. /\ cpu'.inte = cpu.inte /\ cpu'.halted = cpu.halted
      /\ cpu'.int_pending = cpu.int_pending /\ cpu'.int_vector = cpu.int_vector
      /\ cpu'.int_delay = cpu.int_delay /\ cpu'.mc = cpu.mc
  BY DEF SameLogic
<1> QED BY <1>1 DEF Interrupts!vars

LEMMA MovesImplement ==
  ASSUME CpuMoves(cpu, cpu'), cpu \in Cpus
  PROVE  [Interrupts!Next]_(Interrupts!vars)
<1>1. CASE SameLogic(cpu, cpu')
  BY <1>1, LogicKept
<1>2. CASE CpuStepsTo(cpu, cpu')
  <2>1. cpu.inte \in BOOLEAN /\ cpu.halted \in BOOLEAN
    BY DEF Cpus
  <2>2. Interrupts!CpuStep
    BY <1>2, <2>1, CpuStepsImplement
  <2> QED BY <2>2 DEF Interrupts!Next
<1>3. CASE cpu' = ResetCpu
  BY <1>3, ResetImplements DEF Interrupts!Next
<1>4. CASE cpu' = [cpu EXCEPT !.int_pending = TRUE, !.int_vector = \hFF]
  BY <1>4, RequestImplements DEF Interrupts!Next
<1> QED BY <1>1, <1>2, <1>3, <1>4 DEF CpuMoves

LEMMA OneMoves ==
  ASSUME NEW m, Sound(m), NEW n, Nothing(m, n) \/ One(m, n)
  PROVE  CpuMoves(m.cpu, n.cpu)
<1>1. CASE Nothing(m, n)
  <2>1. n.cpu = m.cpu /\ m.cpu \in Cpus
    BY <1>1, Fields DEF Nothing, Sound
  <2> QED BY <2>1 DEF CpuMoves, SameLogic
<1>2. CASE One(m, n)
  <2>1. n.cpu = exec_one(m).cpu
    BY <1>2 DEF One
  <2>2. CpuStepsTo(m.cpu, exec_one(m).cpu)
    BY ExecControls
  <2> QED BY <2>1, <2>2 DEF CpuMoves
<1> QED BY <1>1, <1>2

LEMMA ControlMoves ==
  ASSUME CliInv, Control
  PROVE  CpuMoves(cpu, cpu')
<1>1. Sound(Now) /\ Requests(Now) /\ Now.cpu = cpu
  BY NowFields DEF CliInv, Good
<1>2. ASSUME NEW m \in {umk_step_instruction(Now), umk_step_machine_cycle(Now),
                        umk_press_step(Now)}, Becomes(m)
      PROVE  CpuMoves(cpu, cpu')
  <2>1. Nothing(Now, m) \/ One(Now, m)
    BY <1>1, StepsCarry
  <2>2. cpu' = m.cpu
    BY <1>2 DEF Becomes
  <2> QED BY <1>1, <2>1, <2>2, OneMoves
<1>3. CASE Becomes(umk_step_instruction(Now))
  BY <1>2, <1>3
<1>4. CASE Becomes(umk_step_machine_cycle(Now))
  BY <1>2, <1>4
<1>5. CASE PressStep
  BY <1>2, <1>5 DEF PressStep
<1>6. CASE SetSwitch
  <2>1. PICK sw \in {"STEP", "CYCLE"}, on \in BOOLEAN : Becomes(umk_set_switch(Now, sw, on))
    BY <1>6 DEF SetSwitch
  <2>2. Nothing(Now, umk_set_switch(Now, sw, on))
    BY <1>1, SwitchSound
  <2>3. cpu' = umk_set_switch(Now, sw, on).cpu
    BY <2>1 DEF Becomes
  <2> QED BY <1>1, <2>2, <2>3, OneMoves
<1>7. CASE Reset
  <2>1. umk_reset(Now).cpu = ResetCpu
    BY <1>1, ResetSound
  <2> QED BY <1>7, <2>1 DEF Reset, Becomes, CpuMoves
<1>8. CASE Interrupt
  <2>1. umk_interrupt(Now).cpu = [cpu EXCEPT !.int_pending = TRUE, !.int_vector = \hFF]
    BY <1>1 DEF umk_interrupt, Sound, Machines
  <2> QED BY <1>8, <2>1 DEF Interrupt, Becomes, CpuMoves
<1> QED BY <1>3, <1>4, <1>5, <1>6, <1>7, <1>8 DEF Control

LEMMA WritesMove ==
  ASSUME NEW m, Sound(m), NEW n, n.cpu = m.cpu
  PROVE  CpuMoves(m.cpu, n.cpu)
<1>1. m.cpu \in Cpus
  BY Fields DEF Sound
<1> QED BY <1>1 DEF CpuMoves, SameLogic

LEMMA EditMoves ==
  ASSUME CliInv, Edit, ~PressKey
  PROVE  CpuMoves(cpu, cpu')
<1>1. Sound(Now) /\ hex \subseteq Seq(Record) /\ Now.cpu = cpu
  BY NowFields DEF CliInv, Good
<1>2. ASSUME NEW n, Becomes(n), n.cpu = Now.cpu
      PROVE  CpuMoves(cpu, cpu')
  <2>1. cpu' = n.cpu
    BY <1>2 DEF Becomes
  <2> QED BY <1>1, <1>2, <2>1, WritesMove
<1>3. ASSUME NEW w \in Pokes, Becomes(umk_load_ram(Now, w[1], w[2]))
      PROVE  CpuMoves(cpu, cpu')
  <2>1. Writes(Now, umk_load_ram(Now, w[1], w[2]))
    BY <1>1, LoadTypes, LoadWrites
  <2> QED BY <1>2, <1>3, <2>1 DEF Writes
<1>4. ASSUME NEW w \in Pokes, Becomes(umk_load_rom(Now, w[1], w[2]))
      PROVE  CpuMoves(cpu, cpu')
  <2>1. umk_load_rom(Now, w[1], w[2]).cpu = Now.cpu
    BY <1>1, LoadTypes, RomSound
  <2> QED BY <1>2, <1>4, <2>1
<1>5. ASSUME NEW v \in Targets, SetRegister(v)
      PROVE  CpuMoves(cpu, cpu')
  <2>1. PICK m : Becomes(m) /\ Reassigns(Now, m)
    BY <1>1, <1>5, CliAssumption, RegisterGiven
  <2>2. cpu' = m.cpu
    BY <2>1 DEF Becomes
  <2> QED BY <1>1, <2>1, <2>2 DEF Reassigns, CpuMoves
<1>6. ASSUME NEW file \in HexFiles \cup hex, Becomes(load_hex(Now, file))
      PROVE  CpuMoves(cpu, cpu')
  <2>1. file \in Seq(Record)
    BY <1>1, CliAssumption
  <2>2. Writes(Now, load_hex(Now, file))
    BY <1>1, <2>1, HexWrites
  <2> QED BY <1>2, <1>6, <2>2 DEF Writes
<1> QED BY <1>3, <1>4, <1>5, <1>6 DEF Edit, LoadHex, load_bin

LEMMA OptionMoves ==
  ASSUME CliInv, Option
  PROVE  CpuMoves(cpu, cpu')
<1>1. session.image \in Seq(Byte) /\ Sound(Now) /\ 0 \in Nat
  BY SessionAssumption DEF CliInv, Good
<1>2. ASSUME NEW m, Becomes(m), m.cpu = ResetCpu
      PROVE  CpuMoves(cpu, cpu')
  BY <1>2 DEF Becomes, CpuMoves
<1>3. ASSUME Becomes(umk_reset(umk_load_rom(Now, 0, session.image)))
      PROVE  CpuMoves(cpu, cpu')
  <2> DEFINE p == umk_load_rom(Now, 0, session.image)
  <2>1. Sound(p)
    BY <1>1, RomSound
  <2> HIDE DEF p
  <2>2. umk_reset(p).cpu = ResetCpu
    BY <2>1, ResetSound
  <2>3. Becomes(umk_reset(p))
    BY <1>3 DEF p
  <2> QED BY <1>2, <2>2, <2>3
<1>4. ASSUME Becomes(umk_reset(Now))
      PROVE  CpuMoves(cpu, cpu')
  <2>1. umk_reset(Now).cpu = ResetCpu
    BY <1>1, ResetSound
  <2> QED BY <1>2, <1>4, <2>1
<1>5. ASSUME Becomes(umk_init(RamRev1))
      PROVE  CpuMoves(cpu, cpu')
  <2>1. umk_init(RamRev1).cpu = ResetCpu
    BY OptionAssumption, PowerOnSound
  <2> QED BY <1>2, <1>5, <2>1
<1> QED BY <1>3, <1>4, <1>5 DEF Option, load_bin

LEMMA CommandsMove ==
  ASSUME CliInv, [CliNext]_cvars, ~PressKey, ~StateLoad
  PROVE  CpuMoves(cpu, cpu')
<1>1. Sound(Now) /\ Requests(Now) /\ Now.cpu = cpu /\ cpu \in Cpus
  BY NowFields, Fields DEF CliInv, Good, Sound
<1>2. ASSUME cpu' = cpu
      PROVE  CpuMoves(cpu, cpu')
  BY <1>1, <1>2 DEF CpuMoves, SameLogic
<1>3. CASE Option
  BY <1>3, OptionMoves
<1>4. CASE Control
  BY <1>4, ControlMoves
<1>5. CASE Edit
  BY <1>5, EditMoves
<1>6. CASE Run
  <2>1. CASE UNCHANGED vars
    BY <1>2, <2>1 DEF vars
  <2>2. CASE \E addr \in Targets : SetPc(addr)
    <3>1. PICK m : Becomes(m) /\ Reassigns(Now, m)
      BY <1>1, <2>2, CliAssumption, PcSet
    <3>2. cpu' = m.cpu
      BY <3>1 DEF Becomes
    <3> QED BY <1>1, <3>1, <3>2 DEF Reassigns, CpuMoves
  <2> QED BY <1>6, <2>1, <2>2 DEF Run
<1>7. CASE RunInstruction
  <2> DEFINE m == umk_step_instruction(Now)
  <2>1. Becomes(m)
    BY <1>7 DEF RunInstruction
  <2>2. One(Now, m)
    BY <1>1, InstructionOne
  <2> HIDE DEF m
  <2>3. cpu' = m.cpu
    BY <2>1 DEF Becomes
  <2> QED BY <1>1, <2>2, <2>3, OneMoves
<1>8. CASE Bp \/ RunOver \/ SaveHex \/ StateSave \/ Quit \/ UNCHANGED cvars
  <2>1. UNCHANGED vars
    BY <1>8 DEF Bp, RunOver, SaveHex, StateSave, Quit, cvars
  <2> QED BY <1>2, <2>1 DEF vars
<1> QED BY <1>3, <1>4, <1>5, <1>6, <1>7, <1>8 DEF CliNext

LEMMA PowerOnImplements ==
  ASSUME CliInit
  PROVE  Interrupts!Init
<1>1. cpu = umk_init(RamMax).cpu
  BY DEF CliInit, PowerOn
<1>2. cpu = ResetCpu
  BY <1>1, OptionAssumption, PowerOnSound
<1>3. /\ cpu.inte = FALSE /\ cpu.halted = FALSE /\ cpu.int_pending = FALSE
      /\ cpu.int_vector = 0 /\ cpu.int_delay = 0 /\ cpu.mc = << >>
  BY <1>2 DEF ResetCpu
<1>4. ClassOf(0) = "REG" /\ [i \in DOMAIN cpu.mc |-> cpu.mc[i].status] = << >>
  BY <1>3 DEF ClassOf
<1> QED BY <1>3, <1>4 DEF Interrupts!Init

(* The machine under the debugger implements the interrupt control of          *)
(* I8080Interrupts: whatever the user asks for, it makes one step of the CPU,  *)
(* a reset or a request, or leaves it alone; `key` runs many instructions and  *)
(* a state load puts an earlier state back.                                   *)
THEOREM CommandsImplementInterrupts == CliSpec => ImplementsInterrupts
<1>1. CliInit => Interrupts!Init
  BY PowerOnImplements
<1>2. CliInv /\ [CliNext]_cvars =>
        [Interrupts!Next \/ PressKey \/ StateLoad]_(Interrupts!vars)
  <2> SUFFICES ASSUME CliInv, [CliNext]_cvars, ~PressKey, ~StateLoad
               PROVE  [Interrupts!Next]_(Interrupts!vars)
    OBVIOUS
  <2>1. CpuMoves(cpu, cpu')
    BY CommandsMove
  <2>2. cpu \in Cpus
    BY NowFields, Fields DEF CliInv, Good, Sound
  <2> QED BY <2>1, <2>2, MovesImplement
<1> QED BY <1>1, <1>2, CliInvariant, PTL DEF CliSpec, ImplementsInterrupts

===============================================================================
