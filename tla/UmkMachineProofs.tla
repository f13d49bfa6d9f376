-------------------------- MODULE UmkMachineProofs --------------------------
(***************************************************************************)
(* Two parts.  The lemmas about the operators of Machine, up to one          *)
(* instruction of the CPU: the types it keeps, the cycles it logs and their *)
(* number, what it journals in a dry run, the clocks of the CPU and the     *)
(* display, and what becomes of interrupt control.  Then the theorems about *)
(* the calls of the front panel, PanelSpec of UmkMachine: its invariants,    *)
(* the rollback of the dry run, what the panel shows of a sequence; and the *)
(* lemmas by which a step of the CPU is one of I8080Interrupts.             *)
(***************************************************************************)
EXTENDS UmkMachine, FiniteSetTheorems, SequenceTheorems, WellFoundedInduction, TLAPS

-----------------------------------------------------------------------------
(* The types of module UmkMachine's TypeOK, for a machine m as a record; in   *)
(* the middle of a dry run the journal is on.                                *)
Cpus == [a : Byte, z : BOOLEAN, hl : Address, sp : Address, pc : Address,
         inte : BOOLEAN, halted : BOOLEAN, int_pending : BOOLEAN,
         int_vector : Byte, int_delay : {0, 1}, cycles : Nat, mc : Seq(Cycle)]

Ppis == [ctrl : Byte, out_a : Byte, out_b : Byte, out_c : Byte,
         a_is_out : BOOLEAN, b_is_out : BOOLEAN,
         c_lo_is_out : BOOLEAN, c_hi_is_out : BOOLEAN]

Panels == [address : Address, data : Byte, status : Byte]

Steps == [latch_step : BOOLEAN, latch_cycle : BOOLEAN, waiting : BOOLEAN,
          dbg_port : Byte, mc_index : 0 .. TraceSize, mc : Seq(Cycle)]

Entry  == [idx : Nat, old : Byte]
Trials == [on : BOOLEAN, log : Seq(Entry)]
Roms   == [0 .. RamBase - 1 -> Byte]
Rams   == UNION {[0 .. size - 1 -> Byte] : size \in RamSizes}

Machines ==
  [rom : Roms, ram : Rams, cpu : Cpus, ppi : Ppis, integrated_to : Nat,
   panel : Panels, step : Steps, kbd : SUBSET Keys, step_start_cycles : Nat,
   unmapped_io_writes : Nat, trial : Trials]

LEMMA Fields ==
  ASSUME NEW m \in Machines
  PROVE  /\ m.rom \in Roms /\ m.ram \in Rams /\ m.cpu \in Cpus /\ m.ppi \in Ppis
         /\ m.integrated_to \in Nat /\ m.panel \in Panels /\ m.step \in Steps
         /\ m.kbd \subseteq Keys /\ m.step_start_cycles \in Nat
         /\ m.unmapped_io_writes \in Nat /\ m.trial \in Trials
BY DEF Machines

LEMMA CpuFields ==
  ASSUME NEW c \in Cpus
  PROVE  /\ c.a \in Byte /\ c.z \in BOOLEAN /\ c.hl \in Address /\ c.sp \in Address
         /\ c.pc \in Address /\ c.inte \in BOOLEAN /\ c.halted \in BOOLEAN
         /\ c.int_pending \in BOOLEAN /\ c.int_vector \in Byte /\ c.int_delay \in {0, 1}
         /\ c.cycles \in Nat /\ c.mc \in Seq(Cycle)
BY DEF Cpus

(* Fields of interrupt control replaced. *)
LEMMA Enabled ==
  ASSUME NEW c \in Cpus, NEW d, d = [c EXCEPT !.inte = TRUE, !.int_delay = 1]
  PROVE  /\ d \in Cpus /\ d.inte = TRUE /\ d.int_delay = 1 /\ d.halted = c.halted
         /\ d.cycles = c.cycles /\ d.mc = c.mc
         /\ d.int_pending = c.int_pending /\ d.int_vector = c.int_vector
BY DEF Cpus

LEMMA Disabled ==
  ASSUME NEW c \in Cpus, NEW d, d = [c EXCEPT !.inte = FALSE, !.int_delay = 0]
  PROVE  /\ d \in Cpus /\ d.inte = FALSE /\ d.int_delay = 0 /\ d.halted = c.halted
         /\ d.cycles = c.cycles /\ d.mc = c.mc
         /\ d.int_pending = c.int_pending /\ d.int_vector = c.int_vector
BY DEF Cpus

LEMMA Halted ==
  ASSUME NEW c \in Cpus, NEW d, d = [c EXCEPT !.halted = TRUE]
  PROVE  /\ d \in Cpus /\ d.halted = TRUE /\ d.inte = c.inte /\ d.int_delay = c.int_delay
         /\ d.cycles = c.cycles /\ d.mc = c.mc
         /\ d.int_pending = c.int_pending /\ d.int_vector = c.int_vector
BY DEF Cpus

LEMMA Served ==
  ASSUME NEW c \in Cpus, 
         NEW d, d = [c EXCEPT !.int_pending = FALSE, !.inte = FALSE, !.halted = FALSE]
  PROVE  /\ d \in Cpus /\ d.int_pending = FALSE /\ d.inte = FALSE /\ d.halted = FALSE
         /\ d.a = c.a /\ d.z = c.z /\ d.hl = c.hl /\ d.sp = c.sp /\ d.pc = c.pc
         /\ d.int_vector = c.int_vector /\ d.int_delay = c.int_delay
         /\ d.cycles = c.cycles /\ d.mc = c.mc
BY DEF Cpus

LEMMA WithDelay ==
  ASSUME NEW c \in Cpus, NEW v \in {0, 1}, NEW d, d = [c EXCEPT !.int_delay = v]
  PROVE  /\ d \in Cpus /\ d.int_delay = v
         /\ d.a = c.a /\ d.z = c.z /\ d.hl = c.hl /\ d.sp = c.sp
         /\ d.pc = c.pc /\ d.inte = c.inte /\ d.halted = c.halted /\ d.int_pending = c.int_pending
         /\ d.int_vector = c.int_vector /\ d.cycles = c.cycles /\ d.mc = c.mc
BY DEF Cpus

LEMMA WithCycles ==
  ASSUME NEW c \in Cpus, NEW v \in Nat, NEW d, d = [c EXCEPT !.cycles = v]
  PROVE  /\ d \in Cpus /\ d.cycles = v
         /\ d.a = c.a /\ d.z = c.z /\ d.hl = c.hl /\ d.sp = c.sp
         /\ d.pc = c.pc /\ d.inte = c.inte /\ d.halted = c.halted /\ d.int_pending = c.int_pending
         /\ d.int_vector = c.int_vector /\ d.int_delay = c.int_delay /\ d.mc = c.mc
BY DEF Cpus

LEMMA WithTrace ==
  ASSUME NEW c \in Cpus, NEW v \in Seq(Cycle), NEW d, d = [c EXCEPT !.mc = v]
  PROVE  /\ d \in Cpus /\ d.mc = v
         /\ d.a = c.a /\ d.z = c.z /\ d.hl = c.hl /\ d.sp = c.sp
         /\ d.pc = c.pc /\ d.inte = c.inte /\ d.halted = c.halted /\ d.int_pending = c.int_pending
         /\ d.int_vector = c.int_vector /\ d.int_delay = c.int_delay /\ d.cycles = c.cycles
BY DEF Cpus

(* One field of the machine replaced. *)
LEMMA WithCpu ==
  ASSUME NEW m \in Machines, NEW c \in Cpus, NEW n, n = [m EXCEPT !.cpu = c]
  PROVE  /\ n \in Machines /\ n.cpu = c
         /\ n.rom = m.rom /\ n.ram = m.ram /\ n.ppi = m.ppi
         /\ n.integrated_to = m.integrated_to /\ n.panel = m.panel /\ n.step = m.step
         /\ n.kbd = m.kbd /\ n.step_start_cycles = m.step_start_cycles
         /\ n.unmapped_io_writes = m.unmapped_io_writes /\ n.trial = m.trial
BY DEF Machines

LEMMA WithRam ==
  ASSUME NEW m \in Machines, NEW r \in Rams, NEW n, n = [m EXCEPT !.ram = r]
  PROVE  /\ n \in Machines /\ n.ram = r
         /\ n.rom = m.rom /\ n.cpu = m.cpu /\ n.ppi = m.ppi
         /\ n.integrated_to = m.integrated_to /\ n.panel = m.panel /\ n.step = m.step
         /\ n.kbd = m.kbd /\ n.step_start_cycles = m.step_start_cycles
         /\ n.unmapped_io_writes = m.unmapped_io_writes /\ n.trial = m.trial
BY DEF Machines

LEMMA WithTrial ==
  ASSUME NEW m \in Machines, NEW t \in Trials, NEW n, n = [m EXCEPT !.trial = t]
  PROVE  /\ n \in Machines /\ n.trial = t
         /\ n.rom = m.rom /\ n.ram = m.ram /\ n.cpu = m.cpu /\ n.ppi = m.ppi
         /\ n.integrated_to = m.integrated_to /\ n.panel = m.panel /\ n.step = m.step
         /\ n.kbd = m.kbd /\ n.step_start_cycles = m.step_start_cycles
         /\ n.unmapped_io_writes = m.unmapped_io_writes
BY DEF Machines

-----------------------------------------------------------------------------
(* Sequences grow at the end. *)
LEMMA Appended ==
  ASSUME NEW S, NEW s \in Seq(S), NEW e \in S
  PROVE  /\ Append(s, e) \in Seq(S)
         /\ Len(s) \in Nat /\ DOMAIN s = 1 .. Len(s)
         /\ Len(Append(s, e)) = Len(s) + 1
         /\ DOMAIN Append(s, e) = 1 .. Len(s) + 1
         /\ \A i \in 1 .. Len(s) : Append(s, e)[i] = s[i]
         /\ Append(s, e)[Len(s) + 1] = e
BY AppendProperties, LenProperties

(* Words and bytes as numbers. *)
LEMMA WordType ==
  ASSUME NEW n \in Int
  PROVE  Word(n) \in Address
BY DEF Word, Address

LEMMA OfAddress ==
  ASSUME NEW x \in Address
  PROVE  x \in Int /\ 0 <= x /\ x <= 65535
BY DEF Address

LEMMA InAddress ==
  ASSUME NEW x \in Int, 0 <= x, x <= 65535
  PROVE  x \in Address
<1>1. Word(x) = x
  BY DEF Word
<1> QED BY <1>1, WordType

LEMMA OfByte ==
  ASSUME NEW x \in Byte
  PROVE  x \in Int /\ 0 <= x /\ x <= 255
BY DEF Byte

LEMMA Interval ==
  ASSUME NEW a \in Int, NEW b \in Int, NEW x \in Int, a <= x, x <= b
  PROVE  x \in a .. b
OBVIOUS

LEMMA InByte ==
  ASSUME NEW x \in Int, 0 <= x, x <= 255
  PROVE  x \in Byte
<1>1. 0 \in Int /\ 255 \in Int
  OBVIOUS
<1> QED BY <1>1, Interval, Zenon DEF Byte

(* Two bytes make a word, and a word is two bytes. *)
LEMMA WordOfBytes ==
  ASSUME NEW low \in Byte, NEW high \in Byte
  PROVE  low + 256 * high \in Address
<1>1. /\ low \in Int /\ 0 <= low /\ low <= 255
      /\ high \in Int /\ 0 <= high /\ high <= 255
  BY OfByte
<1>2. low + 256 * high \in Int /\ 0 <= low + 256 * high /\ low + 256 * high <= 65535
  BY <1>1
<1> QED BY <1>2, InAddress

LEMMA BytesOfWord ==
  ASSUME NEW v \in Address
  PROVE  v \div 256 \in Byte /\ v % 256 \in Byte
<1>1. v \in Int /\ 0 <= v /\ v <= 65535
  BY OfAddress
<1>2. v \div 256 \in Int /\ 0 <= v \div 256 /\ v \div 256 <= 255
  BY <1>1
<1>3. v % 256 \in Int /\ 0 <= v % 256 /\ v % 256 <= 255
  BY <1>1
<1> QED BY <1>2, <1>3, InByte

(* Memory: the index of an address in RAM is a cell of it, every byte read is *)
(* a byte.                                                                   *)
LEMMA RamCells ==
  ASSUME NEW m \in Machines
  PROVE  \E size \in RamSizes :
           /\ size \in Nat \ {0} /\ size <= RamMax
           /\ m.ram \in [0 .. size - 1 -> Byte] /\ DOMAIN m.ram = 0 .. size - 1
           /\ Cardinality(DOMAIN m.ram) = size
<1>1. PICK size \in RamSizes : m.ram \in [0 .. size - 1 -> Byte]
  BY Fields DEF Rams
<1>2. size \in Nat \ {0} /\ size <= RamMax
  BY UmkAssumption, MemoryAssumption
<1>3. Cardinality(0 .. size - 1) = size
  BY <1>2, FS_Interval
<1> QED BY <1>1, <1>2, <1>3

LEMMA RamIndexType ==
  ASSUME NEW m \in Machines, NEW addr \in Int
  PROVE  RamIndex(m, addr) \in DOMAIN m.ram /\ RamIndex(m, addr) \in Nat
<1>1. PICK size \in RamSizes :
           /\ size \in Nat \ {0}
           /\ DOMAIN m.ram = 0 .. size - 1
           /\ Cardinality(DOMAIN m.ram) = size
  BY RamCells
<1>2. RamBase \in Nat
  BY MemoryAssumption
<1>3. \A x \in Int : x % size \in 0 .. size - 1
  BY <1>1
<1>4. RamIndex(m, addr) = (addr - RamBase) % size
  BY <1>1 DEF RamIndex
<1>5. addr - RamBase \in Int
  BY <1>2
<1>6. RamIndex(m, addr) \in 0 .. size - 1
  BY <1>3, <1>4, <1>5
<1>7. RamIndex(m, addr) \in DOMAIN m.ram
  BY <1>1, <1>6
<1> QED BY <1>6, <1>7

LEMMA PeekType ==
  ASSUME NEW m \in Machines, NEW addr \in Address
  PROVE  umk_peek(m, addr) \in Byte
<1>1. CASE InRom(addr)
  <2>1. addr \in 0 .. RamBase - 1
    BY <1>1, MemoryAssumption DEF InRom, Address
  <2> QED BY <1>1, <2>1, Fields DEF umk_peek, Roms
<1>2. CASE ~InRom(addr)
  <2>1. addr \in Int
    BY OfAddress
  <2>2. RamIndex(m, addr) \in DOMAIN m.ram
    BY <2>1, RamIndexType
  <2>3. PICK size \in RamSizes : m.ram \in [0 .. size - 1 -> Byte]
    BY RamCells
  <2>4. m.ram[RamIndex(m, addr)] \in Byte
    BY <2>2, <2>3
  <2>5. \hFF \in Byte
    BY DEF Byte
  <2> QED BY <1>2, <2>4, <2>5 DEF umk_peek
<1> QED BY <1>1, <1>2

-----------------------------------------------------------------------------
(* A nonempty set of numbers has a least one. *)
LEMMA Least ==
  ASSUME NEW W, W \subseteq Nat, W # {}
  PROVE  \E k \in W : \A j \in W : k <= j
<1>1. IsWellFoundedOn(OpToRel(<, Nat), Nat)
  BY NatLessThanWellFounded
<1>2. PICK k \in W : \A j \in W : ~ (<<j, k>> \in OpToRel(<, Nat))
  BY <1>1, WFMin
<1>3. \A j \in W : ~(j < k)
  BY <1>2 DEF OpToRel
<1> QED BY <1>3

(* Induction up to c, over the numbers in W. *)
LEMMA Upwards ==
  ASSUME NEW c \in Nat, NEW W, 0 \in W, \A n \in 1 .. c : n - 1 \in W => n \in W
  PROVE  \A n \in 0 .. c : n \in W
<1> DEFINE Bad == {n \in 0 .. c : n \notin W}
<1>1. SUFFICES ASSUME Bad # {} PROVE FALSE
  OBVIOUS
<1>2. PICK k \in Bad : \A j \in Bad : k <= j
  <2>1. Bad \subseteq Nat
    OBVIOUS
  <2> QED BY <1>1, <2>1, Least
<1>3. k \in 1 .. c /\ k - 1 \in 0 .. c /\ ~(k <= k - 1)
  BY <1>2
<1>4. k - 1 \in W
  BY <1>2, <1>3
<1> QED BY <1>2, <1>3, <1>4

(* A function defined by recursion up to c exists, step by step: what G does  *)
(* to a member of S is again in S.                                           *)
Iterates(f, s, c, G) == f = [n \in 0 .. c |-> IF n = 0 THEN s ELSE G[n][f[n - 1]]]

LEMMA Iterated ==
  ASSUME NEW S, NEW s \in S, NEW c \in Nat, NEW G \in [1 .. c -> [S -> S]]
  PROVE  \E f \in [0 .. c -> S] : Iterates(f, s, c, G)
<1> DEFINE IsRun(f, k) ==
             /\ f \in [0 .. k -> S]
             /\ f = [n \in 0 .. k |-> IF n = 0 THEN s ELSE G[n][f[n - 1]]]
           W == {k \in 0 .. c : \E f : IsRun(f, k)}
<1>1. 0 \in W
  <2> DEFINE f == [n \in 0 .. 0 |-> s]
  <2>1. f \in [0 .. 0 -> S] /\ f = [n \in 0 .. 0 |-> IF n = 0 THEN s ELSE G[n][f[n - 1]]]
    OBVIOUS
  <2>2. IsRun(f, 0) /\ 0 \in 0 .. c
    BY <2>1
  <2> QED BY <2>2
<1>2. ASSUME NEW k \in 1 .. c, k - 1 \in W
      PROVE  k \in W
  <2>1. PICK f : IsRun(f, k - 1)
    BY <1>2
  <2> DEFINE g == [n \in 0 .. k |-> IF n = 0 THEN s ELSE G[n][f[n - 1]]]
  <2>2. \A n \in 0 .. k : n # 0 => n - 1 \in 0 .. k - 1 /\ n \in 1 .. c
    OBVIOUS
  <2>3. \A n \in 0 .. k - 1 : g[n] = f[n]
    BY <2>1
  <2>4. \A n \in 1 .. k : f[n - 1] \in S
    BY <2>1, <2>2
  <2>5. g \in [0 .. k -> S]
    BY <2>2, <2>4
  <2>6. g = [n \in 0 .. k |-> IF n = 0 THEN s ELSE G[n][g[n - 1]]]
    BY <2>2, <2>3
  <2>7. IsRun(g, k) /\ k \in 0 .. c
    BY <2>5, <2>6
  <2> QED BY <2>7
<1> HIDE DEF W
<1>3. \A n \in 1 .. c : n - 1 \in W => n \in W
  BY <1>2
<1>4. \A n \in 0 .. c : n \in W
  BY <1>1, <1>3, Upwards
<1>5. c \in W
  BY <1>4
<1> QED BY <1>5 DEF W, Iterates

(* The journal: the first entry of a cell is what FirstEntry chooses. *)
LEMMA FirstEntryIs ==
  ASSUME NEW log \in Seq(Entry), NEW i, NEW k \in Entries(log, i),
         \A j \in Entries(log, i) : k <= j
  PROVE  FirstEntry(log, i) = k
<1>1. Entries(log, i) \subseteq Nat
  BY LenProperties DEF Entries
<1>2. FirstEntry(log, i) \in Entries(log, i) /\ \A j \in Entries(log, i) : FirstEntry(log, i) <= j
  BY DEF FirstEntry
<1> QED BY <1>1, <1>2

(* Saving a byte and then replacing it changes nothing of what is restored. *)
LEMMA RestoredWrite ==
  ASSUME NEW D, D \subseteq Nat, NEW r \in [D -> Byte], NEW r1 \in [D -> Byte],
         NEW log \in Seq(Entry), NEW after \in Seq(Entry), NEW idx \in D,
         \A i \in D : i # idx => r1[i] = r[i],
         Len(after) = Len(log) + 1,
         \A k \in 1 .. Len(log) : after[k] = log[k],
         after[Len(log) + 1].idx = idx, after[Len(log) + 1].old = r[idx]
  PROVE  Restored(r1, after) = Restored(r, log)
<1>2. /\ after \in Seq(Entry) /\ Len(log) \in Nat
      /\ DOMAIN log = 1 .. Len(log) /\ DOMAIN after = 1 .. Len(log) + 1
      /\ \A k \in 1 .. Len(log) : after[k] = log[k]
      /\ after[Len(log) + 1].idx = idx /\ after[Len(log) + 1].old = r[idx]
  BY LenProperties
<1>3. ASSUME NEW i \in D
      PROVE  (IF Entries(after, i) = {} THEN r1[i] ELSE after[FirstEntry(after, i)].old)
             = (IF Entries(log, i) = {} THEN r[i] ELSE log[FirstEntry(log, i)].old)
  <2>1. Entries(log, i) \subseteq 1 .. Len(log)
    BY <1>2 DEF Entries
  <2>2. Entries(after, i) = Entries(log, i) \cup (IF i = idx THEN {Len(log) + 1} ELSE {})
    BY <1>2 DEF Entries
  <2>3. CASE Entries(log, i) # {}
    <3>1. PICK k \in Entries(log, i) : \A j \in Entries(log, i) : k <= j
      BY <2>1, <2>3, Least
    <3>2. k \in Entries(after, i) /\ \A j \in Entries(after, i) : k <= j
      BY <1>2, <2>1, <2>2, <3>1
    <3>3. FirstEntry(log, i) = k /\ FirstEntry(after, i) = k
      BY <1>2, <3>1, <3>2, FirstEntryIs
    <3>4. after[k] = log[k]
      BY <1>2, <2>1
    <3> QED BY <2>3, <3>2, <3>3, <3>4
  <2>4. CASE Entries(log, i) = {} /\ i = idx
    <3>1. Entries(after, i) = {Len(log) + 1}
      BY <2>2, <2>4
    <3>2. /\ Len(log) + 1 \in Entries(after, i)
          /\ \A j \in Entries(after, i) : Len(log) + 1 <= j
      BY <1>2, <3>1
    <3>3. FirstEntry(after, i) = Len(log) + 1
      BY <1>2, <3>2, FirstEntryIs
    <3> QED BY <1>2, <2>4, <3>1, <3>3
  <2>5. CASE Entries(log, i) = {} /\ i # idx
    BY <2>2, <2>5
  <2> QED BY <2>3, <2>4, <2>5
<1>4. DOMAIN r1 = D /\ DOMAIN r = D
  OBVIOUS
<1> QED BY <1>3, <1>4 DEF Restored

-----------------------------------------------------------------------------
LEMMA Joined ==
  ASSUME NEW S, NEW s \in Seq(S), NEW t \in Seq(S), NEW u \in Seq(S),
         Len(u) = Len(s) + Len(t),
         \A i \in 1 .. Len(s) : u[i] = s[i],
         \A i \in 1 .. Len(t) : u[Len(s) + i] = t[i]
  PROVE  s \o t = u
<1>1. /\ s \o t \in Seq(S) /\ Len(s \o t) = Len(s) + Len(t)
      /\ \A i \in 1 .. Len(s) + Len(t) : (s \o t)[i] = IF i <= Len(s) THEN s[i] ELSE t[i - Len(s)]
  BY ConcatProperties
<1>2. Len(s) \in Nat /\ Len(t) \in Nat
  BY LenProperties
<1>3. ASSUME NEW i \in 1 .. Len(u) PROVE u[i] = (s \o t)[i]
  <2>1. CASE i <= Len(s)
    BY <2>1, <1>1, <1>2
  <2>2. CASE i > Len(s)
    <3>1. i - Len(s) \in 1 .. Len(t) /\ i = Len(s) + (i - Len(s))
      BY <2>2, <1>2
    <3>2. u[i] = t[i - Len(s)]
      BY <3>1
    <3> QED BY <2>2, <1>1, <1>2, <3>1, <3>2
  <2> QED BY <2>1, <2>2, <1>2
<1> QED BY <1>1, <1>3, SeqEqual

LEMMA Tuples ==
  ASSUME NEW S, NEW a \in S, NEW b \in S, NEW c \in S, NEW d \in S
  PROVE  /\ <<a>> \in Seq(S) /\ <<a, b>> \in Seq(S) /\ <<a, b, c>> \in Seq(S)
         /\ <<a, b, c, d>> \in Seq(S)
OBVIOUS

LEMMA Pairs ==
  ASSUME NEW S, NEW a \in S, NEW b \in S
  PROVE  <<a>> \o <<b>> = <<a, b>>
<1>1. <<a>> \in Seq(S) /\ <<b>> \in Seq(S) /\ <<a, b>> \in Seq(S)
  BY Tuples
<1>2. Len(<<a, b>>) = Len(<<a>>) + Len(<<b>>)
  OBVIOUS
<1>3. \A i \in 1 .. Len(<<a>>) : <<a, b>>[i] = <<a>>[i]
  OBVIOUS
<1>4. \A i \in 1 .. Len(<<b>>) : <<a, b>>[Len(<<a>>) + i] = <<b>>[i]
  OBVIOUS
<1> QED BY <1>1, <1>2, <1>3, <1>4, Joined, Zenon

LEMMA Triples ==
  ASSUME NEW S, NEW a \in S, NEW b \in S, NEW c \in S
  PROVE  <<a, b>> \o <<c>> = <<a, b, c>>
<1>1. <<a, b>> \in Seq(S) /\ <<c>> \in Seq(S) /\ <<a, b, c>> \in Seq(S)
  BY Tuples
<1>2. Len(<<a, b, c>>) = Len(<<a, b>>) + Len(<<c>>)
  OBVIOUS
<1>3. \A i \in 1 .. Len(<<a, b>>) : <<a, b, c>>[i] = <<a, b>>[i]
  OBVIOUS
<1>4. \A i \in 1 .. Len(<<c>>) : <<a, b, c>>[Len(<<a, b>>) + i] = <<c>>[i]
  OBVIOUS
<1> QED BY <1>1, <1>2, <1>3, <1>4, Joined, Zenon

LEMMA Quadruples ==
  ASSUME NEW S, NEW a \in S, NEW b \in S, NEW c \in S, NEW d \in S
  PROVE  <<a, b>> \o <<c, d>> = <<a, b, c, d>>
<1>1. <<a, b>> \in Seq(S) /\ <<c, d>> \in Seq(S) /\ <<a, b, c, d>> \in Seq(S)
  BY Tuples
<1>2. Len(<<a, b, c, d>>) = Len(<<a, b>>) + Len(<<c, d>>)
  OBVIOUS
<1>3. \A i \in 1 .. Len(<<a, b>>) : <<a, b, c, d>>[i] = <<a, b>>[i]
  OBVIOUS
<1>4. \A i \in 1 .. Len(<<c, d>>) : <<a, b, c, d>>[Len(<<a, b>>) + i] = <<c, d>>[i]
  OBVIOUS
<1> QED BY <1>1, <1>2, <1>3, <1>4, Joined, Zenon


-----------------------------------------------------------------------------
(* What execution up to some point has done to a machine m that became n:    *)
(* `Runs` is what every instruction obeys, whatever it computes.             *)
Statuses == {FETCH, MEMR, MEMW, STACKR, STACKW, INPR, OUTW, INTA, HALTA, INTA_HALT}
StatusSeq == Seq(Statuses)

(* The rest of the machine, of the switches and of the request is as before. *)
Keeps(m, n) ==
  /\ m \in Machines /\ n \in Machines
  /\ n.rom = m.rom /\ n.panel = m.panel /\ n.kbd = m.kbd
  /\ n.step_start_cycles = m.step_start_cycles
  /\ n.step.latch_step = m.step.latch_step /\ n.step.latch_cycle = m.step.latch_cycle
  /\ n.step.waiting = m.step.waiting /\ n.step.mc_index = m.step.mc_index
  /\ n.step.mc = m.step.mc
  /\ n.cpu.cycles = m.cpu.cycles
  /\ n.cpu.int_pending = m.cpu.int_pending /\ n.cpu.int_vector = m.cpu.int_vector
  /\ n.trial.on = m.trial.on

(* The cycles of status t have been logged, if there was room for them.      *)
Traced(a, b, t) ==
  /\ Len(a) <= Len(b) /\ \A i \in 1 .. Len(a) : b[i] = a[i]
  /\ Len(a) + Len(t) <= TraceSize =>
       /\ Len(b) = Len(a) + Len(t)
       /\ \A i \in 1 .. Len(t) : b[Len(a) + i].status = t[i]

(* At most k bytes have been written, and each can be restored.              *)
Journaled(on, r, log, r1, log1, k) ==
  /\ DOMAIN r1 = DOMAIN r
  /\ ~on => log1 = log
  /\ Len(log1) <= Len(log) + k
  /\ on /\ Len(log) + k <= JournalSize => Restored(r1, log1) = Restored(r, log)

Runs(m, n, t) ==
  /\ Keeps(m, n)
  /\ Traced(m.cpu.mc, n.cpu.mc, t)
  /\ Journaled(m.trial.on, m.ram, m.trial.log, n.ram, n.trial.log, Len(t))

(* Neither interrupt control nor the display has been touched.               *)
SameControl(m, n) ==
  /\ n.cpu.inte = m.cpu.inte /\ n.cpu.halted = m.cpu.halted
  /\ n.cpu.int_delay = m.cpu.int_delay

Bus(m, n, t) == Runs(m, n, t) /\ SameControl(m, n) /\ n.integrated_to = m.integrated_to

LEMMA TracedThen ==
  ASSUME NEW a \in Seq(Cycle), NEW b \in Seq(Cycle), NEW c \in Seq(Cycle),
         NEW s \in StatusSeq, NEW t \in StatusSeq, Traced(a, b, s), Traced(b, c, t)
  PROVE  Traced(a, c, s \o t)
<1>1. /\ Len(a) \in Nat /\ Len(b) \in Nat /\ Len(c) \in Nat
      /\ Len(s) \in Nat /\ Len(t) \in Nat
  BY LenProperties DEF StatusSeq
<1>2. /\ Len(s \o t) = Len(s) + Len(t)
      /\ \A i \in 1 .. Len(s) + Len(t) : (s \o t)[i] = IF i <= Len(s) THEN s[i] ELSE t[i - Len(s)]
  BY ConcatProperties DEF StatusSeq
<1>3. Len(a) <= Len(c) /\ \A i \in 1 .. Len(a) : c[i] = a[i]
  BY <1>1 DEF Traced
<1>4. ASSUME Len(a) + Len(s \o t) <= TraceSize
      PROVE  /\ Len(c) = Len(a) + Len(s \o t)
             /\ \A i \in 1 .. Len(s \o t) : c[Len(a) + i].status = (s \o t)[i]
  <2>1. /\ Len(b) = Len(a) + Len(s)
        /\ \A i \in 1 .. Len(s) : b[Len(a) + i].status = s[i]
    BY <1>1, <1>2, <1>4 DEF Traced, TraceSize
  <2>2. /\ Len(c) = Len(b) + Len(t)
        /\ \A i \in 1 .. Len(t) : c[Len(b) + i].status = t[i]
        /\ \A i \in 1 .. Len(b) : c[i] = b[i]
    BY <1>1, <1>2, <1>4, <2>1 DEF Traced, TraceSize
  <2>3. ASSUME NEW i \in 1 .. Len(s \o t)
        PROVE  c[Len(a) + i].status = (s \o t)[i]
    <3>1. CASE i <= Len(s)
      <4>1. i \in 1 .. Len(s) /\ Len(a) + i \in 1 .. Len(b) /\ i \in 1 .. Len(s) + Len(t)
        BY <1>1, <1>2, <2>1, <3>1
      <4> QED BY <1>2, <2>1, <2>2, <3>1, <4>1
    <3>2. CASE i > Len(s)
      <4>1. /\ i - Len(s) \in 1 .. Len(t) /\ Len(a) + i = Len(b) + (i - Len(s))
            /\ i \in 1 .. Len(s) + Len(t) /\ ~(i <= Len(s))
        BY <1>1, <1>2, <2>1, <3>2
      <4>2. c[Len(b) + (i - Len(s))].status = t[i - Len(s)]
        BY <2>2, <4>1
      <4> QED BY <1>2, <4>1, <4>2
    <3> QED BY <3>1, <3>2, <1>1, <1>2
  <2> QED BY <1>1, <1>2, <2>1, <2>2, <2>3
<1> QED BY <1>3, <1>4 DEF Traced

LEMMA JournaledThen ==
  ASSUME NEW on, NEW r, NEW r1, NEW r2,
         NEW log \in Seq(Entry), NEW log1 \in Seq(Entry), NEW log2 \in Seq(Entry),
         NEW j \in Nat, NEW k \in Nat,
         Journaled(on, r, log, r1, log1, j), Journaled(on, r1, log1, r2, log2, k)
  PROVE  Journaled(on, r, log, r2, log2, j + k)
<1>1. Len(log) \in Nat /\ Len(log1) \in Nat /\ Len(log2) \in Nat
  BY LenProperties
<1> QED BY <1>1 DEF Journaled, JournalSize

LEMMA RunsThen ==
  ASSUME NEW m, NEW n, NEW p, NEW s \in StatusSeq, NEW t \in StatusSeq, Runs(m, n, s), Runs(n, p, t)
  PROVE  Runs(m, p, s \o t)
<1>1. m \in Machines /\ n \in Machines /\ p \in Machines
  BY DEF Runs, Keeps
<1>2. /\ m.cpu.mc \in Seq(Cycle) /\ n.cpu.mc \in Seq(Cycle) /\ p.cpu.mc \in Seq(Cycle)
  BY <1>1, Fields, CpuFields
<1>3. Len(s) \in Nat /\ Len(t) \in Nat /\ Len(s \o t) = Len(s) + Len(t)
  BY LenProperties, ConcatProperties DEF StatusSeq
<1>4. Keeps(m, p)
  BY DEF Runs, Keeps
<1>5. Traced(m.cpu.mc, p.cpu.mc, s \o t)
  BY <1>2, TracedThen DEF Runs
<1>6. Journaled(m.trial.on, m.ram, m.trial.log, p.ram, p.trial.log, Len(s) + Len(t))
  <2>1. /\ m.trial.log \in Seq(Entry) /\ n.trial.log \in Seq(Entry)
        /\ p.trial.log \in Seq(Entry)
    BY <1>1, Fields DEF Trials
  <2>2. n.trial.on = m.trial.on
    BY DEF Runs, Keeps
  <2> QED BY <1>3, <2>1, <2>2, JournaledThen DEF Runs
<1> QED BY <1>3, <1>4, <1>5, <1>6 DEF Runs

LEMMA BusThen ==
  ASSUME NEW m, NEW n, NEW p, NEW s \in StatusSeq, NEW t \in StatusSeq, Bus(m, n, s), Bus(n, p, t)
  PROVE  Bus(m, p, s \o t)
BY RunsThen DEF Bus, SameControl

-----------------------------------------------------------------------------
(* Register transfers. *)
LEMMA NothingDriven ==
  ASSUME NEW a \in Seq(Cycle)
  PROVE  Traced(a, a, << >>)
<1>1. Len(a) \in Nat /\ Len(<< >>) = 0
  BY LenProperties, EmptySeq
<1> QED BY <1>1 DEF Traced

LEMMA NothingWritten ==
  ASSUME NEW on, NEW r, NEW log \in Seq(Entry), NEW k \in Nat
  PROVE  Journaled(on, r, log, r, log, k)
<1>1. Len(log) \in Nat
  BY LenProperties
<1> QED BY <1>1 DEF Journaled

LEMMA CpuReplaced ==
  ASSUME NEW m \in Machines, NEW c \in Cpus,
         c.cycles = m.cpu.cycles, c.mc = m.cpu.mc,
         c.int_pending = m.cpu.int_pending, c.int_vector = m.cpu.int_vector,
         NEW n, n = [m EXCEPT !.cpu = c]
  PROVE  /\ n.cpu = c
         /\ Runs(m, n, << >>)
         /\ n.integrated_to = m.integrated_to
<1>1. /\ n \in Machines /\ n.cpu = c
      /\ n.rom = m.rom /\ n.ram = m.ram /\ n.ppi = m.ppi
      /\ n.integrated_to = m.integrated_to /\ n.panel = m.panel /\ n.step = m.step
      /\ n.kbd = m.kbd /\ n.step_start_cycles = m.step_start_cycles
      /\ n.unmapped_io_writes = m.unmapped_io_writes /\ n.trial = m.trial
  BY WithCpu
<1>2. Keeps(m, n)
  BY <1>1 DEF Keeps
<1>3. Traced(m.cpu.mc, n.cpu.mc, << >>)
  BY <1>1, Fields, CpuFields, NothingDriven
<1>4. Journaled(m.trial.on, m.ram, m.trial.log, n.ram, n.trial.log, Len(<< >>))
  <2>1. m.trial.log \in Seq(Entry) /\ Len(<< >>) \in Nat
    BY Fields, EmptySeq DEF Trials
  <2> QED BY <1>1, <2>1, NothingWritten
<1> QED BY <1>1, <1>2, <1>3, <1>4 DEF Runs

LEMMA RegisterSet ==
  ASSUME NEW m \in Machines
  PROVE  /\ \A v \in Address : Bus(m, [m EXCEPT !.cpu.pc = v], << >>)
         /\ \A v \in Address : Bus(m, [m EXCEPT !.cpu.sp = v], << >>)
         /\ \A v \in Address : Bus(m, [m EXCEPT !.cpu.hl = v], << >>)
         /\ \A v \in Byte : Bus(m, [m EXCEPT !.cpu.a = v], << >>)
         /\ \A v \in BOOLEAN : Bus(m, [m EXCEPT !.cpu.z = v], << >>)
<1> DEFINE c == m.cpu
<1>0. c \in Cpus
  BY Fields
<1>1. ASSUME NEW d \in Cpus, d.cycles = c.cycles, d.mc = c.mc,
             d.int_pending = c.int_pending, d.int_vector = c.int_vector,
             d.inte = c.inte, d.halted = c.halted, d.int_delay = c.int_delay
      PROVE  Bus(m, [m EXCEPT !.cpu = d], << >>)
  BY <1>1, CpuReplaced DEF Bus, SameControl
<1>2. ASSUME NEW v \in Address PROVE Bus(m, [m EXCEPT !.cpu.pc = v], << >>)
  <2> DEFINE d == [c EXCEPT !.pc = v]
  <2>1. /\ d \in Cpus /\ d.cycles = c.cycles /\ d.mc = c.mc
        /\ d.int_pending = c.int_pending /\ d.int_vector = c.int_vector
        /\ d.inte = c.inte /\ d.halted = c.halted /\ d.int_delay = c.int_delay
    BY <1>0 DEF Cpus
  <2> QED BY <1>1, <2>1
<1>3. ASSUME NEW v \in Address PROVE Bus(m, [m EXCEPT !.cpu.sp = v], << >>)
  <2> DEFINE d == [c EXCEPT !.sp = v]
  <2>1. /\ d \in Cpus /\ d.cycles = c.cycles /\ d.mc = c.mc
        /\ d.int_pending = c.int_pending /\ d.int_vector = c.int_vector
        /\ d.inte = c.inte /\ d.halted = c.halted /\ d.int_delay = c.int_delay
    BY <1>0 DEF Cpus
  <2> QED BY <1>1, <2>1
<1>4. ASSUME NEW v \in Address PROVE Bus(m, [m EXCEPT !.cpu.hl = v], << >>)
  <2> DEFINE d == [c EXCEPT !.hl = v]
  <2>1. /\ d \in Cpus /\ d.cycles = c.cycles /\ d.mc = c.mc
        /\ d.int_pending = c.int_pending /\ d.int_vector = c.int_vector
        /\ d.inte = c.inte /\ d.halted = c.halted /\ d.int_delay = c.int_delay
    BY <1>0 DEF Cpus
  <2> QED BY <1>1, <2>1
<1>5. ASSUME NEW v \in Byte PROVE Bus(m, [m EXCEPT !.cpu.a = v], << >>)
  <2> DEFINE d == [c EXCEPT !.a = v]
  <2>1. /\ d \in Cpus /\ d.cycles = c.cycles /\ d.mc = c.mc
        /\ d.int_pending = c.int_pending /\ d.int_vector = c.int_vector
        /\ d.inte = c.inte /\ d.halted = c.halted /\ d.int_delay = c.int_delay
    BY <1>0 DEF Cpus
  <2> QED BY <1>1, <2>1
<1>6. ASSUME NEW v \in BOOLEAN PROVE Bus(m, [m EXCEPT !.cpu.z = v], << >>)
  <2> DEFINE d == [c EXCEPT !.z = v]
  <2>1. /\ d \in Cpus /\ d.cycles = c.cycles /\ d.mc = c.mc
        /\ d.int_pending = c.int_pending /\ d.int_vector = c.int_vector
        /\ d.inte = c.inte /\ d.halted = c.halted /\ d.int_delay = c.int_delay
    BY <1>0 DEF Cpus
  <2> QED BY <1>1, <2>1
<1> QED BY <1>2, <1>3, <1>4, <1>5, <1>6

-----------------------------------------------------------------------------
(* Machine cycles. *)
LEMMA LoggedTrace ==
  ASSUME NEW a \in Seq(Cycle), NEW e \in Cycle, Len(a) < TraceSize
  PROVE  Traced(a, Append(a, e), <<e.status>>)
<1>1. /\ Len(a) \in Nat /\ Len(Append(a, e)) = Len(a) + 1
      /\ \A i \in 1 .. Len(a) : Append(a, e)[i] = a[i]
      /\ Append(a, e)[Len(a) + 1] = e
  BY Appended
<1>2. Len(<<e.status>>) = 1 /\ <<e.status>>[1] = e.status
  OBVIOUS
<1>3. \A i \in 1 .. Len(<<e.status>>) : i = 1
  BY <1>2
<1> QED BY <1>1, <1>2, <1>3 DEF Traced

LEMMA Logged ==
  ASSUME NEW m \in Machines, NEW st \in Statuses, NEW addr \in Address, NEW data \in Byte,
         NEW n, n = mc_log(m, st, addr, data)
  PROVE  Bus(m, n, <<st>>) /\ n.ram = m.ram /\ n.trial = m.trial
<1> DEFINE e == [status |-> st, addr |-> addr, data |-> data]
           c == m.cpu
           d == IF Len(c.mc) < TraceSize THEN [c EXCEPT !.mc = Append(c.mc, e)] ELSE c
<1>1. e \in Cycle /\ e.status = st
  BY DEF Cycle, Statuses
<1>2. c \in Cpus /\ c.mc \in Seq(Cycle) /\ Len(c.mc) \in Nat
  BY Fields, CpuFields, LenProperties
<1>3. Append(c.mc, e) \in Seq(Cycle)
  BY <1>1, <1>2, Appended
<1>4. /\ d \in Cpus
      /\ d.inte = c.inte /\ d.halted = c.halted /\ d.int_pending = c.int_pending
      /\ d.int_vector = c.int_vector /\ d.int_delay = c.int_delay /\ d.cycles = c.cycles
      /\ d.mc = IF Len(c.mc) < TraceSize THEN Append(c.mc, e) ELSE c.mc
  BY <1>2, <1>3 DEF Cpus
<1>5. Len(<<st>>) = 1
  OBVIOUS
<1>6. Traced(c.mc, d.mc, <<st>>)
  <2>1. CASE Len(c.mc) < TraceSize
    BY <1>1, <1>2, <1>4, <2>1, LoggedTrace
  <2>2. CASE ~(Len(c.mc) < TraceSize)
    <3>1. d.mc = c.mc
      BY <1>4, <2>2
    <3>2. ~(Len(c.mc) + Len(<<st>>) <= TraceSize) /\ Len(c.mc) <= Len(c.mc)
      BY <1>2, <1>5, <2>2 DEF TraceSize
    <3> QED BY <3>1, <3>2 DEF Traced
  <2> QED BY <2>1, <2>2
<1>7. n = [m EXCEPT !.cpu = d]
  <2>1. CASE Len(c.mc) < TraceSize
    BY <2>1 DEF mc_log
  <2>2. CASE ~(Len(c.mc) < TraceSize)
    <3>1. m = [m EXCEPT !.cpu = m.cpu]
      BY DEF Machines
    <3> QED BY <2>2, <3>1 DEF mc_log
  <2> QED BY <2>1, <2>2
<1> HIDE DEF d
<1>8. /\ n \in Machines /\ n.cpu = d
      /\ n.rom = m.rom /\ n.ram = m.ram /\ n.ppi = m.ppi
      /\ n.integrated_to = m.integrated_to /\ n.panel = m.panel /\ n.step = m.step
      /\ n.kbd = m.kbd /\ n.step_start_cycles = m.step_start_cycles
      /\ n.unmapped_io_writes = m.unmapped_io_writes /\ n.trial = m.trial
  BY <1>4, <1>7, WithCpu
<1>9. Keeps(m, n)
  BY <1>4, <1>8 DEF Keeps
<1>10. Journaled(m.trial.on, m.ram, m.trial.log, n.ram, n.trial.log, Len(<<st>>))
  <2>1. m.trial.log \in Seq(Entry) /\ Len(<<st>>) \in Nat
    BY <1>5, Fields DEF Trials
  <2> QED BY <1>8, <2>1, NothingWritten
<1>11. Runs(m, n, <<st>>)
  BY <1>6, <1>8, <1>9, <1>10 DEF Runs
<1> QED BY <1>4, <1>8, <1>11 DEF Bus, SameControl

(* A write to memory, which a dry run can take back. *)
LEMMA Poked ==
  ASSUME NEW m \in Machines, NEW addr \in Address, NEW val \in Byte,
         NEW n, n = umk_poke(m, addr, val)
  PROVE  /\ n \in Machines
         /\ n.rom = m.rom /\ n.cpu = m.cpu /\ n.ppi = m.ppi
         /\ n.integrated_to = m.integrated_to /\ n.panel = m.panel /\ n.step = m.step
         /\ n.kbd = m.kbd /\ n.step_start_cycles = m.step_start_cycles
         /\ n.unmapped_io_writes = m.unmapped_io_writes
         /\ n.trial.on = m.trial.on
         /\ Journaled(m.trial.on, m.ram, m.trial.log, n.ram, n.trial.log, 1)
<1>0. m.ram \in Rams /\ m.trial \in Trials /\ m.trial.log \in Seq(Entry) /\ m.trial.on \in BOOLEAN
  BY Fields DEF Trials
<1>1. CASE ~InRam(addr)
  <2>1. n = m
    BY <1>1 DEF umk_poke
  <2> QED BY <1>0, <2>1, NothingWritten
<1>2. CASE InRam(addr)
  <2> DEFINE idx == RamIndex(m, addr)
             e   == [idx |-> idx, old |-> m.ram[idx]]
             log == m.trial.log
             new == IF m.trial.on /\ Len(log) < JournalSize THEN Append(log, e) ELSE log
             t   == [m.trial EXCEPT !.log = new]
             j   == Journal(m, idx)
             r   == [m.ram EXCEPT ![idx] = val]
  <2>1. PICK size \in RamSizes :
           /\ size \in Nat \ {0}
           /\ m.ram \in [0 .. size - 1 -> Byte] /\ DOMAIN m.ram = 0 .. size - 1
    BY RamCells
  <2>2. idx \in 0 .. size - 1
    <3>1. addr \in Int
      BY OfAddress
    <3>2. idx \in DOMAIN m.ram
      BY <3>1, RamIndexType
    <3> QED BY <2>1, <3>2
  <2>3. e \in Entry
    BY <2>1, <2>2 DEF Entry
  <2>4. new \in Seq(Entry) /\ Len(log) \in Nat
    BY <1>0, <2>3, Appended
  <2>5. t \in Trials /\ t.on = m.trial.on /\ t.log = new
    BY <1>0, <2>4 DEF Trials
  <2>6. r \in [0 .. size - 1 -> Byte] /\ r \in Rams
    BY <2>1, <2>2 DEF Rams
  <2>7. j = [m EXCEPT !.trial = t]
    <3>1. CASE m.trial.on /\ Len(log) < JournalSize
      BY <3>1 DEF Journal
    <3>2. CASE ~(m.trial.on /\ Len(log) < JournalSize)
      <4>1. t = m.trial
        BY <1>0, <3>2 DEF Trials
      <4>2. m = [m EXCEPT !.trial = m.trial]
        BY DEF Machines
      <4> QED BY <3>2, <4>1, <4>2 DEF Journal
    <3> QED BY <3>1, <3>2
  <2>8. n = [j EXCEPT !.ram = [j.ram EXCEPT ![idx] = val]]
    BY <1>2 DEF umk_poke
  <2> HIDE DEF t, j, r, new, idx
  <2>9. /\ j \in Machines /\ j.trial = t
        /\ j.rom = m.rom /\ j.ram = m.ram /\ j.cpu = m.cpu /\ j.ppi = m.ppi
        /\ j.integrated_to = m.integrated_to /\ j.panel = m.panel /\ j.step = m.step
        /\ j.kbd = m.kbd /\ j.step_start_cycles = m.step_start_cycles
        /\ j.unmapped_io_writes = m.unmapped_io_writes
    BY <2>5, <2>7, WithTrial
  <2>10. n = [j EXCEPT !.ram = r]
    BY <2>8, <2>9 DEF r
  <2>11. /\ n \in Machines /\ n.ram = r
         /\ n.rom = j.rom /\ n.cpu = j.cpu /\ n.ppi = j.ppi
         /\ n.integrated_to = j.integrated_to /\ n.panel = j.panel /\ n.step = j.step
         /\ n.kbd = j.kbd /\ n.step_start_cycles = j.step_start_cycles
         /\ n.unmapped_io_writes = j.unmapped_io_writes /\ n.trial = j.trial
    BY <2>6, <2>9, <2>10, WithRam
  <2>12. Journaled(m.trial.on, m.ram, log, r, new, 1)
    <3>1. DOMAIN r = DOMAIN m.ram
      BY <2>1, <2>6
    <3>2. ~m.trial.on => new = log
      BY DEF new
    <3>3. Len(new) <= Len(log) + 1
      BY <1>0, <2>3, <2>4, Appended DEF new
    <3>4. ASSUME m.trial.on, Len(log) + 1 <= JournalSize
          PROVE  Restored(r, new) = Restored(m.ram, log)
      <4>1. new = Append(log, e)
        BY <2>4, <3>4 DEF new, JournalSize
      <4>2. 0 .. size - 1 \subseteq Nat
        BY <2>1
      <4>3. e.idx = idx /\ e.old = m.ram[e.idx] /\ r = [m.ram EXCEPT ![e.idx] = val]
        BY DEF r
      <4>5. log \in Seq(Entry)
        BY <1>0
      <4> HIDE DEF e, log
      <4> QED BY <2>1, <2>2, <2>3, <4>1, <4>2, <4>3, <4>5, RestoredWrite
    <3> HIDE DEF log
    <3> QED BY <3>1, <3>2, <3>3, <3>4 DEF Journaled
  <2> QED BY <2>5, <2>9, <2>11, <2>12
<1> QED BY <1>1, <1>2

LEMMA StatusTails ==
  /\ {FETCH, MEMR, MEMW, STACKR, STACKW, INPR, OUTW, INTA, HALTA, INTA_HALT} \subseteq Statuses
  /\ << >> \in StatusSeq /\ \A a \in Statuses : <<a>> \in StatusSeq
  /\ \A a, b \in Statuses : <<a, b>> \in StatusSeq
<1>1. {FETCH, MEMR, MEMW, STACKR, STACKW, INPR, OUTW, INTA, HALTA, INTA_HALT} \subseteq Statuses
  BY DEF Statuses
<1>2. << >> \in StatusSeq
  BY DEF StatusSeq
<1>3. ASSUME NEW a \in Statuses, NEW b \in Statuses
      PROVE  <<a>> \in StatusSeq /\ <<a, b>> \in StatusSeq
  BY Tuples DEF StatusSeq
<1> QED BY <1>1, <1>2, <1>3

LEMMA BusRead ==
  ASSUME NEW m \in Machines, NEW addr \in Address, NEW st \in Statuses
  PROVE  Bus(m, bus_rd(m, addr, st), <<st>>)
BY PeekType, Logged DEF bus_rd

LEMMA BusWrite ==
  ASSUME NEW m \in Machines, NEW addr \in Address, NEW val \in Byte, NEW st \in Statuses,
         NEW n, n = bus_wr(m, addr, val, st)
  PROVE  Bus(m, n, <<st>>)
<1> DEFINE p == umk_poke(m, addr, val)
<1>1. /\ p \in Machines
      /\ p.rom = m.rom /\ p.cpu = m.cpu /\ p.ppi = m.ppi
      /\ p.integrated_to = m.integrated_to /\ p.panel = m.panel /\ p.step = m.step
      /\ p.kbd = m.kbd /\ p.step_start_cycles = m.step_start_cycles
      /\ p.unmapped_io_writes = m.unmapped_io_writes
      /\ p.trial.on = m.trial.on
      /\ Journaled(m.trial.on, m.ram, m.trial.log, p.ram, p.trial.log, 1)
  BY Poked
<1>2. n = mc_log(p, st, addr, val)
  BY DEF bus_wr
<1> HIDE DEF p
<1>3. Bus(p, n, <<st>>) /\ n.ram = p.ram /\ n.trial = p.trial
  BY <1>1, <1>2, Logged
<1>4. Len(<<st>>) = 1
  OBVIOUS
<1>5. Keeps(m, n)
  BY <1>1, <1>3 DEF Bus, Runs, Keeps
<1>6. Traced(m.cpu.mc, n.cpu.mc, <<st>>)
  BY <1>1, <1>3 DEF Bus, Runs
<1>7. Journaled(m.trial.on, m.ram, m.trial.log, n.ram, n.trial.log, Len(<<st>>))
  BY <1>1, <1>3, <1>4
<1>8. SameControl(m, n) /\ n.integrated_to = m.integrated_to
  BY <1>1, <1>3 DEF Bus, SameControl
<1> QED BY <1>1, <1>3, <1>5, <1>6, <1>7, <1>8 DEF Bus, Runs

(* A register transfer after some bus cycles, and two groups of them. *)
LEMMA BusQuiet ==
  ASSUME NEW m, NEW n, NEW p, NEW t \in StatusSeq, Bus(m, n, t), Bus(n, p, << >>)
  PROVE  Bus(m, p, t)
<1>1. << >> \in StatusSeq /\ t \o << >> = t
  BY StatusTails, ConcatEmptySeq DEF StatusSeq
<1> QED BY <1>1, BusThen

LEMMA Fetch8 ==
  ASSUME NEW m \in Machines
  PROVE  Bus(m, fetch8(m), <<MEMR>>) /\ Imm8(m) \in Byte
<1> DEFINE r == bus_rd(m, m.cpu.pc, MEMR)
<1>1. m.cpu.pc \in Address /\ MEMR \in Statuses /\ <<MEMR>> \in StatusSeq
  BY Fields, CpuFields, StatusTails
<1>2. Bus(m, r, <<MEMR>>)
  BY <1>1, BusRead
<1>3. fetch8(m) = [r EXCEPT !.cpu.pc = Word(r.cpu.pc + 1)]
  BY DEF fetch8
<1> HIDE DEF r
<1>4. r \in Machines
  BY <1>2 DEF Bus, Runs, Keeps
<1>5. Word(r.cpu.pc + 1) \in Address
  BY <1>4, Fields, CpuFields, OfAddress, WordType
<1>6. Bus(r, fetch8(m), << >>)
  BY <1>3, <1>4, <1>5, RegisterSet
<1>7. Imm8(m) \in Byte
  BY <1>1, PeekType DEF Imm8
<1> QED BY <1>1, <1>2, <1>6, <1>7, BusQuiet

LEMMA Fetch16 ==
  ASSUME NEW m \in Machines
  PROVE  Bus(m, fetch16(m), <<MEMR, MEMR>>) /\ Imm16(m) \in Address
<1>1. Bus(m, fetch8(m), <<MEMR>>)
  BY Fetch8
<1>2. fetch8(m) \in Machines
  BY <1>1 DEF Bus, Runs, Keeps
<1>3. Bus(fetch8(m), fetch16(m), <<MEMR>>)
  BY <1>2, Fetch8 DEF fetch16
<1>4. MEMR \in Statuses /\ <<MEMR>> \in StatusSeq /\ <<MEMR>> \o <<MEMR>> = <<MEMR, MEMR>>
  BY StatusTails, Pairs
<1>5. m.cpu.pc \in Address /\ Word(m.cpu.pc + 1) \in Address
  BY Fields, CpuFields, OfAddress, WordType
<1>6. Imm16(m) \in Address
  BY <1>5, PeekType, WordOfBytes DEF Imm16
<1> QED BY <1>1, <1>3, <1>4, <1>6, BusThen

LEMMA Push16 ==
  ASSUME NEW m \in Machines, NEW v \in Address
  PROVE  Bus(m, push16(m, v), <<STACKW, STACKW>>)
<1> DEFINE h == bus_wr(m, Word(m.cpu.sp - 1), v \div 256, STACKW)
           l == bus_wr(h, Word(m.cpu.sp - 2), v % 256, STACKW)
<1>0. STACKW \in Statuses /\ <<STACKW>> \in StatusSeq /\ <<STACKW, STACKW>> \in StatusSeq
  BY StatusTails
<1>1. /\ Word(m.cpu.sp - 1) \in Address /\ Word(m.cpu.sp - 2) \in Address
      /\ v \div 256 \in Byte /\ v % 256 \in Byte
  <2>1. m.cpu.sp \in Address
    BY Fields, CpuFields
  <2>2. m.cpu.sp - 1 \in Int /\ m.cpu.sp - 2 \in Int
    BY <2>1, OfAddress
  <2>3. Word(m.cpu.sp - 1) \in Address /\ Word(m.cpu.sp - 2) \in Address
    BY <2>2, WordType
  <2> QED BY <2>3, BytesOfWord
<1>2. Bus(m, h, <<STACKW>>)
  BY <1>0, <1>1, BusWrite
<1>3. h \in Machines
  BY <1>2 DEF Bus, Runs, Keeps
<1> HIDE DEF h
<1>4. Bus(h, l, <<STACKW>>)
  BY <1>0, <1>1, <1>3, BusWrite
<1>5. Bus(m, l, <<STACKW, STACKW>>)
  BY <1>0, <1>2, <1>4, BusThen, Pairs
<1>6. push16(m, v) = [l EXCEPT !.cpu.sp = Word(l.cpu.sp - 2)]
  BY DEF push16, h
<1> HIDE DEF l
<1>7. l \in Machines
  BY <1>5 DEF Bus, Runs, Keeps
<1>8. Word(l.cpu.sp - 2) \in Address
  BY <1>7, Fields, CpuFields, OfAddress, WordType
<1>9. Bus(l, push16(m, v), << >>)
  BY <1>6, <1>7, <1>8, RegisterSet
<1> QED BY <1>0, <1>5, <1>9, BusQuiet

LEMMA Pop16 ==
  ASSUME NEW m \in Machines
  PROVE  Bus(m, pop16(m), <<STACKR, STACKR>>) /\ Top16(m) \in Address
<1> DEFINE l == bus_rd(m, m.cpu.sp, STACKR)
           h == bus_rd(l, Word(m.cpu.sp + 1), STACKR)
<1>0. STACKR \in Statuses /\ <<STACKR>> \in StatusSeq /\ <<STACKR, STACKR>> \in StatusSeq
  BY StatusTails
<1>1. m.cpu.sp \in Address /\ Word(m.cpu.sp + 1) \in Address
  BY Fields, CpuFields, OfAddress, WordType
<1>2. Bus(m, l, <<STACKR>>)
  BY <1>0, <1>1, BusRead
<1>3. l \in Machines
  BY <1>2 DEF Bus, Runs, Keeps
<1> HIDE DEF l
<1>5. Bus(l, h, <<STACKR>>)
  BY <1>0, <1>1, <1>3, BusRead
<1>6. Bus(m, h, <<STACKR, STACKR>>)
  BY <1>0, <1>2, <1>5, BusThen, Pairs
<1>7. pop16(m) = [h EXCEPT !.cpu.sp = Word(h.cpu.sp + 2)]
  BY DEF pop16, l
<1> HIDE DEF h
<1>8. h \in Machines
  BY <1>6 DEF Bus, Runs, Keeps
<1>9. Word(h.cpu.sp + 2) \in Address
  BY <1>8, Fields, CpuFields, OfAddress, WordType
<1>10. Bus(h, pop16(m), << >>)
  BY <1>7, <1>8, <1>9, RegisterSet
<1>11. Top16(m) \in Address
  BY <1>1, PeekType, WordOfBytes DEF Top16
<1> QED BY <1>0, <1>6, <1>10, <1>11, BusQuiet

-----------------------------------------------------------------------------
(* The parallel port. *)
LEMMA Powers ==
  /\ 2^0 = 1 /\ 2^1 = 2 /\ 2^2 = 4 /\ 2^3 = 8
  /\ 2^4 = 16 /\ 2^5 = 32 /\ 2^6 = 64 /\ 2^7 = 128
OBVIOUS

LEMMA BitIsBoolean ==
  ASSUME NEW x, NEW b
  PROVE  Bit(x, b) \in BOOLEAN
BY Zenon DEF Bit

LEMMA NotIsBoolean ==
  ASSUME NEW x \in BOOLEAN
  PROVE  (~x) \in BOOLEAN
OBVIOUS

LEMMA WithBitType ==
  ASSUME NEW x \in Byte, NEW b \in 0 .. 7, NEW on \in BOOLEAN
  PROVE  WithBit(x, b, on) \in Byte
<1>1. x \in Int /\ 0 <= x /\ x <= 255
  BY OfByte
<1>2. PICK p \in {1, 2, 4, 8, 16, 32, 64, 128} : 2^b = p
  <2>1. b = 0 \/ b = 1 \/ b = 2 \/ b = 3 \/ b = 4 \/ b = 5 \/ b = 6 \/ b = 7
    OBVIOUS
  <2>2. /\ (b = 0 => 2^b = 1) /\ (b = 1 => 2^b = 2)
        /\ (b = 2 => 2^b = 4) /\ (b = 3 => 2^b = 8)
        /\ (b = 4 => 2^b = 16) /\ (b = 5 => 2^b = 32)
        /\ (b = 6 => 2^b = 64) /\ (b = 7 => 2^b = 128)
    BY Powers, Zenon
  <2> QED BY <2>1, <2>2, Zenon
<1>3. (x \div p) % 2 = 0 \/ (x \div p) % 2 = 1
  BY <1>1
<1>4. CASE (x \div p) % 2 = 1
  <2>1. x - p \in Int /\ 0 <= x - p /\ x - p <= 255
    BY <1>1, <1>4
  <2>2. Bit(x, b)
    BY <1>2, <1>4 DEF Bit
  <2> QED BY <1>2, <2>1, <2>2, InByte DEF WithBit
<1>5. CASE (x \div p) % 2 = 0
  <2>1. x + p \in Int /\ 0 <= x + p /\ x + p <= 255
    BY <1>1, <1>5
  <2>2. ~Bit(x, b)
    BY <1>2, <1>5 DEF Bit
  <2>3. CASE on
    <3>1. WithBit(x, b, on) = x + p
      BY <1>2, <2>2, <2>3, Zenon DEF WithBit
    <3> QED BY <2>1, <3>1, InByte
  <2>4. CASE ~on
    <3>1. Bit(x, b) = on
      BY <2>2, <2>4, BitIsBoolean, Zenon
    <3> QED BY <3>1 DEF WithBit
  <2> QED BY <2>3, <2>4
<1> QED BY <1>3, <1>4, <1>5

LEMMA ControlType ==
  ASSUME NEW p \in Ppis, NEW val \in Byte
  PROVE  ppi_write_control(p, val) \in Ppis
<1>1. 0 \in Byte
  BY InByte
<1>2. CASE Bit(val, 7)
  <2>1. /\ (~Bit(val, 4)) \in BOOLEAN /\ (~Bit(val, 3)) \in BOOLEAN
        /\ (~Bit(val, 1)) \in BOOLEAN /\ (~Bit(val, 0)) \in BOOLEAN
    BY BitIsBoolean, NotIsBoolean, Zenon
  <2> QED BY <1>1, <1>2, <2>1 DEF ppi_write_control, Ppis
<1>3. CASE ~Bit(val, 7)
  <2> DEFINE c == WithBit(p.out_c, (val \div 2) % 8, Bit(val, 0))
  <2>1. p.out_c \in Byte
    BY DEF Ppis
  <2>2. val \in Int /\ (val \div 2) % 8 \in 0 .. 7
    BY OfByte
  <2>3. c \in Byte
    BY <2>1, <2>2, BitIsBoolean, WithBitType
  <2>4. ppi_write_control(p, val) = [p EXCEPT !.out_c = c]
    BY <1>3 DEF ppi_write_control
  <2> HIDE DEF c
  <2> QED BY <2>3, <2>4 DEF Ppis
<1> QED BY <1>2, <1>3

LEMMA ScanType ==
  ASSUME NEW m
  PROVE  keyboard_scan(m) \in Byte
<1>1. RowMask[0 + 1] = 4 /\ RowMask[1 + 1] = 16 /\ RowMask[2 + 1] = 32 /\ RowMask[3 + 1] = 64
  BY DEF RowMask
<1>2. /\ Pulled(m, 0) = 0 \/ Pulled(m, 0) = 4
      /\ Pulled(m, 1) = 0 \/ Pulled(m, 1) = 16
      /\ Pulled(m, 2) = 0 \/ Pulled(m, 2) = 32
      /\ Pulled(m, 3) = 0 \/ Pulled(m, 3) = 64
  BY <1>1 DEF Pulled
<1>3. /\ keyboard_scan(m) \in Int /\ 0 <= keyboard_scan(m) /\ keyboard_scan(m) <= 255
  BY <1>2 DEF keyboard_scan
<1> QED BY <1>3, InByte

LEMMA PortRead ==
  ASSUME NEW m \in Machines, NEW port
  PROVE  bus_in(m, port) \in Byte
<1>1. m.ppi \in Ppis /\ m.step \in Steps
  BY Fields
<1>2. m.ppi.out_a \in Byte /\ m.ppi.out_b \in Byte /\ m.step.dbg_port \in Byte
  BY <1>1 DEF Ppis, Steps
<1>3. \hFF \in Byte
  BY InByte
<1> QED BY <1>2, <1>3, ScanType DEF bus_in

LEMMA InCycle ==
  ASSUME NEW m \in Machines, NEW port \in Byte
  PROVE  Bus(m, in_cycle(m, port), <<INPR>>)
<1>1. port \in Int /\ 0 <= port /\ port <= 255
  BY OfByte
<1>2. 257 * port \in Int /\ 0 <= 257 * port /\ 257 * port <= 65535
  BY <1>1
<1>3. 257 * port \in Address /\ INPR \in Statuses
  BY <1>2, InAddress, StatusTails
<1> QED BY <1>3, PortRead, Logged DEF in_cycle

(* What an OUT does to the machine before its cycle is logged. *)
PortWritten(m, n) ==
  /\ n \in Machines
  /\ n.rom = m.rom /\ n.ram = m.ram /\ n.cpu = m.cpu /\ n.panel = m.panel
  /\ n.kbd = m.kbd /\ n.step_start_cycles = m.step_start_cycles /\ n.trial = m.trial
  /\ n.step.latch_step = m.step.latch_step /\ n.step.latch_cycle = m.step.latch_cycle
  /\ n.step.waiting = m.step.waiting /\ n.step.mc_index = m.step.mc_index
  /\ n.step.mc = m.step.mc
  /\ \/ n.integrated_to = m.integrated_to
     \/ n.integrated_to = m.step_start_cycles + OUT_WRITE_OFFSET

LEMMA PpiWritten ==
  ASSUME NEW m, NEW s, PortWritten(m, s), NEW q \in Ppis
  PROVE  PortWritten(m, [s EXCEPT !.ppi = q])
BY DEF PortWritten, Machines

LEMMA DisplayShown ==
  ASSUME NEW m \in Machines
  PROVE  PortWritten(m, display_advance(m, m.step_start_cycles + OUT_WRITE_OFFSET))
<1> DEFINE to == m.step_start_cycles + OUT_WRITE_OFFSET
<1>1. to \in Nat
  BY Fields DEF OUT_WRITE_OFFSET
<1> HIDE DEF to
<1>2. display_advance(m, to) = m \/ display_advance(m, to) = [m EXCEPT !.integrated_to = to]
  BY DEF display_advance
<1>3. PortWritten(m, m)
  BY DEF PortWritten
<1>4. LET n == [m EXCEPT !.integrated_to = to]
      IN  /\ n \in Machines /\ n.integrated_to = to
          /\ n.rom = m.rom /\ n.ram = m.ram /\ n.cpu = m.cpu /\ n.panel = m.panel
          /\ n.kbd = m.kbd /\ n.step_start_cycles = m.step_start_cycles
          /\ n.trial = m.trial /\ n.step = m.step
  BY <1>1 DEF Machines
<1>5. PortWritten(m, [m EXCEPT !.integrated_to = to])
  BY <1>4 DEF PortWritten, to
<1> QED BY <1>2, <1>3, <1>5 DEF to

LEMMA BusOut ==
  ASSUME NEW m \in Machines, NEW port \in Byte, NEW val \in Byte
  PROVE  PortWritten(m, bus_out(m, port, val))
<1> DEFINE s    == display_advance(m, m.step_start_cycles + OUT_WRITE_OFFSET)
           low  == IF m.ppi.c_lo_is_out THEN val % 16 ELSE m.ppi.out_c % 16
           high == IF m.ppi.c_hi_is_out THEN val \div 16 ELSE m.ppi.out_c \div 16
           n    == bus_out(m, port, val)
<1>1. PortWritten(m, s) /\ PortWritten(m, m)
  BY DisplayShown DEF PortWritten
<1>2. s \in Machines /\ s.ppi \in Ppis /\ m.ppi \in Ppis
  BY <1>1, Fields DEF PortWritten
<1>3. CASE port = PORT_A
  <2>1. [s.ppi EXCEPT !.out_a = IF m.ppi.a_is_out THEN val ELSE s.ppi.out_a] \in Ppis
    BY <1>2 DEF Ppis
  <2>2. n = [s EXCEPT !.ppi = [s.ppi EXCEPT !.out_a = IF m.ppi.a_is_out THEN val ELSE s.ppi.out_a]]
    BY <1>3 DEF bus_out, PORT_A, PORT_B, PORT_C, PORT_CTRL, PORT_DBG
  <2> QED BY <1>1, <2>1, <2>2, PpiWritten
<1>4. CASE port = PORT_B
  <2>1. [s.ppi EXCEPT !.out_b = IF m.ppi.b_is_out THEN val ELSE s.ppi.out_b] \in Ppis
    BY <1>2 DEF Ppis
  <2>2. n = [s EXCEPT !.ppi = [s.ppi EXCEPT !.out_b = IF m.ppi.b_is_out THEN val ELSE s.ppi.out_b]]
    BY <1>4 DEF bus_out, PORT_A, PORT_B, PORT_C, PORT_CTRL, PORT_DBG
  <2> QED BY <1>1, <2>1, <2>2, PpiWritten
<1>5. CASE port = PORT_C
  <2>1. m.ppi.out_c \in Byte
    BY <1>2 DEF Ppis
  <2>2. \A x \in Byte : /\ x % 16 \in Int /\ 0 <= x % 16 /\ x % 16 <= 15
                        /\ x \div 16 \in Int /\ 0 <= x \div 16 /\ x \div 16 <= 15
    BY OfByte
  <2>3. low = val % 16 \/ low = m.ppi.out_c % 16
    OBVIOUS
  <2>4. high = val \div 16 \/ high = m.ppi.out_c \div 16
    OBVIOUS
  <2>5. /\ low \in Int /\ 0 <= low /\ low <= 15
        /\ high \in Int /\ 0 <= high /\ high <= 15
    BY <2>1, <2>2, <2>3, <2>4
  <2> DEFINE c == 16 * high + low
  <2>6. n = [m EXCEPT !.ppi = [m.ppi EXCEPT !.out_c = c]]
    BY <1>5 DEF bus_out, PORT_A, PORT_B, PORT_C, PORT_CTRL, PORT_DBG
  <2> HIDE DEF low, high, n
  <2>7. c \in Int /\ 0 <= c /\ c <= 255
    BY <2>5
  <2> HIDE DEF c
  <2>8. [m.ppi EXCEPT !.out_c = c] \in Ppis
    BY <1>2, <2>7, InByte DEF Ppis
  <2> QED BY <1>1, <2>6, <2>8, PpiWritten DEF n
<1>6. CASE port = PORT_CTRL
  <2>1. n = [s EXCEPT !.ppi = ppi_write_control(s.ppi, val)]
    BY <1>6 DEF bus_out, PORT_A, PORT_B, PORT_C, PORT_CTRL, PORT_DBG
  <2> QED BY <1>1, <1>2, <2>1, ControlType, PpiWritten
<1>7. CASE port = PORT_DBG
  <2>1. n = [m EXCEPT !.step = [m.step EXCEPT !.dbg_port = val]]
    BY <1>7 DEF bus_out, PORT_A, PORT_B, PORT_C, PORT_CTRL, PORT_DBG
  <2> DEFINE t == [m.step EXCEPT !.dbg_port = val]
  <2>2. /\ t \in Steps
        /\ t.latch_step = m.step.latch_step /\ t.latch_cycle = m.step.latch_cycle
        /\ t.waiting = m.step.waiting /\ t.mc_index = m.step.mc_index /\ t.mc = m.step.mc
    <3>1. m.step \in Steps
      BY Fields
    <3> QED BY <3>1 DEF Steps
  <2> HIDE DEF t
  <2> QED BY <2>1, <2>2 DEF PortWritten, Machines, t
<1>8. CASE port \notin {PORT_A, PORT_B, PORT_C, PORT_CTRL, PORT_DBG}
  <2>1. n = [m EXCEPT !.unmapped_io_writes = m.unmapped_io_writes + 1]
    BY <1>8 DEF bus_out
  <2>2. m.unmapped_io_writes + 1 \in Nat
    BY Fields
  <2> QED BY <2>1, <2>2 DEF PortWritten, Machines
<1> QED BY <1>3, <1>4, <1>5, <1>6, <1>7, <1>8

LEMMA OutCycle ==
  ASSUME NEW m \in Machines, NEW port \in Byte, NEW val \in Byte,
         NEW n, n = out_cycle(m, port, val)
  PROVE  /\ Runs(m, n, <<OUTW>>) /\ SameControl(m, n)
         /\ \/ n.integrated_to = m.integrated_to
            \/ n.integrated_to = m.step_start_cycles + OUT_WRITE_OFFSET
<1> DEFINE p == bus_out(m, port, val)
<1>1. PortWritten(m, p)
  BY BusOut
<1>2. port \in Int /\ 0 <= port /\ port <= 255
  BY OfByte
<1>3. 257 * port \in Int /\ 0 <= 257 * port /\ 257 * port <= 65535
  BY <1>2
<1>4. 257 * port \in Address /\ OUTW \in Statuses
  BY <1>3, InAddress, StatusTails
<1>5. n = mc_log(p, OUTW, 257 * port, val)
  BY DEF out_cycle
<1> HIDE DEF p
<1>6. Bus(p, n, <<OUTW>>)
  BY <1>1, <1>4, <1>5, Logged DEF PortWritten
<1>7. Keeps(m, n)
  BY <1>1, <1>6 DEF PortWritten, Bus, Runs, Keeps
<1>8. Runs(m, n, <<OUTW>>)
  BY <1>1, <1>6, <1>7 DEF PortWritten, Bus, Runs
<1> QED BY <1>1, <1>6, <1>8 DEF PortWritten, Bus, SameControl

-----------------------------------------------------------------------------
(* The instructions. *)
LEMMA BusTypes ==
  ASSUME NEW m, NEW n, NEW t, Bus(m, n, t)
  PROVE  m \in Machines /\ n \in Machines
BY DEF Bus, Runs, Keeps

LEMMA BusNone ==
  ASSUME NEW m \in Machines
  PROVE  Bus(m, m, << >>)
<1>1. m.cpu.pc \in Address
  BY Fields, CpuFields
<1>2. [m EXCEPT !.cpu.pc = m.cpu.pc] = m
  <2>1. m.cpu \in Cpus
    BY Fields
  <2>2. [m.cpu EXCEPT !.pc = m.cpu.pc] = m.cpu
    BY <2>1 DEF Cpus
  <2>3. [m EXCEPT !.cpu = m.cpu] = m
    BY DEF Machines
  <2> QED BY <2>2, <2>3
<1> QED BY <1>1, <1>2, RegisterSet

LEMMA ThenRegister ==
  ASSUME NEW m, NEW n, NEW t \in StatusSeq, Bus(m, n, t)
  PROVE  /\ \A v \in Address : Bus(m, [n EXCEPT !.cpu.pc = v], t)
         /\ \A v \in Address : Bus(m, [n EXCEPT !.cpu.sp = v], t)
         /\ \A v \in Address : Bus(m, [n EXCEPT !.cpu.hl = v], t)
         /\ \A v \in Byte : Bus(m, [n EXCEPT !.cpu.a = v], t)
         /\ \A v \in BOOLEAN : Bus(m, [n EXCEPT !.cpu.z = v], t)
BY BusTypes, RegisterSet, BusQuiet

LEMMA Called ==
  ASSUME NEW m \in Machines, NEW addr \in Address
  PROVE  Bus(m, Call(m, addr), <<STACKW, STACKW>>)
<1>1. m.cpu.pc \in Address /\ <<STACKW, STACKW>> \in StatusSeq
  BY Fields, CpuFields, StatusTails
<1>2. Bus(m, push16(m, m.cpu.pc), <<STACKW, STACKW>>)
  BY <1>1, Push16
<1> QED BY <1>1, <1>2, ThenRegister DEF Call, Goto

LEMMA Returned ==
  ASSUME NEW m \in Machines
  PROVE  Bus(m, Goto(pop16(m), Top16(m)), <<STACKR, STACKR>>)
<1>1. <<STACKR, STACKR>> \in StatusSeq
  BY StatusTails
<1> QED BY <1>1, Pop16, ThenRegister DEF Goto

(* The tails of the instructions with an address, once it has been read. *)
TailsAt(op) ==
  CASE op = \h32 -> {<<MEMW>>}
    [] op = \h3A -> {<<MEMR>>}
    [] op = \h22 -> {<<MEMW, MEMW>>}
    [] op = \h2A -> {<<MEMR, MEMR>>}
    [] op = \hC3 -> {<< >>}
    [] op = \hC2 -> {<< >>}
    [] op = \hCD -> {<<STACKW, STACKW>>}
    [] op = \hCC -> {<< >>, <<STACKW, STACKW>>}

LEMMA ExecutedAt ==
  ASSUME NEW m \in Machines, NEW op \in ADDR, NEW addr \in Address
  PROVE  \E t \in TailsAt(op) : Bus(m, execute_at(m, op, addr), t)
<1> DEFINE n == execute_at(m, op, addr)
<1>0. /\ m.cpu.a \in Byte /\ m.cpu.hl % 256 \in Byte /\ m.cpu.hl \div 256 \in Byte
      /\ Word(addr + 1) \in Address
  <2>1. m.cpu.a \in Byte /\ m.cpu.hl \in Address
    BY Fields, CpuFields
  <2>2. addr + 1 \in Int
    BY OfAddress
  <2> QED BY <2>1, <2>2, BytesOfWord, WordType
<1>01. /\ <<MEMR>> \in StatusSeq /\ <<MEMW>> \in StatusSeq /\ << >> \in StatusSeq
       /\ <<MEMR, MEMR>> \in StatusSeq /\ MEMR \in Statuses /\ MEMW \in Statuses
  BY StatusTails
<1>1. CASE op = \h32
  <2>1. n = bus_wr(m, addr, m.cpu.a, MEMW) /\ TailsAt(op) = {<<MEMW>>}
    BY <1>1 DEF execute_at, TailsAt
  <2> QED BY <1>0, <1>01, <2>1, BusWrite
<1>2. CASE op = \h3A
  <2>1. /\ n = [bus_rd(m, addr, MEMR) EXCEPT !.cpu.a = umk_peek(m, addr)]
        /\ TailsAt(op) = {<<MEMR>>}
    BY <1>2 DEF execute_at, TailsAt
  <2>2. Bus(m, bus_rd(m, addr, MEMR), <<MEMR>>)
    BY <1>01, BusRead
  <2>3. umk_peek(m, addr) \in Byte
    BY PeekType
  <2> QED BY <1>01, <2>1, <2>2, <2>3, ThenRegister
<1>3. CASE op = \h22
  <2> DEFINE p == bus_wr(m, addr, m.cpu.hl % 256, MEMW)
  <2>1. /\ n = bus_wr(p, Word(addr + 1), m.cpu.hl \div 256, MEMW)
        /\ TailsAt(op) = {<<MEMW, MEMW>>}
    BY <1>3 DEF execute_at, TailsAt
  <2>2. Bus(m, p, <<MEMW>>) /\ p \in Machines
    BY <1>0, <1>01, BusWrite, BusTypes
  <2> HIDE DEF p
  <2>3. Bus(p, n, <<MEMW>>)
    BY <1>0, <1>01, <2>1, <2>2, BusWrite
  <2> HIDE DEF n
  <2>4. Bus(m, n, <<MEMW, MEMW>>)
    BY <1>01, <2>2, <2>3, BusThen, Pairs
  <2> QED BY <2>1, <2>4 DEF n
<1>4. CASE op = \h2A
  <2> DEFINE p == bus_rd(m, addr, MEMR)
             q == bus_rd(p, Word(addr + 1), MEMR)
             v == umk_peek(m, addr) + 256 * umk_peek(m, Word(addr + 1))
  <2>1. n = [q EXCEPT !.cpu.hl = v] /\ TailsAt(op) = {<<MEMR, MEMR>>}
    BY <1>4 DEF execute_at, TailsAt
  <2>2. Bus(m, p, <<MEMR>>) /\ p \in Machines
    BY <1>0, <1>01, BusRead, BusTypes
  <2>3. v \in Address
    BY <1>0, PeekType, WordOfBytes
  <2> HIDE DEF p, n, v
  <2>4. Bus(p, q, <<MEMR>>)
    BY <1>0, <1>01, <2>2, BusRead
  <2> HIDE DEF q
  <2>5. Bus(m, q, <<MEMR, MEMR>>)
    BY <1>01, <2>2, <2>4, BusThen, Pairs
  <2> QED BY <1>01, <2>1, <2>3, <2>5, ThenRegister DEF n
<1>5. CASE op = \hC3
  <2>1. n = Goto(m, addr) /\ TailsAt(op) = {<< >>}
    BY <1>5 DEF execute_at, TailsAt
  <2> QED BY <2>1, RegisterSet DEF Goto
<1>6. CASE op = \hC2
  <2>1. (n = m \/ n = Goto(m, addr)) /\ TailsAt(op) = {<< >>}
    BY <1>6 DEF execute_at, TailsAt
  <2> QED BY <2>1, RegisterSet, BusNone DEF Goto
<1>7. CASE op = \hCD
  <2>1. n = Call(m, addr) /\ TailsAt(op) = {<<STACKW, STACKW>>}
    BY <1>7 DEF execute_at, TailsAt
  <2> QED BY <2>1, Called
<1>8. CASE op = \hCC
  <2>1. (n = m \/ n = Call(m, addr)) /\ TailsAt(op) = {<< >>, <<STACKW, STACKW>>}
    BY <1>8 DEF execute_at, TailsAt
  <2> QED BY <2>1, Called, BusNone
<1> QED BY <1>1, <1>2, <1>3, <1>4, <1>5, <1>6, <1>7, <1>8 DEF ADDR

(* The tails of every instruction: of those that change only registers, none. *)
OtherTails(op) ==
  CASE op = \h3E -> {<<MEMR>>}
    [] op = \h21 -> {<<MEMR, MEMR>>}
    [] op = \h31 -> {<<MEMR, MEMR>>}
    [] op = \h77 -> {<<MEMW>>}
    [] op = \h34 -> {<<MEMR, MEMW>>}
    [] op = \hC9 -> {<<STACKR, STACKR>>}
    [] op = \hC8 -> {<< >>, <<STACKR, STACKR>>}
    [] op = \hFF -> {<<STACKW, STACKW>>}
    [] op = \hF5 -> {<<STACKW, STACKW>>}
    [] op = \hE1 -> {<<STACKR, STACKR>>}
    [] op = \hE3 -> {<<STACKR, STACKR>> \o <<STACKW, STACKW>>}
    [] op = \hDB -> {<<MEMR>> \o <<INPR>>}
    [] op = \hD3 -> {<<MEMR>> \o <<OUTW>>}
    [] OTHER -> {<< >>}

TailsOf(op) ==
  IF op \in ADDR THEN {<<MEMR, MEMR>> \o t : t \in TailsAt(op)} ELSE OtherTails(op)

(* At most n cycles. *)
Short(n) == {t \in StatusSeq : Len(t) <= n}

LEMMA ShortTails ==
  /\ << >> \in Short(2)
  /\ \A a \in Statuses : <<a>> \in Short(2)
  /\ \A a, b \in Statuses : <<a, b>> \in Short(2)
  /\ \A s, t \in Short(2) : s \o t \in Short(4)
  /\ Short(2) \subseteq Short(4)
<1>1. << >> \in Short(2)
  BY StatusTails, EmptySeq DEF Short
<1>2. ASSUME NEW a \in Statuses PROVE <<a>> \in Short(2)
  <2>1. Len(<<a>>) <= 2
    OBVIOUS
  <2> QED BY <2>1, StatusTails, Zenon DEF Short
<1>3. ASSUME NEW a \in Statuses, NEW b \in Statuses PROVE <<a, b>> \in Short(2)
  <2>1. Len(<<a, b>>) <= 2
    OBVIOUS
  <2> QED BY <2>1, StatusTails, Zenon DEF Short
<1>4. ASSUME NEW s \in Short(2), NEW t \in Short(2) PROVE s \o t \in Short(4)
  <2>1. s \in StatusSeq /\ Len(s) <= 2 /\ t \in StatusSeq /\ Len(t) <= 2
    BY DEF Short
  <2>2. Len(s) \in Nat /\ Len(t) \in Nat
    BY <2>1, LenProperties DEF StatusSeq
  <2>3. s \o t \in StatusSeq /\ Len(s \o t) = Len(s) + Len(t)
    BY <2>1, ConcatProperties DEF StatusSeq
  <2>4. Len(s \o t) <= 4
    BY <2>1, <2>2, <2>3
  <2> QED BY <2>3, <2>4 DEF Short
<1>5. Short(2) \subseteq Short(4)
  <2>1. \A s \in StatusSeq : Len(s) \in Nat
    BY LenProperties DEF StatusSeq
  <2> QED BY <2>1 DEF Short
<1> QED BY <1>1, <1>2, <1>3, <1>4, <1>5

LEMMA TailsAtType ==
  ASSUME NEW op \in ADDR
  PROVE  TailsAt(op) \subseteq Short(2)
<1>1. {MEMR, MEMW, STACKW} \subseteq Statuses
  BY StatusTails
<1>2. TailsAt(op) \subseteq
        {<< >>, <<MEMR>>, <<MEMW>>, <<MEMR, MEMR>>, <<MEMW, MEMW>>, <<STACKW, STACKW>>}
  BY DEF TailsAt, ADDR
<1> QED BY <1>1, <1>2, ShortTails, Zenon

LEMMA TailsOfType ==
  ASSUME NEW op
  PROVE  TailsOf(op) \subseteq Short(4)
<1>1. {MEMR, MEMW, STACKR, STACKW, INPR, OUTW} \subseteq Statuses
  BY StatusTails
<1>2. CASE op \in ADDR
  <2>1. TailsOf(op) = {<<MEMR, MEMR>> \o t : t \in TailsAt(op)}
    BY <1>2, Zenon DEF TailsOf
  <2>2. <<MEMR, MEMR>> \in Short(2)
    BY <1>1, ShortTails, Zenon
  <2> QED BY <1>2, <2>1, <2>2, TailsAtType, ShortTails, Zenon
<1>3. CASE op \notin ADDR
  <2>1. TailsOf(op) \subseteq
              {<< >>, <<MEMR>>, <<MEMW>>, <<MEMR, MEMR>>, <<MEMR, MEMW>>,
               <<STACKR, STACKR>>, <<STACKW, STACKW>>,
               <<STACKR, STACKR>> \o <<STACKW, STACKW>>,
               <<MEMR>> \o <<INPR>>, <<MEMR>> \o <<OUTW>>}
    <3>1. ASSUME NEW t \in TailsOf(op)
          PROVE  t \in {<< >>, <<MEMR>>, <<MEMW>>, <<MEMR, MEMR>>, <<MEMR, MEMW>>,
                        <<STACKR, STACKR>>, <<STACKW, STACKW>>,
                        <<STACKR, STACKR>> \o <<STACKW, STACKW>>,
                        <<MEMR>> \o <<INPR>>, <<MEMR>> \o <<OUTW>>}
      BY <1>3 DEF TailsOf, OtherTails
    <3> QED BY <3>1
  <2>2. /\ << >> \in Short(2) /\ <<MEMR>> \in Short(2) /\ <<MEMW>> \in Short(2)
        /\ <<MEMR, MEMR>> \in Short(2) /\ <<MEMR, MEMW>> \in Short(2)
        /\ <<STACKR, STACKR>> \in Short(2) /\ <<STACKW, STACKW>> \in Short(2)
        /\ <<INPR>> \in Short(2) /\ <<OUTW>> \in Short(2)
    BY <1>1, ShortTails, Zenon
  <2>3. /\ <<STACKR, STACKR>> \o <<STACKW, STACKW>> \in Short(4)
        /\ <<MEMR>> \o <<INPR>> \in Short(4) /\ <<MEMR>> \o <<OUTW>> \in Short(4)
    BY <2>2, ShortTails, Zenon
  <2>4. /\ << >> \in Short(4) /\ <<MEMR>> \in Short(4) /\ <<MEMW>> \in Short(4)
        /\ <<MEMR, MEMR>> \in Short(4) /\ <<MEMR, MEMW>> \in Short(4)
        /\ <<STACKR, STACKR>> \in Short(4) /\ <<STACKW, STACKW>> \in Short(4)
    BY <2>2, ShortTails, Zenon
  <2> QED BY <2>1, <2>3, <2>4, Zenon
<1> QED BY <1>2, <1>3

LEMMA PswType ==
  ASSUME NEW c \in Cpus
  PROVE  PSW(c) \in Address
<1>1. c.a \in Byte
  BY CpuFields
<1>2. c.a \in Int /\ 0 <= c.a /\ c.a <= 255
  BY <1>1, OfByte
<1> DEFINE f == IF c.z THEN \h42 ELSE \h02
<1>3. f \in {\h42, \h02}
  OBVIOUS
<1>4. PSW(c) = 256 * c.a + f
  BY DEF PSW
<1> HIDE DEF f
<1>5. PSW(c) \in Int /\ 0 <= PSW(c) /\ PSW(c) <= 65535
  BY <1>2, <1>3, <1>4
<1> QED BY <1>5, InAddress

LEMMA CountedType ==
  ASSUME NEW v \in Byte
  PROVE  Decremented(v) \in Byte /\ Incremented(v) \in Byte
<1>1. v \in Int /\ 0 <= v /\ v <= 255
  BY OfByte
<1>2. Decremented(v) \in Int /\ 0 <= Decremented(v) /\ Decremented(v) <= 255
  BY <1>1 DEF Decremented
<1>3. Incremented(v) \in Int /\ 0 <= Incremented(v) /\ Incremented(v) <= 255
  BY <1>1 DEF Incremented
<1> QED BY <1>2, <1>3, InByte

LEMMA FlagSet ==
  ASSUME NEW m, NEW n, NEW t \in StatusSeq, Bus(m, n, t), NEW v
  PROVE  Bus(m, SetZ(n, v), t)
<1> DEFINE b == (v = 0)
<1>1. b \in BOOLEAN
  OBVIOUS
<1>2. SetZ(n, v) = [n EXCEPT !.cpu.z = b]
  BY DEF SetZ
<1> HIDE DEF b
<1> QED BY <1>1, <1>2, ThenRegister

(* Everything but EI, DI, HLT and OUT leaves interrupt control and the display *)
(* alone.                                                                    *)
LEMMA OrdinaryWithAddress ==
  ASSUME NEW m \in Machines, NEW op \in ADDR
  PROVE  \E t \in TailsOf(op) : Bus(m, execute(m, op), t)
<1> DEFINE p == fetch16(m)
           n == execute(m, op)
<1>1. Bus(m, p, <<MEMR, MEMR>>) /\ Imm16(m) \in Address
  BY Fetch16
<1>2. n = execute_at(p, op, Imm16(m))
  BY SMTT(30) DEF execute, ADDR
<1>3. p \in Machines /\ <<MEMR, MEMR>> \in StatusSeq
  BY <1>1, BusTypes, StatusTails
<1> HIDE DEF p
<1>4. PICK t \in TailsAt(op) : Bus(p, n, t)
  BY <1>1, <1>2, <1>3, ExecutedAt
<1>5. t \in StatusSeq
  BY TailsAtType DEF Short
<1> HIDE DEF n
<1>6. Bus(m, n, <<MEMR, MEMR>> \o t)
  BY <1>1, <1>3, <1>4, <1>5, BusThen
<1>7. <<MEMR, MEMR>> \o t \in TailsOf(op)
  BY Zenon DEF TailsOf
<1>8. \E u \in TailsOf(op) : Bus(m, n, u)
  BY <1>6, <1>7
<1> QED BY <1>8 DEF n

LEMMA OrdinaryMemory ==
  ASSUME NEW m \in Machines,
         NEW op \in {\h3D, \h3E, \h21, \h31, \h77, \h34}
  PROVE  \E t \in OtherTails(op) : Bus(m, execute(m, op), t)
<1> DEFINE n == execute(m, op)
<1>0. /\ << >> \in StatusSeq /\ <<MEMR>> \in StatusSeq /\ <<MEMW>> \in StatusSeq
      /\ <<MEMR, MEMR>> \in StatusSeq /\ <<MEMR, MEMW>> \in StatusSeq
      /\ MEMR \in Statuses /\ MEMW \in Statuses
  BY StatusTails
<1>01. m.cpu.a \in Byte /\ m.cpu.hl \in Address
  BY Fields, CpuFields
<1>1. CASE op = \h3D
  <2> DEFINE p == [m EXCEPT !.cpu.a = Decremented(m.cpu.a)]
  <2>1. n = SetZ(p, Decremented(m.cpu.a)) /\ OtherTails(op) = {<< >>}
    BY <1>1 DEF execute, OtherTails, ADDR
  <2>2. Bus(m, p, << >>)
    BY <1>01, CountedType, RegisterSet
  <2> HIDE DEF p
  <2>3. Bus(m, n, << >>)
    BY <1>0, <2>1, <2>2, FlagSet
  <2> QED BY <2>1, <2>3
<1>2. CASE op = \h3E
  <2>1. n = [fetch8(m) EXCEPT !.cpu.a = Imm8(m)] /\ OtherTails(op) = {<<MEMR>>}
    BY <1>2 DEF execute, OtherTails, ADDR
  <2>2. Bus(m, n, <<MEMR>>)
    BY <1>0, <2>1, Fetch8, ThenRegister
  <2> QED BY <2>1, <2>2
<1>3. CASE op = \h21
  <2>1. n = [fetch16(m) EXCEPT !.cpu.hl = Imm16(m)] /\ OtherTails(op) = {<<MEMR, MEMR>>}
    BY <1>3 DEF execute, OtherTails, ADDR
  <2>2. Bus(m, n, <<MEMR, MEMR>>)
    BY <1>0, <2>1, Fetch16, ThenRegister
  <2> QED BY <2>1, <2>2
<1>4. CASE op = \h31
  <2>1. n = [fetch16(m) EXCEPT !.cpu.sp = Imm16(m)] /\ OtherTails(op) = {<<MEMR, MEMR>>}
    BY <1>4 DEF execute, OtherTails, ADDR
  <2>2. Bus(m, n, <<MEMR, MEMR>>)
    BY <1>0, <2>1, Fetch16, ThenRegister
  <2> QED BY <2>1, <2>2
<1>5. CASE op = \h77
  <2>1. n = bus_wr(m, m.cpu.hl, m.cpu.a, MEMW) /\ OtherTails(op) = {<<MEMW>>}
    BY <1>5 DEF execute, OtherTails, ADDR
  <2>2. Bus(m, n, <<MEMW>>)
    BY <1>0, <1>01, <2>1, BusWrite
  <2> QED BY <2>1, <2>2
<1>6. CASE op = \h34
  <2> DEFINE v == Incremented(umk_peek(m, m.cpu.hl))
             p == bus_rd(m, m.cpu.hl, MEMR)
             q == bus_wr(p, m.cpu.hl, v, MEMW)
  <2>1. n = SetZ(q, v) /\ OtherTails(op) = {<<MEMR, MEMW>>}
    BY <1>6 DEF execute, OtherTails, ADDR
  <2>2. v \in Byte
    BY <1>01, PeekType, CountedType
  <2> HIDE DEF v
  <2>3. Bus(m, p, <<MEMR>>) /\ p \in Machines
    BY <1>0, <1>01, BusRead, BusTypes
  <2> HIDE DEF p
  <2>4. Bus(p, q, <<MEMW>>)
    BY <1>0, <1>01, <2>2, <2>3, BusWrite
  <2> HIDE DEF q
  <2>5. Bus(m, q, <<MEMR, MEMW>>)
    BY <1>0, <2>3, <2>4, BusThen, Pairs
  <2>6. Bus(m, n, <<MEMR, MEMW>>)
    BY <1>0, <2>1, <2>5, FlagSet
  <2> QED BY <2>1, <2>6
<1> QED BY <1>1, <1>2, <1>3, <1>4, <1>5, <1>6

LEMMA OrdinaryStack ==
  ASSUME NEW m \in Machines,
         NEW op \in {\hC9, \hC8, \hFF, \hF5, \hE1, \hE3, \hDB}
  PROVE  \E t \in OtherTails(op) : Bus(m, execute(m, op), t)
<1> DEFINE n == execute(m, op)
<1>0. /\ << >> \in StatusSeq /\ <<MEMR>> \in StatusSeq /\ <<INPR>> \in StatusSeq
      /\ <<STACKR, STACKR>> \in StatusSeq /\ <<STACKW, STACKW>> \in StatusSeq
      /\ MEMR \in Statuses /\ INPR \in Statuses
  BY StatusTails
<1>01. m.cpu \in Cpus /\ m.cpu.a \in Byte /\ m.cpu.hl \in Address
  BY Fields, CpuFields
<1>1. CASE op = \hC9
  <2>1. n = Goto(pop16(m), Top16(m)) /\ OtherTails(op) = {<<STACKR, STACKR>>}
    BY <1>1 DEF execute, OtherTails, ADDR
  <2> QED BY <2>1, Returned
<1>2. CASE op = \hC8
  <2>1. /\ n = m \/ n = Goto(pop16(m), Top16(m))
        /\ OtherTails(op) = {<< >>, <<STACKR, STACKR>>}
    BY <1>2 DEF execute, OtherTails, ADDR
  <2> QED BY <2>1, Returned, BusNone
<1>3. CASE op = \hFF
  <2>1. n = Call(m, \h38) /\ OtherTails(op) = {<<STACKW, STACKW>>}
    BY <1>3 DEF execute, OtherTails, ADDR
  <2>2. \h38 \in Address
    BY InAddress
  <2> QED BY <2>1, <2>2, Called
<1>4. CASE op = \hF5
  <2>1. n = push16(m, PSW(m.cpu)) /\ OtherTails(op) = {<<STACKW, STACKW>>}
    BY <1>4 DEF execute, OtherTails, ADDR
  <2> QED BY <1>01, <2>1, PswType, Push16
<1>5. CASE op = \hE1
  <2>1. n = [pop16(m) EXCEPT !.cpu.hl = Top16(m)] /\ OtherTails(op) = {<<STACKR, STACKR>>}
    BY <1>5 DEF execute, OtherTails, ADDR
  <2>2. Bus(m, n, <<STACKR, STACKR>>)
    BY <1>0, <2>1, Pop16, ThenRegister
  <2> QED BY <2>1, <2>2
<1>6. CASE op = \hE3
  <2> DEFINE p == pop16(m)
             q == push16(p, m.cpu.hl)
  <2>1. /\ n = [q EXCEPT !.cpu.hl = Top16(m)]
        /\ OtherTails(op) = {<<STACKR, STACKR>> \o <<STACKW, STACKW>>}
    BY <1>6 DEF execute, OtherTails, ADDR
  <2>2. Bus(m, p, <<STACKR, STACKR>>) /\ p \in Machines /\ Top16(m) \in Address
    BY Pop16, BusTypes
  <2> HIDE DEF p
  <2>3. Bus(p, q, <<STACKW, STACKW>>)
    BY <1>01, <2>2, Push16
  <2> HIDE DEF q
  <2>4. Bus(m, q, <<STACKR, STACKR>> \o <<STACKW, STACKW>>)
    BY <1>0, <2>2, <2>3, BusThen
  <2>5. <<STACKR, STACKR>> \o <<STACKW, STACKW>> \in StatusSeq
    BY <1>0, ConcatProperties DEF StatusSeq
  <2>6. Bus(m, n, <<STACKR, STACKR>> \o <<STACKW, STACKW>>)
    BY <2>1, <2>2, <2>4, <2>5, ThenRegister
  <2> QED BY <2>1, <2>6
<1>7. CASE op = \hDB
  <2> DEFINE p == fetch8(m)
             q == in_cycle(p, Imm8(m))
  <2>1. /\ n = [q EXCEPT !.cpu.a = bus_in(m, Imm8(m))]
        /\ OtherTails(op) = {<<MEMR>> \o <<INPR>>}
    BY <1>7 DEF execute, OtherTails, ADDR
  <2>2. Bus(m, p, <<MEMR>>) /\ p \in Machines /\ Imm8(m) \in Byte
    BY Fetch8, BusTypes
  <2> HIDE DEF p
  <2>3. Bus(p, q, <<INPR>>) /\ bus_in(m, Imm8(m)) \in Byte
    BY <2>2, InCycle, PortRead
  <2> HIDE DEF q
  <2>4. Bus(m, q, <<MEMR>> \o <<INPR>>)
    BY <1>0, <2>2, <2>3, BusThen
  <2>5. <<MEMR>> \o <<INPR>> \in StatusSeq
    BY <1>0, ConcatProperties DEF StatusSeq
  <2>6. Bus(m, n, <<MEMR>> \o <<INPR>>)
    BY <2>1, <2>3, <2>4, <2>5, ThenRegister
  <2> QED BY <2>1, <2>6
<1> QED BY <1>1, <1>2, <1>3, <1>4, <1>5, <1>6, <1>7

(* What EI, DI and HLT do to interrupt control, and OUT to the display. *)
InteThen(op, i)   == IF op = \hFB THEN TRUE ELSE IF op = \hF3 THEN FALSE ELSE i
HaltedThen(op, h) == IF op = \h76 THEN TRUE ELSE h
DelayThen(op, d)  == IF op = \hFB THEN 1 ELSE IF op = \hF3 THEN 0 ELSE d

Controls(m, n, op) ==
  /\ n.cpu.inte = InteThen(op, m.cpu.inte)
  /\ n.cpu.halted = HaltedThen(op, m.cpu.halted)
  /\ n.cpu.int_delay = DelayThen(op, m.cpu.int_delay)

LEMMA Execution ==
  ASSUME NEW m \in Machines, NEW op \in Byte, NEW n, n = execute(m, op)
  PROVE  /\ \E t \in TailsOf(op) : Runs(m, n, t)
         /\ Controls(m, n, op)
         /\ \/ n.integrated_to = m.integrated_to
            \/ op = \hD3 /\ n.integrated_to = m.step_start_cycles + OUT_WRITE_OFFSET
<1>0. m.cpu \in Cpus
  BY Fields
<1>1. ASSUME op \notin {\hFB, \hF3, \h76}, NEW t \in TailsOf(op), Bus(m, n, t)
      PROVE  /\ \E u \in TailsOf(op) : Runs(m, n, u)
             /\ Controls(m, n, op) /\ n.integrated_to = m.integrated_to
  BY <1>1 DEF Bus, SameControl, Controls, InteThen, HaltedThen, DelayThen
<1>2. CASE op \in ADDR
  BY <1>1, <1>2, OrdinaryWithAddress DEF ADDR
<1>3. CASE op \in {\h3D, \h3E, \h21, \h31, \h77, \h34}
  <2>1. TailsOf(op) = OtherTails(op)
    BY <1>3 DEF TailsOf, ADDR
  <2> QED BY <1>1, <1>3, <2>1, OrdinaryMemory
<1>4. CASE op \in {\hC9, \hC8, \hFF, \hF5, \hE1, \hE3, \hDB}
  <2>1. TailsOf(op) = OtherTails(op)
    BY <1>4 DEF TailsOf, ADDR
  <2> QED BY <1>1, <1>4, <2>1, OrdinaryStack
<1>5. CASE op = \hD3
  <2> DEFINE p == fetch8(m)
  <2>1. n = out_cycle(p, Imm8(m), m.cpu.a) /\ TailsOf(op) = {<<MEMR>> \o <<OUTW>>}
    BY <1>5 DEF execute, TailsOf, OtherTails, ADDR
  <2>2. Bus(m, p, <<MEMR>>) /\ p \in Machines /\ Imm8(m) \in Byte
    BY Fetch8, BusTypes
  <2>3. m.cpu.a \in Byte
    BY <1>0, CpuFields
  <2> HIDE DEF p
  <2>4. /\ Runs(p, n, <<OUTW>>) /\ SameControl(p, n)
        /\ \/ n.integrated_to = p.integrated_to
           \/ n.integrated_to = p.step_start_cycles + OUT_WRITE_OFFSET
    BY <2>1, <2>2, <2>3, OutCycle
  <2>5. <<MEMR>> \in StatusSeq /\ <<OUTW>> \in StatusSeq
    BY StatusTails
  <2>6. Runs(m, n, <<MEMR>> \o <<OUTW>>)
    BY <2>2, <2>4, <2>5, RunsThen DEF Bus
  <2>7. Controls(m, n, op)
    BY <1>5, <2>2, <2>4 DEF Bus, SameControl, Controls, InteThen, HaltedThen, DelayThen
  <2>8. /\ p.integrated_to = m.integrated_to
        /\ p.step_start_cycles = m.step_start_cycles
    BY <2>2 DEF Bus, Runs, Keeps
  <2> QED BY <1>5, <2>1, <2>4, <2>6, <2>7, <2>8
<1>6. CASE op = \hFB
  <2> DEFINE d == [m.cpu EXCEPT !.inte = TRUE, !.int_delay = 1]
  <2>1. n = [m EXCEPT !.cpu = d]
    BY <1>6 DEF execute, ADDR
  <2>2. TailsOf(op) = {<< >>}
    <3>1. TailsOf(op) = OtherTails(op)
      BY <1>6 DEF TailsOf, ADDR
    <3> QED BY <1>6, <3>1 DEF OtherTails
  <2>3. d = [m.cpu EXCEPT !.inte = TRUE, !.int_delay = 1]
    OBVIOUS
  <2>4. /\ InteThen(op, m.cpu.inte) = TRUE
        /\ HaltedThen(op, m.cpu.halted) = m.cpu.halted
        /\ DelayThen(op, m.cpu.int_delay) = 1
    BY <1>6 DEF InteThen, HaltedThen, DelayThen
  <2> HIDE DEF d
  <2>5. /\ d \in Cpus /\ d.inte = InteThen(op, m.cpu.inte)
        /\ d.halted = HaltedThen(op, m.cpu.halted)
        /\ d.int_delay = DelayThen(op, m.cpu.int_delay)
        /\ d.cycles = m.cpu.cycles /\ d.mc = m.cpu.mc
        /\ d.int_pending = m.cpu.int_pending /\ d.int_vector = m.cpu.int_vector
    BY <1>0, <2>3, <2>4, Enabled
  <2>6. n.cpu = d /\ Runs(m, n, << >>) /\ n.integrated_to = m.integrated_to
    BY <2>1, <2>5, CpuReplaced
  <2> QED BY <2>2, <2>5, <2>6 DEF Controls
<1>7. CASE op = \hF3
  <2> DEFINE d == [m.cpu EXCEPT !.inte = FALSE, !.int_delay = 0]
  <2>1. n = [m EXCEPT !.cpu = d]
    BY <1>7 DEF execute, ADDR
  <2>2. TailsOf(op) = {<< >>}
    <3>1. TailsOf(op) = OtherTails(op)
      BY <1>7 DEF TailsOf, ADDR
    <3> QED BY <1>7, <3>1 DEF OtherTails
  <2>3. d = [m.cpu EXCEPT !.inte = FALSE, !.int_delay = 0]
    OBVIOUS
  <2>4. /\ InteThen(op, m.cpu.inte) = FALSE
        /\ HaltedThen(op, m.cpu.halted) = m.cpu.halted
        /\ DelayThen(op, m.cpu.int_delay) = 0
    BY <1>7 DEF InteThen, HaltedThen, DelayThen
  <2> HIDE DEF d
  <2>5. /\ d \in Cpus /\ d.inte = InteThen(op, m.cpu.inte)
        /\ d.halted = HaltedThen(op, m.cpu.halted)
        /\ d.int_delay = DelayThen(op, m.cpu.int_delay)
        /\ d.cycles = m.cpu.cycles /\ d.mc = m.cpu.mc
        /\ d.int_pending = m.cpu.int_pending /\ d.int_vector = m.cpu.int_vector
    BY <1>0, <2>3, <2>4, Disabled
  <2>6. n.cpu = d /\ Runs(m, n, << >>) /\ n.integrated_to = m.integrated_to
    BY <2>1, <2>5, CpuReplaced
  <2> QED BY <2>2, <2>5, <2>6 DEF Controls
<1>8. CASE op = \h76
  <2> DEFINE d == [m.cpu EXCEPT !.halted = TRUE]
  <2>1. n = [m EXCEPT !.cpu = d]
    BY <1>8 DEF execute, ADDR
  <2>2. TailsOf(op) = {<< >>}
    <3>1. TailsOf(op) = OtherTails(op)
      BY <1>8 DEF TailsOf, ADDR
    <3> QED BY <1>8, <3>1 DEF OtherTails
  <2>3. d = [m.cpu EXCEPT !.halted = TRUE]
    OBVIOUS
  <2>4. /\ InteThen(op, m.cpu.inte) = m.cpu.inte
        /\ HaltedThen(op, m.cpu.halted) = TRUE
        /\ DelayThen(op, m.cpu.int_delay) = m.cpu.int_delay
    BY <1>8 DEF InteThen, HaltedThen, DelayThen
  <2> HIDE DEF d
  <2>5. /\ d \in Cpus /\ d.inte = InteThen(op, m.cpu.inte)
        /\ d.halted = HaltedThen(op, m.cpu.halted)
        /\ d.int_delay = DelayThen(op, m.cpu.int_delay)
        /\ d.cycles = m.cpu.cycles /\ d.mc = m.cpu.mc
        /\ d.int_pending = m.cpu.int_pending /\ d.int_vector = m.cpu.int_vector
    BY <1>0, <2>3, <2>4, Halted
  <2>6. n.cpu = d /\ Runs(m, n, << >>) /\ n.integrated_to = m.integrated_to
    BY <2>1, <2>5, CpuReplaced
  <2> QED BY <2>2, <2>5, <2>6 DEF Controls
<1>9. CASE /\ op \notin ADDR
           /\ op \notin {\h3D, \h3E, \h21, \h31, \h77, \h34}
           /\ op \notin {\hC9, \hC8, \hFF, \hF5, \hE1, \hE3, \hDB}
           /\ op \notin {\hFB, \hF3, \h76} /\ op # \hD3
  <2>1. n = m /\ TailsOf(op) = {<< >>}
    BY <1>9 DEF execute, TailsOf, OtherTails
  <2> QED BY <1>1, <1>9, <2>1, BusNone
<1> QED BY <1>2, <1>3, <1>4, <1>5, <1>6, <1>7, <1>8, <1>9

-----------------------------------------------------------------------------
(* A whole step of the CPU, from a machine whose trace is empty: u lists the  *)
(* status words of its cycles.                                               *)
SameFrame(m, n) ==
  /\ m \in Machines /\ n \in Machines
  /\ n.rom = m.rom /\ n.panel = m.panel /\ n.kbd = m.kbd
  /\ n.step_start_cycles = m.step_start_cycles
  /\ n.step.latch_step = m.step.latch_step /\ n.step.latch_cycle = m.step.latch_cycle
  /\ n.step.waiting = m.step.waiting /\ n.step.mc_index = m.step.mc_index
  /\ n.step.mc = m.step.mc
  /\ n.cpu.int_vector = m.cpu.int_vector
  /\ n.trial.on = m.trial.on

Stepped(m, n, u) ==
  /\ SameFrame(m, n)
  /\ Len(n.cpu.mc) = Len(u) /\ \A i \in 1 .. Len(u) : n.cpu.mc[i].status = u[i]
  /\ Journaled(m.trial.on, m.ram, m.trial.log, n.ram, n.trial.log, Len(u))

(* Time passes, and an OUT may have brought the display to its write.        *)
Advances(m, n) ==
  /\ m.cpu.cycles + 4 <= n.cpu.cycles
  /\ \/ n.integrated_to = m.integrated_to
     \/ /\ m.cpu.cycles + 10 <= n.cpu.cycles
        /\ n.integrated_to = m.step_start_cycles + OUT_WRITE_OFFSET

LEMMA CyclesBounds ==
  ASSUME NEW m, NEW op
  PROVE  CYCLES(m, op) \in Nat /\ 4 <= CYCLES(m, op) /\ (op = \hD3 => CYCLES(m, op) = 10)
BY DEF CYCLES

LEMMA Spent ==
  ASSUME NEW m \in Machines, NEW k \in Nat, NEW n, n = Spend(m, k)
  PROVE  /\ SameFrame(m, n) /\ n.ram = m.ram /\ n.trial = m.trial
         /\ n.integrated_to = m.integrated_to
         /\ n.cpu.cycles = m.cpu.cycles + k /\ n.cpu.mc = m.cpu.mc
         /\ n.cpu.inte = m.cpu.inte /\ n.cpu.halted = m.cpu.halted
         /\ n.cpu.int_pending = m.cpu.int_pending /\ n.cpu.int_delay = m.cpu.int_delay
<1> DEFINE d == [m.cpu EXCEPT !.cycles = m.cpu.cycles + k]
<1>1. m.cpu \in Cpus /\ m.cpu.cycles \in Nat
  BY Fields, CpuFields
<1>2. m.cpu.cycles + k \in Nat
  BY <1>1
<1>3. d = [m.cpu EXCEPT !.cycles = m.cpu.cycles + k]
  OBVIOUS
<1>4. n = [m EXCEPT !.cpu = d]
  BY DEF Spend
<1> HIDE DEF d
<1>5. /\ d \in Cpus /\ d.cycles = m.cpu.cycles + k /\ d.mc = m.cpu.mc
      /\ d.inte = m.cpu.inte /\ d.halted = m.cpu.halted
      /\ d.int_pending = m.cpu.int_pending /\ d.int_delay = m.cpu.int_delay
      /\ d.int_vector = m.cpu.int_vector
  BY <1>1, <1>2, <1>3, WithCycles
<1>6. /\ n \in Machines /\ n.cpu = d
      /\ n.rom = m.rom /\ n.ram = m.ram /\ n.ppi = m.ppi
      /\ n.integrated_to = m.integrated_to /\ n.panel = m.panel /\ n.step = m.step
      /\ n.kbd = m.kbd /\ n.step_start_cycles = m.step_start_cycles
      /\ n.unmapped_io_writes = m.unmapped_io_writes /\ n.trial = m.trial
  BY <1>4, <1>5, WithCpu
<1> QED BY <1>5, <1>6 DEF SameFrame

(* An instruction after its first cycle st, on p with an empty trace. *)
LEMMA Finished ==
  ASSUME NEW p \in Machines, p.cpu.mc = << >>,
         NEW x, NEW st \in Statuses, Bus(p, x, <<st>>),
         NEW op \in Byte, NEW n, n = Finish(x, op)
  PROVE  /\ \E t \in TailsOf(op) : Stepped(p, n, <<st>> \o t)
         /\ Controls(p, n, op) /\ n.cpu.int_pending = p.cpu.int_pending
         /\ Advances(p, n)
<1> DEFINE y == execute(x, op)
           k == CYCLES(x, op)
<1>1. x \in Machines /\ SameControl(p, x) /\ <<st>> \in StatusSeq
  BY BusTypes, StatusTails DEF Bus
<1>2. PICK t \in TailsOf(op) : Runs(x, y, t)
  BY <1>1, Execution
<1>3. /\ Controls(x, y, op)
      /\ \/ y.integrated_to = x.integrated_to
         \/ op = \hD3 /\ y.integrated_to = x.step_start_cycles + OUT_WRITE_OFFSET
  BY <1>1, Execution
<1>4. k \in Nat /\ 4 <= k /\ (op = \hD3 => k = 10)
  BY CyclesBounds
<1>5. n = Spend(y, k)
  BY DEF Finish
<1> HIDE DEF y, k
<1>6. t \in StatusSeq /\ Len(t) <= 4 /\ Len(t) \in Nat
  BY TailsOfType, LenProperties DEF Short, StatusSeq
<1> DEFINE u == <<st>> \o t
<1>7. u \in StatusSeq /\ Len(u) \in Nat /\ Len(u) <= 5
  <2>1. u \in StatusSeq /\ Len(u) = Len(<<st>>) + Len(t)
    BY <1>1, <1>6, ConcatProperties DEF StatusSeq
  <2>2. Len(<<st>>) = 1
    OBVIOUS
  <2> HIDE DEF u
  <2> QED BY <1>6, <2>1, <2>2
<1>8. Runs(p, y, u)
  BY <1>1, <1>2, <1>6, RunsThen DEF Bus
<1> HIDE DEF u
<1>9. /\ SameFrame(y, n) /\ n.ram = y.ram /\ n.trial = y.trial
      /\ n.integrated_to = y.integrated_to
      /\ n.cpu.cycles = y.cpu.cycles + k /\ n.cpu.mc = y.cpu.mc
      /\ n.cpu.inte = y.cpu.inte /\ n.cpu.halted = y.cpu.halted
      /\ n.cpu.int_pending = y.cpu.int_pending /\ n.cpu.int_delay = y.cpu.int_delay
  <2>1. y \in Machines
    BY <1>8 DEF Runs, Keeps
  <2> QED BY <1>4, <1>5, <2>1, Spent
<1>10. SameFrame(p, n)
  BY <1>8, <1>9 DEF Runs, Keeps, SameFrame
<1>11. Len(n.cpu.mc) = Len(u) /\ \A i \in 1 .. Len(u) : n.cpu.mc[i].status = u[i]
  <2>1. Traced(p.cpu.mc, n.cpu.mc, u) /\ Len(p.cpu.mc) = 0
    BY <1>8, <1>9, EmptySeq DEF Runs
  <2>2. \A i \in 1 .. Len(u) : 0 + i = i
    OBVIOUS
  <2> QED BY <1>7, <2>1, <2>2 DEF Traced, TraceSize
<1>12. Stepped(p, n, u)
  BY <1>8, <1>9, <1>10, <1>11 DEF Runs, Stepped
<1>13. Controls(p, n, op)
  BY <1>1, <1>3, <1>9 DEF SameControl, Controls
<1>14. n.cpu.int_pending = p.cpu.int_pending
  BY <1>8, <1>9 DEF Runs, Keeps
<1>15. Advances(p, n)
  <2>1. y.cpu.cycles = p.cpu.cycles /\ p.cpu.cycles \in Nat
    BY <1>8, Fields, CpuFields DEF Runs, Keeps
  <2>2. x.integrated_to = p.integrated_to /\ x.step_start_cycles = p.step_start_cycles
    BY DEF Bus, Runs, Keeps
  <2>3. n.cpu.cycles = p.cpu.cycles + k
    BY <1>9, <2>1
  <2>4. p.cpu.cycles + 4 <= n.cpu.cycles
    BY <1>4, <2>1, <2>3
  <2>5. op = \hD3 => p.cpu.cycles + 10 <= n.cpu.cycles
    BY <1>4, <2>1, <2>3
  <2> QED BY <1>3, <1>9, <2>2, <2>4, <2>5 DEF Advances
<1> QED BY <1>12, <1>13, <1>14, <1>15 DEF u

(* The three branches of i8080_step. *)
LEMMA Acknowledged ==
  ASSUME NEW m \in Machines, m.cpu.mc = << >>, NEW n, n = acknowledge(m)
  PROVE  /\ \E t \in TailsOf(m.cpu.int_vector) :
              Stepped(m, n, <<IF m.cpu.halted THEN INTA_HALT ELSE INTA>> \o t)
         /\ n.cpu.inte = InteThen(m.cpu.int_vector, FALSE)
         /\ n.cpu.halted = HaltedThen(m.cpu.int_vector, FALSE)
         /\ n.cpu.int_delay = DelayThen(m.cpu.int_vector, m.cpu.int_delay)
         /\ n.cpu.int_pending = FALSE
         /\ Advances(m, n)
<1> DEFINE st == IF m.cpu.halted THEN INTA_HALT ELSE INTA
           op == m.cpu.int_vector
           d  == [m.cpu EXCEPT !.int_pending = FALSE, !.inte = FALSE, !.halted = FALSE]
           p  == [m EXCEPT !.cpu = d]
           x  == mc_log(p, st, m.cpu.pc, op)
<1>1. m.cpu \in Cpus /\ m.cpu.pc \in Address /\ op \in Byte
  BY Fields, CpuFields
<1>2. st \in Statuses
  BY StatusTails
<1>3. n = Finish(x, op)
  BY DEF acknowledge
<1>4. d = [m.cpu EXCEPT !.int_pending = FALSE, !.inte = FALSE, !.halted = FALSE]
      /\ p = [m EXCEPT !.cpu = d]
  OBVIOUS
<1> HIDE DEF d
<1>5. /\ d \in Cpus /\ d.int_pending = FALSE /\ d.inte = FALSE /\ d.halted = FALSE
      /\ d.int_vector = op /\ d.int_delay = m.cpu.int_delay
      /\ d.cycles = m.cpu.cycles /\ d.mc = << >>
  BY <1>1, <1>4, Served
<1> HIDE DEF p
<1>6. /\ p \in Machines /\ p.cpu = d
      /\ p.rom = m.rom /\ p.ram = m.ram /\ p.ppi = m.ppi
      /\ p.integrated_to = m.integrated_to /\ p.panel = m.panel /\ p.step = m.step
      /\ p.kbd = m.kbd /\ p.step_start_cycles = m.step_start_cycles
      /\ p.unmapped_io_writes = m.unmapped_io_writes /\ p.trial = m.trial
  BY <1>4, <1>5, WithCpu
<1>7. p.cpu.mc = << >>
  BY <1>5, <1>6
<1>8. Bus(p, x, <<st>>)
  BY <1>1, <1>2, <1>6, Logged
<1> HIDE DEF x, st, op
<1>9. /\ \E t \in TailsOf(op) : Stepped(p, n, <<st>> \o t)
      /\ Controls(p, n, op) /\ n.cpu.int_pending = p.cpu.int_pending
      /\ Advances(p, n)
  BY <1>1, <1>2, <1>3, <1>6, <1>7, <1>8, Finished
<1>10. PICK t \in TailsOf(op) : Stepped(p, n, <<st>> \o t)
  BY <1>9
<1>11. SameFrame(m, n)
  BY <1>5, <1>6, <1>10 DEF Stepped, SameFrame, op
<1>12. Stepped(m, n, <<st>> \o t)
  BY <1>6, <1>10, <1>11 DEF Stepped
<1>13. Advances(m, n)
  BY <1>5, <1>6, <1>9 DEF Advances
<1>14. /\ n.cpu.inte = InteThen(op, FALSE) /\ n.cpu.halted = HaltedThen(op, FALSE)
       /\ n.cpu.int_delay = DelayThen(op, m.cpu.int_delay)
       /\ n.cpu.int_pending = FALSE
  BY <1>5, <1>6, <1>9 DEF Controls
<1> QED BY <1>12, <1>13, <1>14 DEF st, op

LEMMA HaltCycled ==
  ASSUME NEW m \in Machines, m.cpu.mc = << >>, NEW n, n = halt_cycle(m)
  PROVE  /\ Stepped(m, n, <<HALTA>>)
         /\ n.cpu.inte = m.cpu.inte /\ n.cpu.halted = m.cpu.halted
         /\ n.cpu.int_delay = m.cpu.int_delay /\ n.cpu.int_pending = m.cpu.int_pending
         /\ Advances(m, n)
<1> DEFINE x == mc_log(m, HALTA, m.cpu.pc, 0)
<1>1. m.cpu.pc \in Address /\ m.cpu.cycles \in Nat
  BY Fields, CpuFields
<1>2. HALTA \in Statuses /\ 0 \in Byte
  BY StatusTails, InByte
<1>3. Bus(m, x, <<HALTA>>)
  BY <1>1, <1>2, Logged
<1>4. n = Spend(x, 4)
  BY DEF halt_cycle
<1> HIDE DEF x
<1>5. /\ SameFrame(x, n) /\ n.ram = x.ram /\ n.trial = x.trial
      /\ n.integrated_to = x.integrated_to
      /\ n.cpu.cycles = x.cpu.cycles + 4 /\ n.cpu.mc = x.cpu.mc
      /\ n.cpu.inte = x.cpu.inte /\ n.cpu.halted = x.cpu.halted
      /\ n.cpu.int_pending = x.cpu.int_pending /\ n.cpu.int_delay = x.cpu.int_delay
  BY <1>3, <1>4, BusTypes, Spent
<1>6. SameFrame(m, n)
  BY <1>3, <1>5 DEF Bus, Runs, Keeps, SameFrame
<1>7. Len(n.cpu.mc) = Len(<<HALTA>>)
      /\ \A i \in 1 .. Len(<<HALTA>>) : n.cpu.mc[i].status = <<HALTA>>[i]
  <2>1. Traced(m.cpu.mc, n.cpu.mc, <<HALTA>>) /\ Len(m.cpu.mc) = 0
    BY <1>3, <1>5, EmptySeq DEF Bus, Runs
  <2>2. Len(<<HALTA>>) = 1
    OBVIOUS
  <2>3. \A i \in 1 .. Len(<<HALTA>>) : 0 + i = i
    OBVIOUS
  <2> QED BY <2>1, <2>2, <2>3 DEF Traced, TraceSize
<1>8. Stepped(m, n, <<HALTA>>)
  BY <1>3, <1>5, <1>6, <1>7 DEF Bus, Runs, Stepped
<1>9. Advances(m, n)
  <2>1. x.cpu.cycles = m.cpu.cycles /\ x.integrated_to = m.integrated_to
    BY <1>3 DEF Bus, Runs, Keeps
  <2>2. m.cpu.cycles + 4 <= n.cpu.cycles
    BY <1>1, <1>5, <2>1
  <2> QED BY <1>5, <2>1, <2>2 DEF Advances
<1> QED BY <1>3, <1>5, <1>8, <1>9 DEF Bus, Runs, Keeps, SameControl

(* The delay of an EI before the instruction op. *)
GraceThen(op, before) ==
  LET after == DelayThen(op, before)
  IN  IF before > 0 /\ after = before THEN after - 1 ELSE after

LEMMA Instructed ==
  ASSUME NEW m \in Machines, m.cpu.mc = << >>, NEW n, n = instruction(m),
         NEW op, op = umk_peek(m, m.cpu.pc)
  PROVE  /\ op \in Byte
         /\ \E t \in TailsOf(op) : Stepped(m, n, <<FETCH>> \o t)
         /\ n.cpu.inte = InteThen(op, m.cpu.inte)
         /\ n.cpu.halted = HaltedThen(op, m.cpu.halted)
         /\ n.cpu.int_delay = GraceThen(op, m.cpu.int_delay)
         /\ n.cpu.int_pending = m.cpu.int_pending
         /\ Advances(m, n)
<1> DEFINE x == fetch_opcode(m)
           f == Finish(x, op)
<1>1. m.cpu.pc \in Address /\ m.cpu.int_delay \in {0, 1}
  BY Fields, CpuFields
<1>2. op \in Byte /\ FETCH \in Statuses
  BY <1>1, PeekType, StatusTails
<1>3. Bus(m, x, <<FETCH>>)
  <2> DEFINE r == bus_rd(m, m.cpu.pc, FETCH)
  <2>1. x = [r EXCEPT !.cpu.pc = Word(r.cpu.pc + 1)]
    BY DEF fetch_opcode
  <2>2. Bus(m, r, <<FETCH>>)
    BY <1>1, <1>2, BusRead
  <2> HIDE DEF r
  <2>3. Word(r.cpu.pc + 1) \in Address
    <3>1. r.cpu.pc \in Address
      BY <2>2, BusTypes, Fields, CpuFields
    <3>2. r.cpu.pc + 1 \in Int
      BY <3>1, OfAddress
    <3> QED BY <3>2, WordType
  <2>4. <<FETCH>> \in StatusSeq
    BY <1>2, StatusTails
  <2> QED BY <2>1, <2>2, <2>3, <2>4, ThenRegister
<1>4. n = Graced(f, m.cpu.int_delay) /\ f = Finish(x, op)
  BY DEF instruction
<1> HIDE DEF x, f
<1>5. /\ \E t \in TailsOf(op) : Stepped(m, f, <<FETCH>> \o t)
      /\ Controls(m, f, op) /\ f.cpu.int_pending = m.cpu.int_pending
      /\ Advances(m, f)
  BY <1>2, <1>3, <1>4, Finished
<1>6. PICK t \in TailsOf(op) : Stepped(m, f, <<FETCH>> \o t)
  BY <1>5
<1>7. f \in Machines /\ f.cpu \in Cpus
  BY <1>6, Fields DEF Stepped, SameFrame
<1>8. /\ SameFrame(f, n) /\ n.ram = f.ram /\ n.trial = f.trial
      /\ n.integrated_to = f.integrated_to
      /\ n.cpu.cycles = f.cpu.cycles /\ n.cpu.mc = f.cpu.mc
      /\ n.cpu.inte = f.cpu.inte /\ n.cpu.halted = f.cpu.halted
      /\ n.cpu.int_pending = f.cpu.int_pending
      /\ n.cpu.int_delay = GraceThen(op, m.cpu.int_delay)
  <2>1. f.cpu.int_delay = DelayThen(op, m.cpu.int_delay)
    BY <1>5 DEF Controls
  <2>2. CASE m.cpu.int_delay > 0 /\ f.cpu.int_delay = m.cpu.int_delay
    <3> DEFINE d == [f.cpu EXCEPT !.int_delay = f.cpu.int_delay - 1]
    <3>1. n = [f EXCEPT !.cpu = d] /\ d = [f.cpu EXCEPT !.int_delay = f.cpu.int_delay - 1]
      BY <1>4, <2>2 DEF Graced
    <3>2. f.cpu.int_delay - 1 \in {0, 1}
      BY <1>1, <2>2
    <3> HIDE DEF d
    <3>3. /\ d \in Cpus /\ d.int_delay = f.cpu.int_delay - 1
          /\ d.inte = f.cpu.inte /\ d.halted = f.cpu.halted
          /\ d.int_pending = f.cpu.int_pending /\ d.int_vector = f.cpu.int_vector
          /\ d.cycles = f.cpu.cycles /\ d.mc = f.cpu.mc
      BY <1>7, <3>1, <3>2, WithDelay
    <3>4. /\ n \in Machines /\ n.cpu = d
          /\ n.rom = f.rom /\ n.ram = f.ram /\ n.ppi = f.ppi
          /\ n.integrated_to = f.integrated_to /\ n.panel = f.panel /\ n.step = f.step
          /\ n.kbd = f.kbd /\ n.step_start_cycles = f.step_start_cycles
          /\ n.unmapped_io_writes = f.unmapped_io_writes /\ n.trial = f.trial
      BY <1>7, <3>1, <3>3, WithCpu
    <3>5. GraceThen(op, m.cpu.int_delay) = f.cpu.int_delay - 1
      BY <2>1, <2>2 DEF GraceThen
    <3> QED BY <1>7, <3>3, <3>4, <3>5 DEF SameFrame
  <2>3. CASE ~(m.cpu.int_delay > 0 /\ f.cpu.int_delay = m.cpu.int_delay)
    <3>1. n = f
      BY <1>4, <2>3 DEF Graced
    <3>2. GraceThen(op, m.cpu.int_delay) = f.cpu.int_delay
      BY <2>1, <2>3 DEF GraceThen
    <3> QED BY <1>7, <3>1, <3>2 DEF SameFrame
  <2> QED BY <2>2, <2>3
<1>9. Stepped(m, n, <<FETCH>> \o t)
  BY <1>6, <1>8 DEF Stepped, SameFrame
<1>10. Advances(m, n)
  BY <1>5, <1>8 DEF Advances
<1> QED BY <1>2, <1>5, <1>8, <1>9, <1>10 DEF Controls

(* The status word of the first cycle of the next step. *)
Announced(c) ==
  IF CanAcknowledge(c) THEN IF c.halted THEN INTA_HALT ELSE INTA
  ELSE IF c.halted THEN HALTA ELSE FETCH

(* The request after the next step: acknowledged, or as it was. *)
PendingThen(c) == IF CanAcknowledge(c) THEN FALSE ELSE c.int_pending

LEMMA FirstOf ==
  ASSUME NEW st \in Statuses, NEW t \in StatusSeq, Len(t) <= 4
  PROVE  /\ <<st>> \o t \in StatusSeq /\ Len(<<st>> \o t) \in 1 .. 5
         /\ (<<st>> \o t)[1] = st
<1>1. <<st>> \in StatusSeq /\ Len(<<st>>) = 1 /\ <<st>>[1] = st
  BY StatusTails
<1>2. Len(t) \in Nat
  BY LenProperties DEF StatusSeq
<1>3. /\ <<st>> \o t \in StatusSeq /\ Len(<<st>> \o t) = 1 + Len(t)
      /\ \A i \in 1 .. 1 + Len(t) : (<<st>> \o t)[i] = IF i <= 1 THEN <<st>>[i] ELSE t[i - 1]
  BY <1>1, ConcatProperties DEF StatusSeq
<1>4. 1 \in 1 .. 1 + Len(t)
  BY <1>2
<1>5. (<<st>> \o t)[1] = st
  BY <1>1, <1>3, <1>4
<1> DEFINE u == <<st>> \o t
<1>6. u \in StatusSeq /\ Len(u) = 1 + Len(t) /\ u[1] = st
  BY <1>3, <1>5
<1> HIDE DEF u
<1>7. Len(u) \in 1 .. 5
  BY <1>2, <1>6
<1> QED BY <1>6, <1>7 DEF u

LEMMA CpuStepped ==
  ASSUME NEW m \in Machines, m.cpu.mc = << >>, NEW n, n = CpuStep(m)
  PROVE  /\ \E u \in StatusSeq : /\ Stepped(m, n, u) /\ Len(u) \in 1 .. 5
                                 /\ u[1] = Announced(m.cpu)
                                 /\ Announced(m.cpu) = HALTA => Len(u) = 1
         /\ n.cpu.int_pending = PendingThen(m.cpu)
         /\ Advances(m, n)
<1>1. CASE CanAcknowledge(m.cpu)
  <2> DEFINE st == IF m.cpu.halted THEN INTA_HALT ELSE INTA
  <2>1. n = acknowledge(m) /\ Announced(m.cpu) = st
    BY <1>1 DEF CpuStep, Announced
  <2>2. st \in Statuses /\ st # HALTA
    BY StatusTails DEF INTA_HALT, INTA, HALTA
  <2> HIDE DEF st
  <2>3. PICK t \in TailsOf(m.cpu.int_vector) : Stepped(m, n, <<st>> \o t)
    BY <2>1, Acknowledged DEF st
  <2>4. t \in StatusSeq /\ Len(t) <= 4
    BY TailsOfType DEF Short
  <2>5. Advances(m, n) /\ n.cpu.int_pending = PendingThen(m.cpu)
    BY <1>1, <2>1, Acknowledged DEF PendingThen
  <2> QED BY <2>1, <2>2, <2>3, <2>4, <2>5, FirstOf
<1>2. CASE ~CanAcknowledge(m.cpu) /\ m.cpu.halted
  <2>1. n = halt_cycle(m) /\ Announced(m.cpu) = HALTA
    BY <1>2 DEF CpuStep, Announced
  <2>2. Stepped(m, n, <<HALTA>>) /\ Advances(m, n) /\ n.cpu.int_pending = PendingThen(m.cpu)
    BY <1>2, <2>1, HaltCycled DEF PendingThen
  <2>3. <<HALTA>> \in StatusSeq /\ Len(<<HALTA>>) = 1 /\ <<HALTA>>[1] = HALTA
    BY StatusTails
  <2> QED BY <2>1, <2>2, <2>3
<1>3. CASE ~CanAcknowledge(m.cpu) /\ ~m.cpu.halted
  <2> DEFINE op == umk_peek(m, m.cpu.pc)
  <2>1. n = instruction(m) /\ Announced(m.cpu) = FETCH
    BY <1>3 DEF CpuStep, Announced
  <2>2. FETCH \in Statuses /\ FETCH # HALTA
    BY StatusTails DEF FETCH, HALTA
  <2>3. PICK t \in TailsOf(op) : Stepped(m, n, <<FETCH>> \o t)
    BY <2>1, Instructed
  <2>4. t \in StatusSeq /\ Len(t) <= 4
    BY TailsOfType DEF Short
  <2>5. Advances(m, n) /\ n.cpu.int_pending = PendingThen(m.cpu)
    BY <1>3, <2>1, Instructed DEF PendingThen
  <2> QED BY <2>1, <2>2, <2>3, <2>4, <2>5, FirstOf
<1> QED BY <1>1, <1>2, <1>3

(* exec_one: the display is brought to the end of the instruction.           *)
Executes(m, n) ==
  /\ n \in Machines
  /\ n.rom = m.rom /\ n.panel = m.panel /\ n.kbd = m.kbd
  /\ n.step.latch_step = m.step.latch_step /\ n.step.latch_cycle = m.step.latch_cycle
  /\ n.step.waiting = m.step.waiting /\ n.step.mc_index = m.step.mc_index
  /\ n.step.mc = m.step.mc
  /\ n.cpu.int_pending = PendingThen(m.cpu) /\ n.cpu.int_vector = m.cpu.int_vector
  /\ n.trial.on = m.trial.on
  /\ n.integrated_to = n.cpu.cycles
  /\ m.cpu.cycles + 4 <= n.cpu.cycles
  /\ Len(n.cpu.mc) \in 1 .. 5
  /\ n.cpu.mc[1].status = Announced(m.cpu)
  /\ Announced(m.cpu) = HALTA => Len(n.cpu.mc) = 1
  /\ Journaled(m.trial.on, m.ram, m.trial.log, n.ram, n.trial.log, Len(n.cpu.mc))

(* The machine that CpuStep works on. *)
Started(m) ==
  LET p == [m EXCEPT !.step_start_cycles = m.cpu.cycles] IN [p EXCEPT !.cpu.mc = << >>]

LEMMA ClockStarted ==
  ASSUME NEW m \in Machines, NEW q, q = Started(m)
  PROVE  /\ q \in Machines /\ q.cpu.mc = << >>
         /\ q.cpu = [m.cpu EXCEPT !.mc = << >>]
         /\ q.step_start_cycles = m.cpu.cycles
         /\ q.rom = m.rom /\ q.ram = m.ram /\ q.ppi = m.ppi
         /\ q.integrated_to = m.integrated_to /\ q.panel = m.panel /\ q.step = m.step
         /\ q.kbd = m.kbd /\ q.trial = m.trial
         /\ q.cpu.inte = m.cpu.inte /\ q.cpu.halted = m.cpu.halted
         /\ q.cpu.int_pending = m.cpu.int_pending /\ q.cpu.int_vector = m.cpu.int_vector
         /\ q.cpu.int_delay = m.cpu.int_delay /\ q.cpu.cycles = m.cpu.cycles
<1> DEFINE p == [m EXCEPT !.step_start_cycles = m.cpu.cycles]
           d == [m.cpu EXCEPT !.mc = << >>]
           e == << >>
<1>1. m.cpu \in Cpus /\ m.cpu.cycles \in Nat
  BY Fields, CpuFields
<1>2. /\ p \in Machines /\ p.cpu = m.cpu /\ p.step_start_cycles = m.cpu.cycles
      /\ p.rom = m.rom /\ p.ram = m.ram /\ p.ppi = m.ppi
      /\ p.integrated_to = m.integrated_to /\ p.panel = m.panel /\ p.step = m.step
      /\ p.kbd = m.kbd /\ p.trial = m.trial
  BY <1>1 DEF Machines
<1>3. q = [p EXCEPT !.cpu = d]
  BY <1>2 DEF Started
<1>4. e \in Seq(Cycle) /\ d = [m.cpu EXCEPT !.mc = e]
  BY EmptySeq
<1> HIDE DEF d, p, e
<1>5. /\ d \in Cpus /\ d.mc = e
      /\ d.inte = m.cpu.inte /\ d.halted = m.cpu.halted
      /\ d.int_pending = m.cpu.int_pending /\ d.int_vector = m.cpu.int_vector
      /\ d.int_delay = m.cpu.int_delay /\ d.cycles = m.cpu.cycles
  BY <1>1, <1>4, WithTrace
<1>6. /\ q \in Machines /\ q.cpu = d
      /\ q.rom = p.rom /\ q.ram = p.ram /\ q.ppi = p.ppi
      /\ q.integrated_to = p.integrated_to /\ q.panel = p.panel /\ q.step = p.step
      /\ q.kbd = p.kbd /\ q.step_start_cycles = p.step_start_cycles
      /\ q.unmapped_io_writes = p.unmapped_io_writes /\ q.trial = p.trial
  BY <1>2, <1>3, <1>5, WithCpu
<1>7. q.cpu.mc = e /\ q.cpu.inte = m.cpu.inte /\ q.cpu.halted = m.cpu.halted
      /\ q.cpu.int_pending = m.cpu.int_pending /\ q.cpu.int_vector = m.cpu.int_vector
      /\ q.cpu.int_delay = m.cpu.int_delay /\ q.cpu.cycles = m.cpu.cycles
  BY <1>5, <1>6
<1> QED BY <1>2, <1>4, <1>6, <1>7 DEF e

LEMMA ExecSteps ==
  ASSUME NEW m
  PROVE  exec_one(m) = Integrated(CpuStep(Started(m)))
BY DEF exec_one, i8080_step, Started

LEMMA ExecOne ==
  ASSUME NEW m \in Machines, m.integrated_to <= m.cpu.cycles, NEW n, n = exec_one(m)
  PROVE  Executes(m, n)
<1> DEFINE q == Started(m)
           r == CpuStep(q)
<1>1. n = Integrated(r) /\ q = Started(m)
  BY ExecSteps
<1> HIDE DEF q
<1>2. /\ q \in Machines /\ q.cpu.mc = << >>
      /\ q.step_start_cycles = m.cpu.cycles
      /\ q.rom = m.rom /\ q.ram = m.ram /\ q.ppi = m.ppi
      /\ q.integrated_to = m.integrated_to /\ q.panel = m.panel /\ q.step = m.step
      /\ q.kbd = m.kbd /\ q.trial = m.trial
      /\ q.cpu.inte = m.cpu.inte /\ q.cpu.halted = m.cpu.halted
      /\ q.cpu.int_pending = m.cpu.int_pending /\ q.cpu.int_vector = m.cpu.int_vector
      /\ q.cpu.int_delay = m.cpu.int_delay /\ q.cpu.cycles = m.cpu.cycles
  BY <1>1, ClockStarted
<1>3. Announced(q.cpu) = Announced(m.cpu) /\ PendingThen(q.cpu) = PendingThen(m.cpu)
  BY <1>2 DEF Announced, PendingThen, CanAcknowledge
<1> HIDE DEF r
<1>4. PICK u \in StatusSeq : /\ Stepped(q, r, u) /\ Len(u) \in 1 .. 5
                             /\ u[1] = Announced(q.cpu)
                             /\ Announced(q.cpu) = HALTA => Len(u) = 1
  BY <1>2, CpuStepped DEF r
<1>5. Advances(q, r) /\ r.cpu.int_pending = PendingThen(q.cpu)
  BY <1>2, CpuStepped DEF r
<1>6. r \in Machines /\ r.integrated_to \in Nat /\ r.cpu.cycles \in Nat /\ m.cpu.cycles \in Nat
  BY <1>4, Fields, CpuFields DEF Stepped, SameFrame
<1>7. r.integrated_to <= r.cpu.cycles /\ m.cpu.cycles + 4 <= r.cpu.cycles
  <2>1. q.integrated_to = m.integrated_to /\ q.integrated_to \in Nat
    BY <1>2, Fields
  <2> QED BY <1>2, <1>5, <1>6, <2>1 DEF Advances, OUT_WRITE_OFFSET
<1>8. /\ n \in Machines /\ n.integrated_to = r.cpu.cycles
      /\ n.rom = r.rom /\ n.ram = r.ram /\ n.cpu = r.cpu /\ n.panel = r.panel
      /\ n.step = r.step /\ n.kbd = r.kbd /\ n.trial = r.trial
  <2>1. CASE r.cpu.cycles <= r.integrated_to
    BY <1>1, <1>6, <1>7, <2>1 DEF Integrated, display_advance
  <2>2. CASE ~(r.cpu.cycles <= r.integrated_to)
    <3>1. n = [r EXCEPT !.integrated_to = r.cpu.cycles]
      BY <1>1, <2>2 DEF Integrated, display_advance
    <3> QED BY <1>6, <3>1 DEF Machines
  <2> QED BY <2>1, <2>2
<1>9. /\ Len(n.cpu.mc) \in 1 .. 5
      /\ n.cpu.mc[1].status = Announced(m.cpu)
      /\ Announced(m.cpu) = HALTA => Len(n.cpu.mc) = 1
  <2>1. Len(r.cpu.mc) = Len(u) /\ \A i \in 1 .. Len(u) : r.cpu.mc[i].status = u[i]
    BY <1>4 DEF Stepped
  <2>2. 1 \in 1 .. Len(u)
    BY <1>4
  <2> QED BY <1>3, <1>4, <1>8, <2>1, <2>2
<1>10. Journaled(m.trial.on, m.ram, m.trial.log, n.ram, n.trial.log, Len(n.cpu.mc))
  BY <1>2, <1>4, <1>8 DEF Stepped
<1>11. SameFrame(q, r)
  BY <1>4 DEF Stepped
<1> QED BY <1>2, <1>3, <1>5, <1>7, <1>8, <1>9, <1>10, <1>11 DEF Executes, SameFrame

-----------------------------------------------------------------------------
(* The calls on the machine.  Everything but the panel is as before. *)
OnlyPanel(m, n) ==
  /\ m \in Machines /\ n \in Machines
  /\ n.rom = m.rom /\ n.ram = m.ram /\ n.cpu = m.cpu /\ n.ppi = m.ppi
  /\ n.integrated_to = m.integrated_to /\ n.step = m.step /\ n.kbd = m.kbd
  /\ n.step_start_cycles = m.step_start_cycles
  /\ n.unmapped_io_writes = m.unmapped_io_writes /\ n.trial = m.trial

LEMMA StatusBytes == Statuses \subseteq Byte
<1>1. ASSUME NEW x \in Statuses PROVE x \in Int /\ 0 <= x /\ x <= 255
  BY DEF Statuses, FETCH, MEMR, MEMW, STACKR, STACKW, INPR, OUTW, INTA, HALTA, INTA_HALT
<1> QED BY <1>1, InByte

LEMMA Shown ==
  ASSUME NEW m \in Machines, NEW c \in Cycle, NEW n, n = Show(m, c)
  PROVE  OnlyPanel(m, n)
<1> DEFINE p == [address |-> c.addr, data |-> c.data, status |-> c.status]
<1>1. c.addr \in Address /\ c.data \in Byte /\ c.status \in Statuses
  BY DEF Cycle, Statuses
<1>2. p \in Panels
  BY <1>1, StatusBytes DEF Panels
<1>3. n = [m EXCEPT !.panel = p]
  BY DEF Show
<1> HIDE DEF p
<1> QED BY <1>2, <1>3 DEF OnlyPanel, Machines

LEMMA PanelUpdated ==
  ASSUME NEW m \in Machines, NEW n, n = panel_update(m)
  PROVE  OnlyPanel(m, n)
<1>1. CASE m.cpu.mc = << >>
  BY <1>1 DEF panel_update, OnlyPanel
<1>2. CASE m.cpu.mc # << >>
  <2>1. m.cpu.mc \in Seq(Cycle)
    BY Fields, CpuFields
  <2>2. Len(m.cpu.mc) \in 1 .. Len(m.cpu.mc)
    BY <1>2, <2>1, LenProperties, EmptySeq
  <2>3. Last(m.cpu.mc) \in Cycle
    BY <2>1, <2>2, ElementOfSeq DEF Last
  <2> QED BY <1>2, <2>3, Shown DEF panel_update
<1> QED BY <1>1, <1>2

(* A dry run fits its journal and its trace, and can be undone. *)
LEMMA NothingToRestore ==
  ASSUME NEW r, NEW D, NEW S, r \in [D -> S]
  PROVE  Restored(r, << >>) = r
<1>1. \A i : Entries(<< >>, i) = {}
  BY EmptySeq DEF Entries
<1> QED BY <1>1 DEF Restored

(* The machine with its journal on. *)
Journaling(m) == [m EXCEPT !.trial = [on |-> TRUE, log |-> << >>]]

LEMMA DryRun ==
  ASSUME NEW m \in Machines, m.integrated_to <= m.cpu.cycles, NEW n, n = dry_run(m),
         NEW p, p = Journaling(m)
  PROVE  /\ p \in Machines /\ n = exec_one(p) /\ Executes(p, n)
         /\ p.rom = m.rom /\ p.ram = m.ram /\ p.cpu = m.cpu /\ p.ppi = m.ppi
         /\ p.integrated_to = m.integrated_to /\ p.panel = m.panel /\ p.step = m.step
         /\ p.kbd = m.kbd
         /\ Restored(n.ram, n.trial.log) = m.ram
         /\ FitsTrace(n)
<1> DEFINE t == [on |-> TRUE, log |-> << >>]
<1>1. t \in Trials /\ t.on = TRUE /\ Len(t.log) = 0
  BY EmptySeq DEF Trials
<1>2. n = exec_one(p)
  BY DEF dry_run, Journaling
<1>3. t.log = << >>
  OBVIOUS
<1> HIDE DEF t
<1>4. p = [m EXCEPT !.trial = t]
  BY DEF t, Journaling
<1>5. /\ p \in Machines /\ p.trial = t
      /\ p.rom = m.rom /\ p.ram = m.ram /\ p.cpu = m.cpu /\ p.ppi = m.ppi
      /\ p.integrated_to = m.integrated_to /\ p.panel = m.panel /\ p.step = m.step
      /\ p.kbd = m.kbd
  BY <1>1, <1>4, WithTrial
<1>6. Executes(p, n)
  <2>1. p.integrated_to <= p.cpu.cycles
    BY <1>5
  <2> QED BY <1>2, <1>5, <2>1, ExecOne
<1>7. Len(n.cpu.mc) \in 1 .. 5
  BY <1>6 DEF Executes
<1>8. Journaled(t.on, m.ram, t.log, n.ram, n.trial.log, Len(n.cpu.mc))
  BY <1>1, <1>5, <1>6 DEF Executes
<1>9. Restored(n.ram, n.trial.log) = Restored(m.ram, << >>)
  <2>1. Len(t.log) + Len(n.cpu.mc) <= JournalSize
    <3>1. \A b \in 1 .. 5 : 0 + b <= JournalSize
      BY DEF JournalSize
    <3>2. Len(t.log) = 0
      BY <1>1
    <3>3. 0 + Len(n.cpu.mc) <= JournalSize
      BY <1>7, <3>1
    <3> QED BY <3>2, <3>3, Zenon
  <2>2. t.on = TRUE
    BY <1>1
  <2>3. Restored(n.ram, n.trial.log) = Restored(m.ram, t.log)
    BY <1>8, <2>1, <2>2, Zenon DEF Journaled
  <2> QED BY <1>3, <2>3, Zenon
<1>10. Restored(m.ram, << >>) = m.ram
  <2>1. PICK size \in RamSizes : m.ram \in [0 .. size - 1 -> Byte]
    BY RamCells
  <2> QED BY <2>1, NothingToRestore
<1>11. FitsTrace(n)
  BY <1>1, <1>7, <1>8 DEF Journaled, FitsTrace
<1> QED BY <1>2, <1>5, <1>6, <1>9, <1>10, <1>11

(* step_probe only fills in the trace. *)
LEMMA Probed ==
  ASSUME NEW m \in Machines, m.integrated_to <= m.cpu.cycles, m.trial = NoTrial,
         NEW n, n = step_probe(m)
  PROVE  /\ n \in Machines
         /\ n.rom = m.rom /\ n.ram = m.ram /\ n.cpu = m.cpu /\ n.ppi = m.ppi
         /\ n.integrated_to = m.integrated_to /\ n.panel = m.panel /\ n.kbd = m.kbd
         /\ n.step_start_cycles = m.step_start_cycles
         /\ n.unmapped_io_writes = m.unmapped_io_writes /\ n.trial = m.trial
         /\ n.step.latch_step = m.step.latch_step /\ n.step.latch_cycle = m.step.latch_cycle
         /\ n.step.waiting = m.step.waiting /\ n.step.mc_index = m.step.mc_index
         /\ n.step.dbg_port = m.step.dbg_port
         /\ n.step.mc = dry_run(m).cpu.mc /\ Len(n.step.mc) \in 1 .. 5
<1> DEFINE ran == dry_run(m)
           p   == Journaling(m)
           s   == [ran.step EXCEPT !.mc = ran.cpu.mc, !.dbg_port = m.step.dbg_port]
           r   == Restored(ran.ram, ran.trial.log)
<1>1. p = Journaling(m) /\ ran = dry_run(m)
  OBVIOUS
<1>2. n = [ran EXCEPT !.step = s, !.ram = r, !.trial = NoTrial, !.cpu = m.cpu,
              !.ppi = m.ppi, !.integrated_to = m.integrated_to, !.panel = m.panel,
              !.step_start_cycles = m.step_start_cycles,
              !.unmapped_io_writes = m.unmapped_io_writes]
  BY DEF step_probe, Undone
<1>3. s = [ran.step EXCEPT !.mc = ran.cpu.mc, !.dbg_port = m.step.dbg_port]
  OBVIOUS
<1>4. r = Restored(ran.ram, ran.trial.log)
  OBVIOUS
<1> HIDE DEF ran, p, s, r
<1>5. /\ p \in Machines /\ Executes(p, ran)
      /\ p.rom = m.rom /\ p.step = m.step /\ p.kbd = m.kbd
      /\ r = m.ram
  BY <1>1, <1>4, DryRun
<1>6. ran \in Machines /\ ran.step \in Steps /\ ran.cpu.mc \in Seq(Cycle)
  BY <1>5, Fields, CpuFields DEF Executes
<1>7. m.step.dbg_port \in Byte
  BY Fields DEF Steps
<1>8. /\ s \in Steps /\ s.mc = ran.cpu.mc /\ s.dbg_port = m.step.dbg_port
      /\ s.latch_step = ran.step.latch_step /\ s.latch_cycle = ran.step.latch_cycle
      /\ s.waiting = ran.step.waiting /\ s.mc_index = ran.step.mc_index
  BY <1>3, <1>6, <1>7 DEF Steps
<1>9. NoTrial \in Trials
  BY EmptySeq DEF NoTrial, Trials
<1>10. /\ m.ram \in Rams /\ m.cpu \in Cpus /\ m.ppi \in Ppis /\ m.integrated_to \in Nat
       /\ m.panel \in Panels /\ m.step_start_cycles \in Nat /\ m.unmapped_io_writes \in Nat
  BY Fields
<1>11. /\ n \in Machines /\ n.step = s /\ n.ram = r /\ n.trial = NoTrial /\ n.cpu = m.cpu
       /\ n.ppi = m.ppi /\ n.integrated_to = m.integrated_to /\ n.panel = m.panel
       /\ n.step_start_cycles = m.step_start_cycles
       /\ n.unmapped_io_writes = m.unmapped_io_writes
       /\ n.rom = ran.rom /\ n.kbd = ran.kbd
  BY <1>2, <1>5, <1>6, <1>8, <1>9, <1>10 DEF Machines
<1>12. /\ ran.rom = p.rom /\ ran.kbd = p.kbd /\ Len(ran.cpu.mc) \in 1 .. 5
       /\ ran.step.latch_step = p.step.latch_step /\ ran.step.latch_cycle = p.step.latch_cycle
       /\ ran.step.waiting = p.step.waiting /\ ran.step.mc_index = p.step.mc_index
  BY <1>5 DEF Executes
<1> QED BY <1>5, <1>8, <1>11, <1>12 DEF ran

(* Between two calls, whoever makes them; and if they all come from the panel, *)
(* a sequence is in progress only with both switches latched.                *)
Sound(m) ==
  /\ m \in Machines /\ m.trial = NoTrial
  /\ m.integrated_to = m.cpu.cycles
  /\ Len(m.step.mc) <= 5
  /\ m.step.mc_index > 0 => m.step.mc_index < Len(m.step.mc)

Latched(m) ==
  /\ m.step.waiting = m.step.latch_step
  /\ m.step.mc_index > 0 => m.step.latch_step /\ m.step.latch_cycle

LEMMA StepFields ==
  ASSUME NEW m \in Machines
  PROVE  /\ m.step \in Steps /\ m.step.latch_step \in BOOLEAN
         /\ m.step.latch_cycle \in BOOLEAN /\ m.step.waiting \in BOOLEAN
         /\ m.step.dbg_port \in Byte
         /\ m.step.mc_index \in Nat /\ m.step.mc_index <= TraceSize
         /\ m.step.mc \in Seq(Cycle) /\ Len(m.step.mc) \in Nat
<1>1. m.step \in Steps
  BY Fields
<1>2. m.step.mc \in Seq(Cycle) /\ m.step.mc_index \in 0 .. TraceSize
  BY <1>1 DEF Steps
<1>3. Len(m.step.mc) \in Nat
  BY <1>2, LenProperties
<1>4. m.step.mc_index \in Nat /\ m.step.mc_index <= TraceSize
  BY <1>2 DEF TraceSize
<1> QED BY <1>1, <1>2, <1>3, <1>4 DEF Steps

LEMMA WithStep ==
  ASSUME NEW m \in Machines, NEW s \in Steps, NEW n, n = [m EXCEPT !.step = s]
  PROVE  /\ n \in Machines /\ n.step = s
         /\ n.rom = m.rom /\ n.ram = m.ram /\ n.cpu = m.cpu /\ n.ppi = m.ppi
         /\ n.integrated_to = m.integrated_to /\ n.panel = m.panel
         /\ n.kbd = m.kbd /\ n.step_start_cycles = m.step_start_cycles
         /\ n.unmapped_io_writes = m.unmapped_io_writes /\ n.trial = m.trial
BY DEF Machines

IndexTo(m, i) == [m EXCEPT !.step.mc_index = i]

LEMMA IndexSet ==
  ASSUME NEW m \in Machines, NEW i \in 0 .. TraceSize,
         NEW n, n = IndexTo(m, i)
  PROVE  /\ n \in Machines
         /\ n.rom = m.rom /\ n.ram = m.ram /\ n.cpu = m.cpu /\ n.ppi = m.ppi
         /\ n.integrated_to = m.integrated_to /\ n.panel = m.panel
         /\ n.kbd = m.kbd /\ n.step_start_cycles = m.step_start_cycles
         /\ n.unmapped_io_writes = m.unmapped_io_writes /\ n.trial = m.trial
         /\ n.step.latch_step = m.step.latch_step
         /\ n.step.latch_cycle = m.step.latch_cycle
         /\ n.step.waiting = m.step.waiting /\ n.step.dbg_port = m.step.dbg_port
         /\ n.step.mc = m.step.mc /\ n.step.mc_index = i
<1> DEFINE s == [m.step EXCEPT !.mc_index = i]
<1>1. /\ s \in Steps /\ s.latch_step = m.step.latch_step
      /\ s.latch_cycle = m.step.latch_cycle /\ s.waiting = m.step.waiting
      /\ s.dbg_port = m.step.dbg_port /\ s.mc = m.step.mc /\ s.mc_index = i
  BY Fields DEF Steps
<1>2. n = [m EXCEPT !.step = s]
  BY DEF IndexTo
<1> HIDE DEF s
<1> QED BY <1>1, <1>2, WithStep

LEMMA TrialOff ==
  ASSUME NEW t \in Trials, t.on = FALSE, t.log = << >>
  PROVE  t = NoTrial
BY DEF Trials, NoTrial

LEMMA ExecSound ==
  ASSUME NEW m, Sound(m), NEW n, n = exec_one(m)
  PROVE  /\ Executes(m, n) /\ Sound(n) /\ (Latched(m) => Latched(n))
         /\ m.step.latch_step = n.step.latch_step /\ m.step.mc_index = n.step.mc_index
<1>1. /\ m \in Machines /\ m.integrated_to \in Nat
      /\ m.trial.on = FALSE /\ m.trial.log = << >>
  BY Fields DEF Sound, NoTrial
<1>2. m.integrated_to <= m.cpu.cycles
  BY <1>1 DEF Sound
<1>3. Executes(m, n)
  BY <1>1, <1>2, ExecOne
<1>4. n.trial.on = FALSE /\ n.trial.log = << >>
  BY <1>1, <1>3 DEF Executes, Journaled
<1>5. n.trial = NoTrial
  BY <1>3, <1>4, TrialOff, Fields DEF Executes
<1> QED BY <1>3, <1>5 DEF Executes, Sound, Latched

LEMMA PanelSound ==
  ASSUME NEW m, Sound(m), NEW n, OnlyPanel(m, n)
  PROVE  Sound(n) /\ (Latched(m) => Latched(n))
BY DEF Sound, OnlyPanel, Latched

LEMMA IndexSound ==
  ASSUME NEW m, Sound(m), NEW n, n = IndexTo(m, 0)
  PROVE  Sound(n) /\ (Latched(m) => Latched(n))
<1>1. m \in Machines /\ 0 \in 0 .. TraceSize
  BY DEF Sound, TraceSize
<1>2. /\ n \in Machines /\ n.trial = m.trial
      /\ n.integrated_to = m.integrated_to /\ n.cpu = m.cpu
      /\ n.step.latch_step = m.step.latch_step
      /\ n.step.waiting = m.step.waiting
      /\ n.step.mc = m.step.mc /\ n.step.mc_index = 0
  BY <1>1, IndexSet
<1>3. ~(0 > 0)
  OBVIOUS
<1> QED BY <1>2, <1>3 DEF Sound, Latched

LEMMA ProbeSound ==
  ASSUME NEW m, Sound(m), m.step.mc_index = 0, NEW n, n = step_probe(m)
  PROVE  /\ Sound(n) /\ n.step.mc_index = 0 /\ (Latched(m) => Latched(n))
         /\ n.step.latch_step = m.step.latch_step /\ n.step.latch_cycle = m.step.latch_cycle
<1>1. m \in Machines /\ m.integrated_to \in Nat
  BY Fields DEF Sound
<1>2. m.integrated_to <= m.cpu.cycles /\ m.trial = NoTrial
  BY <1>1 DEF Sound
<1>3. /\ n \in Machines /\ n.trial = m.trial
      /\ n.integrated_to = m.integrated_to /\ n.cpu = m.cpu
      /\ n.step.latch_step = m.step.latch_step /\ n.step.latch_cycle = m.step.latch_cycle
      /\ n.step.waiting = m.step.waiting /\ n.step.mc_index = m.step.mc_index
      /\ Len(n.step.mc) \in 1 .. 5
  BY <1>1, <1>2, Probed
<1>4. \A k \in 1 .. 5 : k <= 5
  OBVIOUS
<1>5. Len(n.step.mc) <= 5
  BY <1>3, <1>4
<1>6. ~(0 > 0)
  OBVIOUS
<1> QED BY <1>3, <1>5, <1>6 DEF Sound, Latched

LEMMA NextCycleSound ==
  ASSUME NEW m, Sound(m), NEW n, n = NextCycle(m)
  PROVE  Sound(n) /\ (Latched(m) /\ m.step.latch_step /\ m.step.latch_cycle => Latched(n))
<1>0. m \in Machines
  BY DEF Sound
<1>1. CASE m.step.mc_index + 1 >= Len(m.step.mc)
  <2> DEFINE p == exec_one(m)
             q == panel_update(p)
  <2>1. n = IndexTo(q, 0)
    BY <1>1 DEF NextCycle, IndexTo
  <2>2. Sound(p) /\ (Latched(m) => Latched(p))
    BY ExecSound
  <2> HIDE DEF p
  <2>3. Sound(q) /\ (Latched(p) => Latched(q))
    BY <2>2, PanelUpdated, PanelSound DEF Sound
  <2> HIDE DEF q
  <2> QED BY <2>1, <2>2, <2>3, IndexSound
<1>2. CASE ~(m.step.mc_index + 1 >= Len(m.step.mc))
  <2> DEFINE i == m.step.mc_index + 1
             q == Show(m, m.step.mc[i])
  <2>1. m.step.mc_index \in Nat /\ m.step.mc \in Seq(Cycle) /\ Len(m.step.mc) \in Nat
    BY <1>0, StepFields
  <2>2. i \in Nat /\ i > 0 /\ i < Len(m.step.mc) /\ Len(m.step.mc) <= 5
    BY <1>2, <2>1 DEF Sound
  <2>3. i \in 1 .. Len(m.step.mc) /\ i \in 0 .. TraceSize
    BY <2>1, <2>2 DEF TraceSize
  <2>4. m.step.mc[i] \in Cycle
    BY <2>1, <2>3, ElementOfSeq
  <2>5. OnlyPanel(m, q)
    BY <1>0, <2>4, Shown
  <2>6. n = IndexTo(q, i)
    <3>1. n = IndexTo(q, q.step.mc_index + 1)
      BY <1>2 DEF NextCycle, IndexTo
    <3>2. q.step = m.step
      BY <2>5 DEF OnlyPanel
    <3> QED BY <3>1, <3>2
  <2> HIDE DEF q, i
  <2>7. /\ n \in Machines /\ n.trial = q.trial
        /\ n.integrated_to = q.integrated_to /\ n.cpu = q.cpu
        /\ n.step.latch_step = q.step.latch_step /\ n.step.latch_cycle = q.step.latch_cycle
        /\ n.step.waiting = q.step.waiting /\ n.step.mc_index = i
        /\ n.step.mc = q.step.mc
    BY <2>3, <2>5, <2>6, IndexSet DEF OnlyPanel
  <2>8. q.step = m.step /\ q.trial = m.trial /\ q.integrated_to = m.integrated_to /\ q.cpu = m.cpu
    BY <2>5 DEF OnlyPanel
  <2> QED BY <2>2, <2>7, <2>8 DEF Sound, Latched
<1> QED BY <1>1, <1>2

LEMMA CycleSound ==
  ASSUME NEW m, Sound(m), NEW n, n = umk_step_machine_cycle(m)
  PROVE  Sound(n) /\ (Latched(m) /\ m.step.latch_step /\ m.step.latch_cycle => Latched(n))
<1>1. n = NextCycle(IF m.step.mc_index = 0 THEN step_probe(m) ELSE m)
  BY DEF umk_step_machine_cycle
<1>2. CASE m.step.mc_index = 0
  <2> DEFINE p == step_probe(m)
  <2>1. n = NextCycle(p)
    BY <1>1, <1>2
  <2>2. /\ Sound(p) /\ (Latched(m) => Latched(p))
        /\ p.step.latch_step = m.step.latch_step /\ p.step.latch_cycle = m.step.latch_cycle
    BY <1>2, ProbeSound
  <2> HIDE DEF p
  <2> QED BY <2>1, <2>2, NextCycleSound
<1>3. CASE m.step.mc_index # 0
  BY <1>1, <1>3, NextCycleSound
<1> QED BY <1>2, <1>3

LEMMA InstructionSound ==
  ASSUME NEW m, Sound(m), NEW n, n = umk_step_instruction(m)
  PROVE  Sound(n) /\ (Latched(m) => Latched(n))
<1> DEFINE p == exec_one(m)
           q == IndexTo(p, 0)
<1>1. n = panel_update(q)
  BY DEF umk_step_instruction, IndexTo
<1>2. Sound(p) /\ (Latched(m) => Latched(p))
  BY ExecSound
<1> HIDE DEF p
<1>3. Sound(q) /\ (Latched(p) => Latched(q))
  BY <1>2, IndexSound
<1> HIDE DEF q
<1>4. OnlyPanel(q, n)
  BY <1>1, <1>3, PanelUpdated DEF Sound
<1> QED BY <1>2, <1>3, <1>4, PanelSound

LEMMA PressSound ==
  ASSUME NEW m, Sound(m), NEW n, n = umk_press_step(m)
  PROVE  Sound(n) /\ (Latched(m) => Latched(n))
<1>1. CASE ~m.step.latch_step
  BY <1>1 DEF umk_press_step
<1>2. CASE m.step.latch_step /\ m.step.latch_cycle
  <2>1. n = umk_step_machine_cycle(m)
    BY <1>2 DEF umk_press_step
  <2> QED BY <1>2, <2>1, CycleSound
<1>3. CASE m.step.latch_step /\ ~m.step.latch_cycle
  <2>1. n = umk_step_instruction(m)
    BY <1>3 DEF umk_press_step
  <2> QED BY <2>1, InstructionSound
<1> QED BY <1>1, <1>2, <1>3

(* The loop of umk_run_cycles: what every turn keeps, the loop keeps. *)
LEMMA TurnsIn ==
  ASSUME NEW m, NEW c \in Nat, NEW S, m \in S, \A p \in S : Turn(m, c, p) \in S
  PROVE  /\ Turns(m, c)[c] \in S
         /\ \A n \in 0 .. c : Turns(m, c)[n] \in S
         /\ Turns(m, c)[0] = m
         /\ \A n \in 1 .. c : Turns(m, c)[n] = Turn(m, c, Turns(m, c)[n - 1])
<1> DEFINE G == [n \in 1 .. c |-> [p \in S |-> Turn(m, c, p)]]
           IsRun(f) == f = [n \in 0 .. c |-> IF n = 0 THEN m ELSE Turn(m, c, f[n - 1])]
           t == Turns(m, c)
<1>1. \E f : IsRun(f)
  <2>1. G \in [1 .. c -> [S -> S]]
    OBVIOUS
  <2>2. \A n \in 1 .. c, p \in S : G[n][p] = Turn(m, c, p)
    OBVIOUS
  <2> HIDE DEF G
  <2>3. PICK f \in [0 .. c -> S] : Iterates(f, m, c, G)
    BY <2>1, Iterated
  <2>4. \A n \in 0 .. c : n # 0 => n \in 1 .. c /\ f[n - 1] \in S
    OBVIOUS
  <2>5. IsRun(f)
    BY <2>2, <2>3, <2>4 DEF Iterates
  <2> QED BY <2>5
<1>2. t = CHOOSE f : IsRun(f)
  BY DEF Turns
<1> HIDE DEF IsRun, t
<1>3. IsRun(t)
  BY <1>1, <1>2
<1>4. /\ t[0] = m
      /\ \A n \in 1 .. c : t[n] = Turn(m, c, t[n - 1])
  BY <1>3 DEF IsRun
<1> DEFINE W == {n \in 0 .. c : t[n] \in S}
<1>5. 0 \in W /\ \A n \in 1 .. c : n - 1 \in W => n \in W
  BY <1>4
<1> HIDE DEF W
<1>6. \A n \in 0 .. c : n \in W
  BY <1>5, Upwards
<1>7. c \in 0 .. c
  OBVIOUS
<1> QED BY <1>4, <1>6, <1>7 DEF t, W

LEMMA RunSound ==
  ASSUME NEW m, Sound(m), NEW c \in Nat, NEW n, n = umk_run_cycles(m, c)
  PROVE  Sound(n) /\ (Latched(m) => Latched(n))
<1>1. CASE m.step.latch_step
  BY <1>1 DEF umk_run_cycles
<1>2. CASE ~m.step.latch_step
  <2> DEFINE S == {p \in Machines : Sound(p) /\ (Latched(m) => Latched(p))}
             r == Turns(m, c)[c]
  <2>1. n = panel_update(r)
    BY <1>2 DEF umk_run_cycles
  <2>2. m \in S
    BY DEF Sound
  <2>3. ASSUME NEW p \in S PROVE Turn(m, c, p) \in S
    <3>1. /\ Sound(exec_one(p)) /\ exec_one(p) \in Machines
          /\ Latched(p) => Latched(exec_one(p))
      BY ExecSound DEF Executes
    <3> QED BY <3>1 DEF Turn
  <2>4. r \in S
    BY <2>2, <2>3, TurnsIn
  <2> HIDE DEF r
  <2> QED BY <2>1, <2>4, PanelUpdated, PanelSound
<1> QED BY <1>1, <1>2

(* Nothing has been executed. *)
Nothing(m, n) ==
  /\ n.rom = m.rom /\ n.ram = m.ram /\ n.cpu = m.cpu /\ n.ppi = m.ppi
  /\ n.integrated_to = m.integrated_to /\ n.kbd = m.kbd
  /\ n.step_start_cycles = m.step_start_cycles
  /\ n.unmapped_io_writes = m.unmapped_io_writes /\ n.trial = m.trial
  /\ n.step.dbg_port = m.step.dbg_port

(* Switches, СБ, the keyboard and interrupt requests. *)
LEMMA SwitchSound ==
  ASSUME NEW m, Sound(m), NEW sw, NEW on \in BOOLEAN, NEW n, n = umk_set_switch(m, sw, on)
  PROVE  /\ Sound(n) /\ Nothing(m, n) /\ n.step.mc = m.step.mc
         /\ Latched(m) => Latched(n)
         /\ n.step.mc_index = 0 \/ n.step.mc_index = m.step.mc_index
<1>0. m \in Machines /\ m.step \in Steps /\ 0 \in 0 .. TraceSize
  BY Fields DEF Sound, TraceSize
<1>1. CASE sw = "STEP"
  <2> DEFINE i == IF on THEN m.step.mc_index ELSE 0
             s == [m.step EXCEPT !.latch_step = on, !.waiting = on, !.mc_index = i]
  <2>1. n = [m EXCEPT !.step = s]
    BY <1>1 DEF umk_set_switch
  <2>2. i \in 0 .. TraceSize
    BY <1>0 DEF Steps
  <2>3. i = 0 \/ (on /\ i = m.step.mc_index)
    OBVIOUS
  <2>4. s = [m.step EXCEPT !.latch_step = on, !.waiting = on, !.mc_index = i]
    OBVIOUS
  <2> HIDE DEF i, s
  <2>5. /\ s \in Steps /\ s.latch_step = on /\ s.waiting = on /\ s.mc_index = i
        /\ s.latch_cycle = m.step.latch_cycle /\ s.mc = m.step.mc
        /\ s.dbg_port = m.step.dbg_port
    BY <1>0, <2>2, <2>4 DEF Steps
  <2>6. /\ n \in Machines /\ n.step = s /\ n.trial = m.trial
        /\ n.integrated_to = m.integrated_to /\ n.cpu = m.cpu
        /\ n.rom = m.rom /\ n.ram = m.ram /\ n.ppi = m.ppi /\ n.kbd = m.kbd
        /\ n.step_start_cycles = m.step_start_cycles
        /\ n.unmapped_io_writes = m.unmapped_io_writes
    BY <1>0, <2>1, <2>5, WithStep
  <2>7. ~(0 > 0)
    OBVIOUS
  <2>8. Sound(n) /\ (Latched(m) => Latched(n))
    BY <2>3, <2>5, <2>6, <2>7 DEF Sound, Latched
  <2> QED BY <2>3, <2>5, <2>6, <2>8 DEF Nothing
<1>2. CASE sw # "STEP"
  <2> DEFINE s == [m.step EXCEPT !.latch_cycle = on, !.mc_index = 0]
  <2>1. n = [m EXCEPT !.step = s]
    BY <1>2 DEF umk_set_switch
  <2>4. s = [m.step EXCEPT !.latch_cycle = on, !.mc_index = 0]
    OBVIOUS
  <2> HIDE DEF s
  <2>5. /\ s \in Steps /\ s.latch_step = m.step.latch_step /\ s.waiting = m.step.waiting
        /\ s.mc_index = 0 /\ s.mc = m.step.mc /\ s.dbg_port = m.step.dbg_port
    BY <1>0, <2>4 DEF Steps
  <2>6. /\ n \in Machines /\ n.step = s /\ n.trial = m.trial
        /\ n.integrated_to = m.integrated_to /\ n.cpu = m.cpu
        /\ n.rom = m.rom /\ n.ram = m.ram /\ n.ppi = m.ppi /\ n.kbd = m.kbd
        /\ n.step_start_cycles = m.step_start_cycles
        /\ n.unmapped_io_writes = m.unmapped_io_writes
    BY <1>0, <2>1, <2>5, WithStep
  <2>7. ~(0 > 0)
    OBVIOUS
  <2>8. Sound(n) /\ (Latched(m) => Latched(n))
    BY <2>5, <2>6, <2>7 DEF Sound, Latched
  <2> QED BY <2>5, <2>6, <2>8 DEF Nothing
<1> QED BY <1>1, <1>2

LEMMA SomeBytes ==
  /\ 0 \in Byte /\ \h9B \in Byte /\ \hFF \in Byte /\ 0 \in Address
<1>1. 0 \in Int /\ 0 <= 0 /\ 0 <= 255 /\ 0 <= 65535
  OBVIOUS
<1>2. \h9B \in Int /\ 0 <= \h9B /\ \h9B <= 255
  OBVIOUS
<1>3. \hFF \in Int /\ 0 <= \hFF /\ \hFF <= 255
  OBVIOUS
<1> QED BY <1>1, <1>2, <1>3, InByte, InAddress

LEMMA ResetType ==
  /\ ResetCpu \in Cpus /\ ResetCpu.cycles = 0 /\ ResetCpu.mc = << >>
  /\ ResetCpu.int_pending = FALSE /\ DarkPanel \in Panels
<1>1. << >> \in Seq(Cycle)
  BY EmptySeq
<1> QED BY <1>1, SomeBytes DEF ResetCpu, Cpus, DarkPanel, Panels

LEMMA ResetSound ==
  ASSUME NEW m, Sound(m), NEW n, n = umk_reset(m)
  PROVE  /\ Sound(n) /\ Latched(n) /\ n.step.mc_index = 0 /\ n.cpu = ResetCpu
         /\ n.rom = m.rom /\ n.ram = m.ram /\ n.kbd = m.kbd
<1> DEFINE s == [m.step EXCEPT !.waiting = m.step.latch_step, !.mc_index = 0]
           p == ppi_write_control(m.ppi, \h9B)
           z == ResetCpu.cycles
<1>0. m \in Machines /\ m.step \in Steps /\ m.ppi \in Ppis /\ 0 \in 0 .. TraceSize
  BY Fields DEF Sound, TraceSize
<1>1. n = [m EXCEPT !.cpu = ResetCpu, !.ppi = p, !.step = s, !.step_start_cycles = 0,
                    !.integrated_to = z, !.panel = DarkPanel]
  BY DEF umk_reset
<1>7. z = 0 /\ z \in Nat
  BY ResetType
<1>2. p \in Ppis
  BY <1>0, SomeBytes, ControlType
<1>3. s = [m.step EXCEPT !.waiting = m.step.latch_step, !.mc_index = 0]
  OBVIOUS
<1> HIDE DEF s, p, z
<1>4. /\ s \in Steps /\ s.latch_step = m.step.latch_step /\ s.waiting = m.step.latch_step
      /\ s.mc_index = 0 /\ s.mc = m.step.mc
  BY <1>0, <1>3 DEF Steps
<1>5. /\ n \in Machines /\ n.step = s /\ n.trial = m.trial
      /\ n.integrated_to = z /\ n.cpu = ResetCpu
      /\ n.rom = m.rom /\ n.ram = m.ram /\ n.kbd = m.kbd
  BY <1>0, <1>1, <1>2, <1>4, <1>7, ResetType DEF Machines
<1>6. ~(0 > 0)
  OBVIOUS
<1>8. n.integrated_to = n.cpu.cycles
  BY <1>5 DEF z
<1> QED BY <1>4, <1>5, <1>6, <1>8 DEF Sound, Latched

LEMMA KeySound ==
  ASSUME NEW m, Sound(m), NEW k \in Keys, NEW down \in BOOLEAN, NEW n, n = umk_set_key(m, k, down)
  PROVE  /\ Sound(n) /\ (Latched(m) => Latched(n)) /\ n.step = m.step /\ n.cpu = m.cpu
         /\ n.rom = m.rom /\ n.ram = m.ram /\ n.ppi = m.ppi
         /\ n.integrated_to = m.integrated_to
         /\ n.step_start_cycles = m.step_start_cycles
         /\ n.unmapped_io_writes = m.unmapped_io_writes
<1> DEFINE b == IF down THEN m.kbd \cup {k} ELSE m.kbd \ {k}
<1>1. m \in Machines /\ m.kbd \subseteq Keys
  BY Fields DEF Sound
<1>2. b \in SUBSET Keys
  BY <1>1
<1>3. n = [m EXCEPT !.kbd = b]
  BY DEF umk_set_key
<1> HIDE DEF b
<1>4. /\ n \in Machines /\ n.step = m.step /\ n.trial = m.trial
      /\ n.integrated_to = m.integrated_to /\ n.cpu = m.cpu
      /\ n.rom = m.rom /\ n.ram = m.ram /\ n.ppi = m.ppi
      /\ n.step_start_cycles = m.step_start_cycles
      /\ n.unmapped_io_writes = m.unmapped_io_writes
  BY <1>1, <1>2, <1>3 DEF Machines
<1>5. Sound(n) /\ (Latched(m) => Latched(n))
  BY <1>4 DEF Sound, Latched
<1> QED BY <1>4, <1>5

(* RST 7, the instruction that every request asks for. *)
RequestVector == \hFF

LEMMA Requested ==
  ASSUME NEW m \in Machines, NEW n, n = umk_interrupt(m)
  PROVE  /\ n \in Machines
         /\ n.rom = m.rom /\ n.ram = m.ram /\ n.ppi = m.ppi
         /\ n.integrated_to = m.integrated_to /\ n.panel = m.panel /\ n.step = m.step
         /\ n.kbd = m.kbd /\ n.step_start_cycles = m.step_start_cycles
         /\ n.unmapped_io_writes = m.unmapped_io_writes /\ n.trial = m.trial
         /\ n.cpu.a = m.cpu.a /\ n.cpu.z = m.cpu.z /\ n.cpu.hl = m.cpu.hl
         /\ n.cpu.sp = m.cpu.sp /\ n.cpu.pc = m.cpu.pc
         /\ n.cpu.inte = m.cpu.inte /\ n.cpu.halted = m.cpu.halted
         /\ n.cpu.int_pending = TRUE /\ n.cpu.int_vector = RequestVector
         /\ n.cpu.int_delay = m.cpu.int_delay
         /\ n.cpu.cycles = m.cpu.cycles /\ n.cpu.mc = m.cpu.mc
<1> DEFINE v == RequestVector
           d == [m.cpu EXCEPT !.int_pending = TRUE, !.int_vector = v]
<1>1. v \in Byte /\ m.cpu \in Cpus
  BY SomeBytes, Fields DEF RequestVector
<1>2. n = [m EXCEPT !.cpu = d]
  BY DEF umk_interrupt, RequestVector
<1>3. d = [m.cpu EXCEPT !.int_pending = TRUE, !.int_vector = v]
  OBVIOUS
<1> HIDE DEF d, v
<1>4. /\ d \in Cpus /\ d.a = m.cpu.a /\ d.z = m.cpu.z /\ d.hl = m.cpu.hl
      /\ d.sp = m.cpu.sp /\ d.pc = m.cpu.pc /\ d.inte = m.cpu.inte
      /\ d.halted = m.cpu.halted /\ d.int_pending = TRUE /\ d.int_vector = v
      /\ d.int_delay = m.cpu.int_delay /\ d.cycles = m.cpu.cycles /\ d.mc = m.cpu.mc
  BY <1>1, <1>3 DEF Cpus
<1>5. /\ n \in Machines /\ n.cpu = d
      /\ n.rom = m.rom /\ n.ram = m.ram /\ n.ppi = m.ppi
      /\ n.integrated_to = m.integrated_to /\ n.panel = m.panel /\ n.step = m.step
      /\ n.kbd = m.kbd /\ n.step_start_cycles = m.step_start_cycles
      /\ n.unmapped_io_writes = m.unmapped_io_writes /\ n.trial = m.trial
  BY <1>2, <1>4, WithCpu
<1> QED BY <1>4, <1>5 DEF v

LEMMA InterruptSound ==
  ASSUME NEW m, Sound(m), NEW n, n = umk_interrupt(m)
  PROVE  Sound(n) /\ (Latched(m) => Latched(n))
<1>1. m \in Machines
  BY DEF Sound
<1>2. /\ n \in Machines /\ n.trial = m.trial /\ n.step = m.step
      /\ n.integrated_to = m.integrated_to /\ n.cpu.cycles = m.cpu.cycles
  BY <1>1, Requested
<1> QED BY <1>2 DEF Sound, Latched

LEMMA PowerOnType == PowerOnPpi \in Ppis
<1> DEFINE p == [ctrl |-> 0, out_a |-> 0, out_b |-> 0, out_c |-> 0,
                 a_is_out |-> FALSE, b_is_out |-> FALSE,
                 c_lo_is_out |-> FALSE, c_hi_is_out |-> FALSE]
<1>1. p \in Ppis
  BY SomeBytes DEF Ppis
<1>2. PowerOnPpi = ppi_write_control(p, \h9B)
  BY DEF PowerOnPpi
<1> HIDE DEF p
<1> QED BY <1>1, <1>2, SomeBytes, ControlType

LEMMA RomLoaded ==
  ASSUME NEW m \in Machines, NEW offset \in Nat, NEW data \in Seq(Byte),
         NEW n, n = umk_load_rom(m, offset, data)
  PROVE  /\ n \in Machines /\ n.ram = m.ram /\ n.cpu = m.cpu /\ n.ppi = m.ppi
         /\ n.integrated_to = m.integrated_to /\ n.step = m.step /\ n.trial = m.trial
         /\ n.kbd = m.kbd
<1>1. CASE offset + Len(data) > RamBase
  BY <1>1 DEF umk_load_rom
<1>2. CASE ~(offset + Len(data) > RamBase)
  <2> DEFINE q == [a \in DOMAIN m.rom |-> IF a - offset + 1 \in DOMAIN data
                                        THEN data[a - offset + 1] ELSE m.rom[a]]
  <2>1. n = [m EXCEPT !.rom = q]
    BY <1>2 DEF umk_load_rom
  <2>2. \A k \in DOMAIN data : data[k] \in Byte
    BY ElementOfSeq, LenProperties
  <2>3. m.rom \in [0 .. RamBase - 1 -> Byte]
    BY Fields DEF Roms
  <2>4. q \in Roms
    BY <2>2, <2>3 DEF Roms
  <2> HIDE DEF q
  <2>5. /\ n \in Machines /\ n.ram = m.ram /\ n.cpu = m.cpu /\ n.ppi = m.ppi
        /\ n.integrated_to = m.integrated_to /\ n.step = m.step /\ n.trial = m.trial
        /\ n.kbd = m.kbd
    BY <2>1, <2>4 DEF Machines
  <2> QED BY <2>5
<1> QED BY <1>1, <1>2

LEMMA RomSound ==
  ASSUME NEW m, Sound(m), NEW offset \in Nat, NEW data \in Seq(Byte),
         NEW n, n = umk_load_rom(m, offset, data)
  PROVE  /\ Sound(n) /\ (Latched(m) => Latched(n)) /\ n.cpu = m.cpu /\ n.step = m.step
         /\ n.ram = m.ram /\ n.kbd = m.kbd
<1>1. m \in Machines
  BY DEF Sound
<1>2. /\ n \in Machines /\ n.trial = m.trial /\ n.step = m.step
      /\ n.integrated_to = m.integrated_to /\ n.cpu = m.cpu
      /\ n.ram = m.ram /\ n.kbd = m.kbd
  BY <1>1, RomLoaded
<1>3. Sound(n) /\ (Latched(m) => Latched(n))
  BY <1>2 DEF Sound, Latched
<1> QED BY <1>2, <1>3

LEMMA PowerOnSound ==
  ASSUME NEW size \in RamSizes, NEW m, m = umk_init(size)
  PROVE  /\ Sound(m) /\ Latched(m) /\ m.cpu = ResetCpu /\ m.step.mc_index = 0
         /\ m.rom = [a \in 0 .. RamBase - 1 |-> 0] /\ DOMAIN m.ram = 0 .. size - 1
         /\ m.kbd = {}
<1> DEFINE r == [a \in 0 .. RamBase - 1 |-> 0]
           b == [i \in 0 .. size - 1 |-> 0]
           s == [latch_step |-> FALSE, latch_cycle |-> FALSE, waiting |-> FALSE,
                 dbg_port |-> 0, mc_index |-> 0, mc |-> << >>]
<1>1. r \in Roms /\ b \in Rams
  BY SomeBytes DEF Roms, Rams
<1>2. /\ s \in Steps /\ s.waiting = s.latch_step /\ Len(s.mc) = 0 /\ s.mc_index = 0
  <2>1. << >> \in Seq(Cycle) /\ Len(<< >>) = 0 /\ 0 \in 0 .. TraceSize
    BY EmptySeq DEF TraceSize
  <2> QED BY <2>1, SomeBytes DEF Steps
<1>3. NoTrial \in Trials
  BY EmptySeq DEF NoTrial, Trials
<1>4. m = [rom |-> r, ram |-> b, cpu |-> ResetCpu, ppi |-> PowerOnPpi, integrated_to |-> 0,
           panel |-> DarkPanel, step |-> s, kbd |-> {}, step_start_cycles |-> 0,
           unmapped_io_writes |-> 0, trial |-> NoTrial]
  BY DEF umk_init
<1> HIDE DEF r, b, s
<1>5. /\ m \in Machines /\ m.rom = r /\ m.step = s /\ m.trial = NoTrial
      /\ m.integrated_to = 0 /\ m.cpu = ResetCpu /\ m.ram = b /\ m.kbd = {}
  BY <1>1, <1>2, <1>3, <1>4, ResetType, PowerOnType DEF Machines
<1>6. Sound(m) /\ Latched(m)
  <2>1. ~(0 > 0) /\ 0 <= 5
    OBVIOUS
  <2> QED BY <1>2, <1>5, <2>1, ResetType DEF Sound, Latched
<1> QED BY <1>2, <1>5, <1>6 DEF r, b

LEMMA InitSound ==
  ASSUME NEW image \in Programs, NEW size \in RamSizes,
         NEW n, n = umk_load_rom(umk_init(size), 0, image)
  PROVE  Sound(n) /\ Latched(n) /\ n.cpu = ResetCpu /\ n.step.mc_index = 0
<1> DEFINE m == umk_init(size)
<1>1. 0 \in Nat /\ image \in Seq(Byte)
  BY UmkAssumption
<1>2. Sound(m) /\ Latched(m) /\ m.cpu = ResetCpu /\ m.step.mc_index = 0
  BY PowerOnSound
<1>3. n = umk_load_rom(m, 0, image)
  OBVIOUS
<1> HIDE DEF m
<1> QED BY <1>1, <1>2, <1>3, RomSound

-----------------------------------------------------------------------------
(* What an instruction cannot depend on.  Two machines that agree in memory,  *)
(* port, clock and registers execute the same instruction in the same way,   *)
(* whatever their switches, LEDs, journals and pending requests; keys that   *)
(* differ show only in what an IN reads, in the last machine cycle.          *)
SameCpu(c, d) ==
  /\ c.a = d.a /\ c.z = d.z /\ c.hl = d.hl /\ c.sp = d.sp /\ c.pc = d.pc
  /\ c.inte = d.inte /\ c.halted = d.halted /\ c.int_delay = d.int_delay
  /\ c.cycles = d.cycles /\ c.mc = d.mc

Alike(m, n) ==
  /\ m \in Machines /\ n \in Machines
  /\ SameCpu(m.cpu, n.cpu)
  /\ m.rom = n.rom /\ m.ram = n.ram /\ m.ppi = n.ppi
  /\ m.step.dbg_port = n.step.dbg_port
  /\ m.integrated_to = n.integrated_to
  /\ m.step_start_cycles = n.step_start_cycles
  /\ m.unmapped_io_writes = n.unmapped_io_writes

(* The same cycles, of which only the last may carry other data. *)
SameButLast(a, b) == Len(a) = Len(b) /\ \A i \in 1 .. Len(a) - 1 : a[i] = b[i]

-----------------------------------------------------------------------------
LEMMA AlikeCpus ==
  ASSUME NEW m, NEW n, Alike(m, n)
  PROVE  /\ m \in Machines /\ n \in Machines
         /\ m.cpu \in Cpus /\ n.cpu \in Cpus /\ SameCpu(m.cpu, n.cpu)
BY Fields DEF Alike

LEMMA CpuAlike ==
  ASSUME NEW m, NEW n, Alike(m, n), NEW c \in Cpus, NEW d \in Cpus, SameCpu(c, d)
  PROVE  Alike([m EXCEPT !.cpu = c], [n EXCEPT !.cpu = d])
BY DEF Alike, Machines

LEMMA RegisterAlike ==
  ASSUME NEW m, NEW n, Alike(m, n)
  PROVE  /\ \A v \in Address : Alike([m EXCEPT !.cpu.pc = v], [n EXCEPT !.cpu.pc = v])
         /\ \A v \in Address : Alike([m EXCEPT !.cpu.sp = v], [n EXCEPT !.cpu.sp = v])
         /\ \A v \in Address : Alike([m EXCEPT !.cpu.hl = v], [n EXCEPT !.cpu.hl = v])
         /\ \A v \in Byte : Alike([m EXCEPT !.cpu.a = v], [n EXCEPT !.cpu.a = v])
         /\ \A v \in BOOLEAN : Alike([m EXCEPT !.cpu.z = v], [n EXCEPT !.cpu.z = v])
<1> DEFINE c == m.cpu  d == n.cpu
<1>0. c \in Cpus /\ d \in Cpus /\ SameCpu(c, d)
  BY AlikeCpus
<1>1. ASSUME NEW v \in Address PROVE Alike([m EXCEPT !.cpu.pc = v], [n EXCEPT !.cpu.pc = v])
  <2>1. /\ [c EXCEPT !.pc = v] \in Cpus /\ [d EXCEPT !.pc = v] \in Cpus
        /\ SameCpu([c EXCEPT !.pc = v], [d EXCEPT !.pc = v])
    BY <1>0 DEF Cpus, SameCpu
  <2> QED BY <2>1, CpuAlike
<1>2. ASSUME NEW v \in Address PROVE Alike([m EXCEPT !.cpu.sp = v], [n EXCEPT !.cpu.sp = v])
  <2>1. /\ [c EXCEPT !.sp = v] \in Cpus /\ [d EXCEPT !.sp = v] \in Cpus
        /\ SameCpu([c EXCEPT !.sp = v], [d EXCEPT !.sp = v])
    BY <1>0 DEF Cpus, SameCpu
  <2> QED BY <2>1, CpuAlike
<1>3. ASSUME NEW v \in Address PROVE Alike([m EXCEPT !.cpu.hl = v], [n EXCEPT !.cpu.hl = v])
  <2>1. /\ [c EXCEPT !.hl = v] \in Cpus /\ [d EXCEPT !.hl = v] \in Cpus
        /\ SameCpu([c EXCEPT !.hl = v], [d EXCEPT !.hl = v])
    BY <1>0 DEF Cpus, SameCpu
  <2> QED BY <2>1, CpuAlike
<1>4. ASSUME NEW v \in Byte PROVE Alike([m EXCEPT !.cpu.a = v], [n EXCEPT !.cpu.a = v])
  <2>1. /\ [c EXCEPT !.a = v] \in Cpus /\ [d EXCEPT !.a = v] \in Cpus
        /\ SameCpu([c EXCEPT !.a = v], [d EXCEPT !.a = v])
    BY <1>0 DEF Cpus, SameCpu
  <2> QED BY <2>1, CpuAlike
<1>5. ASSUME NEW v \in BOOLEAN PROVE Alike([m EXCEPT !.cpu.z = v], [n EXCEPT !.cpu.z = v])
  <2>1. /\ [c EXCEPT !.z = v] \in Cpus /\ [d EXCEPT !.z = v] \in Cpus
        /\ SameCpu([c EXCEPT !.z = v], [d EXCEPT !.z = v])
    BY <1>0 DEF Cpus, SameCpu
  <2> QED BY <2>1, CpuAlike
<1> QED BY <1>1, <1>2, <1>3, <1>4, <1>5

LEMMA PeekAlike ==
  ASSUME NEW m, NEW n, Alike(m, n), NEW addr
  PROVE  umk_peek(m, addr) = umk_peek(n, addr)
BY DEF Alike, umk_peek, RamIndex

LEMMA LogAlike ==
  ASSUME NEW m, NEW n, Alike(m, n),
         NEW st \in Statuses, NEW addr \in Address, NEW data \in Byte
  PROVE  Alike(mc_log(m, st, addr, data), mc_log(n, st, addr, data))
<1> DEFINE e == [status |-> st, addr |-> addr, data |-> data]
<1>0. /\ m.cpu \in Cpus /\ n.cpu \in Cpus /\ SameCpu(m.cpu, n.cpu)
      /\ m.cpu.mc \in Seq(Cycle) /\ m.cpu.mc = n.cpu.mc
  BY AlikeCpus, CpuFields DEF SameCpu
<1>1. CASE Len(m.cpu.mc) < TraceSize
  <2> DEFINE t == Append(m.cpu.mc, e)
             c == [m.cpu EXCEPT !.mc = t]
             d == [n.cpu EXCEPT !.mc = t]
  <2>1. e \in Cycle
    BY DEF Cycle, Statuses
  <2>2. t \in Seq(Cycle)
    BY <1>0, <2>1, Appended
  <2>3. /\ mc_log(m, st, addr, data) = [m EXCEPT !.cpu = c]
        /\ mc_log(n, st, addr, data) = [n EXCEPT !.cpu = d]
    BY <1>0, <1>1 DEF mc_log
  <2> HIDE DEF t
  <2>4. c \in Cpus /\ d \in Cpus /\ SameCpu(c, d)
    BY <1>0, <2>2 DEF Cpus, SameCpu
  <2> HIDE DEF c, d
  <2> QED BY <2>3, <2>4, CpuAlike
<1>2. CASE ~(Len(m.cpu.mc) < TraceSize)
  BY <1>0, <1>2 DEF mc_log
<1> QED BY <1>1, <1>2

LEMMA PokedRam ==
  ASSUME NEW m \in Machines, NEW addr \in Address, NEW val
  PROVE  umk_poke(m, addr, val).ram =
           IF InRam(addr) THEN [m.ram EXCEPT ![RamIndex(m, addr)] = val] ELSE m.ram
<1>1. CASE InRam(addr)
  <2> DEFINE idx == RamIndex(m, addr)
             j   == Journal(m, idx)
             t   == [m.trial EXCEPT !.log = Append(m.trial.log, [idx |-> idx, old |-> m.ram[idx]])]
             r   == [m.ram EXCEPT ![idx] = val]
  <2>1. j = m \/ j = [m EXCEPT !.trial = t]
    BY DEF Journal
  <2>2. umk_poke(m, addr, val) = [j EXCEPT !.ram = [j.ram EXCEPT ![idx] = val]]
    BY <1>1 DEF umk_poke
  <2> HIDE DEF t, j
  <2>3. j.ram = m.ram /\ \A x : [j EXCEPT !.ram = x].ram = x
    BY <2>1 DEF Machines
  <2>4. umk_poke(m, addr, val).ram = [j.ram EXCEPT ![idx] = val]
    BY <2>2, <2>3
  <2> QED BY <1>1, <2>3, <2>4
<1>2. CASE ~InRam(addr)
  BY <1>2 DEF umk_poke
<1> QED BY <1>1, <1>2

LEMMA PokeAlike ==
  ASSUME NEW m, NEW n, Alike(m, n), NEW addr \in Address, NEW val \in Byte
  PROVE  Alike(umk_poke(m, addr, val), umk_poke(n, addr, val))
<1> DEFINE p == umk_poke(m, addr, val)
           q == umk_poke(n, addr, val)
<1>0. m \in Machines /\ n \in Machines
  BY AlikeCpus
<1>1. /\ p \in Machines
      /\ p.rom = m.rom /\ p.cpu = m.cpu /\ p.ppi = m.ppi
      /\ p.integrated_to = m.integrated_to /\ p.step = m.step
      /\ p.step_start_cycles = m.step_start_cycles
      /\ p.unmapped_io_writes = m.unmapped_io_writes
  BY <1>0, Poked
<1>2. /\ q \in Machines
      /\ q.rom = n.rom /\ q.cpu = n.cpu /\ q.ppi = n.ppi
      /\ q.integrated_to = n.integrated_to /\ q.step = n.step
      /\ q.step_start_cycles = n.step_start_cycles
      /\ q.unmapped_io_writes = n.unmapped_io_writes
  BY <1>0, Poked
<1>3. p.ram = q.ram
  <2>1. RamIndex(m, addr) = RamIndex(n, addr) /\ m.ram = n.ram
    BY DEF Alike, RamIndex
  <2>2. p.ram = IF InRam(addr) THEN [m.ram EXCEPT ![RamIndex(m, addr)] = val] ELSE m.ram
    BY <1>0, PokedRam
  <2>3. q.ram = IF InRam(addr) THEN [n.ram EXCEPT ![RamIndex(n, addr)] = val] ELSE n.ram
    BY <1>0, PokedRam
  <2> HIDE DEF p, q
  <2> QED BY <2>1, <2>2, <2>3
<1> HIDE DEF p, q
<1>4. Alike(p, q)
  BY <1>1, <1>2, <1>3 DEF Alike
<1> QED BY <1>4 DEF p, q

(* Bus cycles. *)
LEMMA ReadAlike ==
  ASSUME NEW m, NEW n, Alike(m, n), NEW addr \in Address, NEW st \in Statuses
  PROVE  Alike(bus_rd(m, addr, st), bus_rd(n, addr, st))
<1>1. umk_peek(m, addr) \in Byte /\ umk_peek(m, addr) = umk_peek(n, addr)
  BY AlikeCpus, PeekType, PeekAlike
<1> QED BY <1>1, LogAlike DEF bus_rd

LEMMA WriteAlike ==
  ASSUME NEW m, NEW n, Alike(m, n), NEW addr \in Address, NEW val \in Byte, NEW st \in Statuses
  PROVE  Alike(bus_wr(m, addr, val, st), bus_wr(n, addr, val, st))
BY PokeAlike, LogAlike DEF bus_wr

LEMMA Fetch8Alike ==
  ASSUME NEW m, NEW n, Alike(m, n)
  PROVE  Alike(fetch8(m), fetch8(n)) /\ Imm8(m) = Imm8(n)
<1> DEFINE p == bus_rd(m, m.cpu.pc, MEMR)
           q == bus_rd(n, m.cpu.pc, MEMR)
<1>0. m.cpu.pc \in Address /\ m.cpu.pc = n.cpu.pc /\ MEMR \in Statuses
  BY AlikeCpus, CpuFields, StatusTails DEF SameCpu
<1>1. Alike(p, q)
  BY <1>0, ReadAlike
<1>2. fetch8(m) = [p EXCEPT !.cpu.pc = Word(p.cpu.pc + 1)]
  BY DEF fetch8
<1>3. fetch8(n) = [q EXCEPT !.cpu.pc = Word(q.cpu.pc + 1)]
  BY <1>0 DEF fetch8
<1> HIDE DEF p, q
<1>4. p.cpu.pc = q.cpu.pc /\ p.cpu.pc \in Address
  BY <1>1, AlikeCpus, CpuFields DEF SameCpu
<1>5. Word(p.cpu.pc + 1) \in Address
  BY <1>4, OfAddress, WordType
<1>6. Alike(fetch8(m), fetch8(n))
  BY <1>1, <1>2, <1>3, <1>4, <1>5, RegisterAlike
<1>7. Imm8(m) = Imm8(n)
  BY <1>0, PeekAlike DEF Imm8
<1> QED BY <1>6, <1>7

LEMMA Fetch16Alike ==
  ASSUME NEW m, NEW n, Alike(m, n)
  PROVE  Alike(fetch16(m), fetch16(n)) /\ Imm16(m) = Imm16(n)
<1>1. m.cpu.pc = n.cpu.pc
  BY DEF Alike, SameCpu
<1>2. Imm16(m) = Imm16(n)
  BY <1>1, PeekAlike DEF Imm16
<1> QED BY <1>2, Fetch8Alike DEF fetch16

LEMMA PushAlike ==
  ASSUME NEW m, NEW n, Alike(m, n), NEW v \in Address
  PROVE  Alike(push16(m, v), push16(n, v))
<1> DEFINE s1 == Word(m.cpu.sp - 1)
           s2 == Word(m.cpu.sp - 2)
           p  == bus_wr(bus_wr(m, s1, v \div 256, STACKW), s2, v % 256, STACKW)
           q  == bus_wr(bus_wr(n, s1, v \div 256, STACKW), s2, v % 256, STACKW)
<1>0. /\ m.cpu.sp \in Address /\ m.cpu.sp = n.cpu.sp /\ STACKW \in Statuses
      /\ v \div 256 \in Byte /\ v % 256 \in Byte
  BY AlikeCpus, CpuFields, StatusTails, BytesOfWord DEF SameCpu
<1>1. s1 \in Address /\ s2 \in Address
  <2>1. m.cpu.sp - 1 \in Int /\ m.cpu.sp - 2 \in Int
    BY <1>0, OfAddress
  <2> QED BY <2>1, WordType
<1>2. push16(m, v) = [p EXCEPT !.cpu.sp = Word(p.cpu.sp - 2)]
  BY DEF push16
<1>3. push16(n, v) = [q EXCEPT !.cpu.sp = Word(q.cpu.sp - 2)]
  BY <1>0 DEF push16
<1> HIDE DEF s1, s2
<1>4. Alike(p, q)
  BY <1>0, <1>1, WriteAlike
<1> HIDE DEF p, q
<1>5. p.cpu.sp = q.cpu.sp /\ p.cpu.sp \in Address
  BY <1>4, AlikeCpus, CpuFields DEF SameCpu
<1>6. Word(p.cpu.sp - 2) \in Address
  BY <1>5, OfAddress, WordType
<1> QED BY <1>2, <1>3, <1>4, <1>5, <1>6, RegisterAlike

LEMMA PopAlike ==
  ASSUME NEW m, NEW n, Alike(m, n)
  PROVE  Alike(pop16(m), pop16(n)) /\ Top16(m) = Top16(n)
<1> DEFINE s1 == Word(m.cpu.sp + 1)
           p  == bus_rd(bus_rd(m, m.cpu.sp, STACKR), s1, STACKR)
           q  == bus_rd(bus_rd(n, m.cpu.sp, STACKR), s1, STACKR)
<1>0. m.cpu.sp \in Address /\ m.cpu.sp = n.cpu.sp /\ STACKR \in Statuses
  BY AlikeCpus, CpuFields, StatusTails DEF SameCpu
<1>1. s1 \in Address
  BY <1>0, OfAddress, WordType
<1>2. pop16(m) = [p EXCEPT !.cpu.sp = Word(p.cpu.sp + 2)]
  BY DEF pop16
<1>3. pop16(n) = [q EXCEPT !.cpu.sp = Word(q.cpu.sp + 2)]
  BY <1>0 DEF pop16
<1> HIDE DEF s1
<1>4. Alike(p, q)
  BY <1>0, <1>1, ReadAlike
<1> HIDE DEF p, q
<1>5. p.cpu.sp = q.cpu.sp /\ p.cpu.sp \in Address
  BY <1>4, AlikeCpus, CpuFields DEF SameCpu
<1>6. Word(p.cpu.sp + 2) \in Address
  BY <1>5, OfAddress, WordType
<1>7. Top16(m) = Top16(n)
  BY <1>0, PeekAlike DEF Top16
<1> QED BY <1>2, <1>3, <1>4, <1>5, <1>6, <1>7, RegisterAlike

LEMMA GotoAlike ==
  ASSUME NEW m, NEW n, Alike(m, n), NEW addr \in Address
  PROVE  Alike(Goto(m, addr), Goto(n, addr))
BY RegisterAlike DEF Goto

LEMMA CallAlike ==
  ASSUME NEW m, NEW n, Alike(m, n), NEW addr \in Address
  PROVE  Alike(Call(m, addr), Call(n, addr))
<1>1. m.cpu.pc \in Address /\ m.cpu.pc = n.cpu.pc
  BY AlikeCpus, CpuFields DEF SameCpu
<1>2. Alike(push16(m, m.cpu.pc), push16(n, n.cpu.pc))
  BY <1>1, PushAlike
<1> QED BY <1>2, GotoAlike DEF Call

LEMMA ReturnAlike ==
  ASSUME NEW m, NEW n, Alike(m, n)
  PROVE  Alike(Goto(pop16(m), Top16(m)), Goto(pop16(n), Top16(n)))
BY AlikeCpus, PopAlike, Pop16, GotoAlike

-----------------------------------------------------------------------------
(* The ports.  Only an IN of the keyboard depends on the keys. *)
LEMMA PpiAlike ==
  ASSUME NEW m, NEW n, Alike(m, n), NEW q \in Ppis
  PROVE  Alike([m EXCEPT !.ppi = q], [n EXCEPT !.ppi = q])
BY DEF Alike, Machines

LEMMA DisplayAlike ==
  ASSUME NEW m, NEW n, Alike(m, n), NEW to \in Nat
  PROVE  Alike(display_advance(m, to), display_advance(n, to))
<1>1. m.integrated_to = n.integrated_to
  BY DEF Alike
<1>2. Alike([m EXCEPT !.integrated_to = to], [n EXCEPT !.integrated_to = to])
  BY DEF Alike, Machines
<1> QED BY <1>1, <1>2 DEF display_advance

LEMMA PortAlike ==
  ASSUME NEW m, NEW n, Alike(m, n), m.kbd = n.kbd, NEW port
  PROVE  bus_in(m, port) = bus_in(n, port)
<1>1. m.ppi = n.ppi /\ m.step.dbg_port = n.step.dbg_port
  BY DEF Alike
<1>2. \A row : Pulled(m, row) = Pulled(n, row)
  BY <1>1 DEF Pulled
<1>3. keyboard_scan(m) = keyboard_scan(n)
  BY <1>2 DEF keyboard_scan
<1> QED BY <1>1, <1>3 DEF bus_in

LEMMA OutAlike ==
  ASSUME NEW m, NEW n, Alike(m, n), NEW port \in Byte, NEW val \in Byte
  PROVE  Alike(bus_out(m, port, val), bus_out(n, port, val))
<1> DEFINE to   == m.step_start_cycles + OUT_WRITE_OFFSET
           s    == display_advance(m, to)
           t    == display_advance(n, to)
           low  == IF m.ppi.c_lo_is_out THEN val % 16 ELSE m.ppi.out_c % 16
           high == IF m.ppi.c_hi_is_out THEN val \div 16 ELSE m.ppi.out_c \div 16
<1>0. m \in Machines /\ n \in Machines /\ m.ppi = n.ppi /\ m.ppi \in Ppis
      /\ m.step_start_cycles = n.step_start_cycles /\ m.step_start_cycles \in Nat
  BY AlikeCpus, Fields DEF Alike
<1>1. to \in Nat
  BY <1>0 DEF OUT_WRITE_OFFSET
<1>2. display_advance(n, n.step_start_cycles + OUT_WRITE_OFFSET) = t
  BY <1>0
<1> HIDE DEF to
<1>3. Alike(s, t)
  BY <1>1, DisplayAlike
<1>4. s.ppi = m.ppi /\ t.ppi = m.ppi
  BY <1>0 DEF display_advance, Machines
<1> HIDE DEF s, t
<1>5. CASE port = PORT_A
  <2> DEFINE q == [m.ppi EXCEPT !.out_a = IF m.ppi.a_is_out THEN val ELSE m.ppi.out_a]
  <2>1. /\ bus_out(m, port, val) = [s EXCEPT !.ppi = q]
        /\ bus_out(n, port, val) = [t EXCEPT !.ppi = q]
    BY <1>0, <1>2, <1>4, <1>5 DEF bus_out, PORT_A, PORT_B, PORT_C, PORT_CTRL, PORT_DBG, s, to
  <2>2. q \in Ppis
    BY <1>0 DEF Ppis
  <2> QED BY <1>3, <2>1, <2>2, PpiAlike
<1>6. CASE port = PORT_B
  <2> DEFINE q == [m.ppi EXCEPT !.out_b = IF m.ppi.b_is_out THEN val ELSE m.ppi.out_b]
  <2>1. /\ bus_out(m, port, val) = [s EXCEPT !.ppi = q]
        /\ bus_out(n, port, val) = [t EXCEPT !.ppi = q]
    BY <1>0, <1>2, <1>4, <1>6 DEF bus_out, PORT_A, PORT_B, PORT_C, PORT_CTRL, PORT_DBG, s, to
  <2>2. q \in Ppis
    BY <1>0 DEF Ppis
  <2> QED BY <1>3, <2>1, <2>2, PpiAlike
<1>7. CASE port = PORT_C
  <2> DEFINE q == [m.ppi EXCEPT !.out_c = 16 * high + low]
  <2>1. /\ bus_out(m, port, val) = [m EXCEPT !.ppi = q]
        /\ bus_out(n, port, val) = [n EXCEPT !.ppi = q]
    BY <1>0, <1>7 DEF bus_out, PORT_A, PORT_B, PORT_C, PORT_CTRL, PORT_DBG
  <2>2. q \in Ppis
    <3>1. /\ bus_out(m, port, val) \in Machines /\ bus_out(m, port, val).ppi = q
      <4>1. bus_out(m, port, val) \in Machines
        BY <1>0, BusOut DEF PortWritten
      <4> HIDE DEF q
      <4> QED BY <1>0, <2>1, <4>1 DEF Machines
    <3> QED BY <3>1, Fields
  <2> HIDE DEF q
  <2> QED BY <2>1, <2>2, PpiAlike
<1>8. CASE port = PORT_CTRL
  <2>1. /\ bus_out(m, port, val) = [s EXCEPT !.ppi = ppi_write_control(m.ppi, val)]
        /\ bus_out(n, port, val) = [t EXCEPT !.ppi = ppi_write_control(m.ppi, val)]
    BY <1>0, <1>2, <1>4, <1>8 DEF bus_out, PORT_A, PORT_B, PORT_C, PORT_CTRL, PORT_DBG, s, to
  <2> QED BY <1>0, <1>3, <2>1, ControlType, PpiAlike
<1>9. CASE port = PORT_DBG
  <2> DEFINE u == [m.step EXCEPT !.dbg_port = val]
             v == [n.step EXCEPT !.dbg_port = val]
  <2>1. bus_out(m, port, val) = [m EXCEPT !.step = u] /\ bus_out(n, port, val) = [n EXCEPT !.step = v]
    BY <1>9 DEF bus_out, PORT_A, PORT_B, PORT_C, PORT_CTRL, PORT_DBG
  <2>2. u \in Steps /\ v \in Steps /\ u.dbg_port = val /\ v.dbg_port = val
    BY <1>0, Fields DEF Steps
  <2> HIDE DEF u, v
  <2> QED BY <2>1, <2>2 DEF Alike, Machines
<1>10. CASE port \notin {PORT_A, PORT_B, PORT_C, PORT_CTRL, PORT_DBG}
  <2> DEFINE w == m.unmapped_io_writes + 1
  <2>0. w \in Nat /\ n.unmapped_io_writes = m.unmapped_io_writes
    BY <1>0, Fields DEF Alike
  <2>1. /\ bus_out(m, port, val) = [m EXCEPT !.unmapped_io_writes = w]
        /\ bus_out(n, port, val) = [n EXCEPT !.unmapped_io_writes = w]
    BY <1>10, <2>0 DEF bus_out
  <2> HIDE DEF w
  <2> QED BY <2>0, <2>1 DEF Alike, Machines
<1> QED BY <1>5, <1>6, <1>7, <1>8, <1>9, <1>10

LEMMA PortAddress ==
  ASSUME NEW port \in Byte
  PROVE  257 * port \in Address
<1>1. port \in Int /\ 0 <= port /\ port <= 255
  BY OfByte
<1>2. 257 * port \in Int /\ 0 <= 257 * port /\ 257 * port <= 65535
  BY <1>1
<1> QED BY <1>2, InAddress

LEMMA OutCycleAlike ==
  ASSUME NEW m, NEW n, Alike(m, n), NEW port \in Byte, NEW val \in Byte
  PROVE  Alike(out_cycle(m, port, val), out_cycle(n, port, val))
<1>1. OUTW \in Statuses
  BY StatusTails
<1> QED BY <1>1, PortAddress, OutAlike, LogAlike DEF out_cycle

LEMMA InCycleAlike ==
  ASSUME NEW m, NEW n, Alike(m, n), m.kbd = n.kbd, NEW port \in Byte
  PROVE  Alike(in_cycle(m, port), in_cycle(n, port))
<1>1. INPR \in Statuses /\ bus_in(m, port) \in Byte /\ bus_in(n, port) = bus_in(m, port)
  BY StatusTails, AlikeCpus, PortRead, PortAlike
<1> QED BY <1>1, PortAddress, LogAlike DEF in_cycle

(* With other keys, an IN still agrees in all cycles but the last. *)
LEMMA SameTraces ==
  ASSUME NEW t
  PROVE  SameButLast(t, t)
BY DEF SameButLast

LEMMA LastLogged ==
  ASSUME NEW m, NEW n, m.cpu.mc \in Seq(Cycle), m.cpu.mc = n.cpu.mc, m \in Machines, n \in Machines,
         NEW st \in Statuses, NEW addr \in Address, NEW x \in Byte, NEW y \in Byte
  PROVE  SameButLast(mc_log(m, st, addr, x).cpu.mc, mc_log(n, st, addr, y).cpu.mc)
<1> DEFINE t == m.cpu.mc
           e == [status |-> st, addr |-> addr, data |-> x]
           f == [status |-> st, addr |-> addr, data |-> y]
<1>1. e \in Cycle /\ f \in Cycle
  BY DEF Cycle, Statuses
<1>2. m.cpu \in Cpus /\ n.cpu \in Cpus
  BY Fields
<1>3. CASE Len(t) < TraceSize
  <2> DEFINE c == [m.cpu EXCEPT !.mc = Append(t, e)]
             d == [n.cpu EXCEPT !.mc = Append(t, f)]
  <2>1. /\ mc_log(m, st, addr, x) = [m EXCEPT !.cpu = c]
        /\ mc_log(n, st, addr, y) = [n EXCEPT !.cpu = d]
    BY <1>3 DEF mc_log
  <2>2. /\ c.mc = Append(t, e) /\ d.mc = Append(t, f)
    BY <1>2 DEF Cpus
  <2> HIDE DEF c, d
  <2>3. /\ mc_log(m, st, addr, x).cpu = c /\ mc_log(n, st, addr, y).cpu = d
    BY <2>1 DEF Machines
  <2>4. SameButLast(Append(t, e), Append(t, f))
    <3>1. /\ Len(t) \in Nat /\ Len(Append(t, e)) = Len(t) + 1 /\ Len(Append(t, f)) = Len(t) + 1
          /\ \A i \in 1 .. Len(t) : Append(t, e)[i] = t[i] /\ Append(t, f)[i] = t[i]
      BY <1>1, Appended
    <3> QED BY <3>1 DEF SameButLast
  <2> QED BY <2>2, <2>3, <2>4
<1>4. CASE ~(Len(t) < TraceSize)
  BY <1>4, SameTraces DEF mc_log
<1> QED BY <1>3, <1>4

-----------------------------------------------------------------------------
(* The instructions. *)
LEMMA FlagAlike ==
  ASSUME NEW m, NEW n, Alike(m, n), NEW v
  PROVE  Alike(SetZ(m, v), SetZ(n, v))
<1> DEFINE b == (v = 0)
<1>1. b \in BOOLEAN
  OBVIOUS
<1>2. SetZ(m, v) = [m EXCEPT !.cpu.z = b] /\ SetZ(n, v) = [n EXCEPT !.cpu.z = b]
  BY DEF SetZ
<1> HIDE DEF b
<1> QED BY <1>1, <1>2, RegisterAlike

LEMMA AtAlike ==
  ASSUME NEW m, NEW n, Alike(m, n), NEW op \in ADDR, NEW addr \in Address
  PROVE  Alike(execute_at(m, op, addr), execute_at(n, op, addr))
<1> DEFINE p == execute_at(m, op, addr)
           q == execute_at(n, op, addr)
<1>0. /\ m \in Machines /\ m.cpu.a \in Byte /\ m.cpu.a = n.cpu.a
      /\ m.cpu.hl \in Address /\ m.cpu.hl = n.cpu.hl /\ m.cpu.z = n.cpu.z
      /\ MEMR \in Statuses /\ MEMW \in Statuses
  BY AlikeCpus, CpuFields, StatusTails DEF SameCpu
<1>1. m.cpu.hl % 256 \in Byte /\ m.cpu.hl \div 256 \in Byte
  BY <1>0, BytesOfWord
<1>2. Word(addr + 1) \in Address
  BY OfAddress, WordType
<1>3. CASE op = \h32
  <2>1. p = bus_wr(m, addr, m.cpu.a, MEMW) /\ q = bus_wr(n, addr, n.cpu.a, MEMW)
    BY <1>3 DEF execute_at
  <2> QED BY <1>0, <2>1, WriteAlike
<1>4. CASE op = \h3A
  <2> DEFINE x == umk_peek(m, addr)
  <2>1. /\ p = [bus_rd(m, addr, MEMR) EXCEPT !.cpu.a = x]
        /\ q = [bus_rd(n, addr, MEMR) EXCEPT !.cpu.a = x]
    BY <1>4, PeekAlike DEF execute_at
  <2>2. x \in Byte
    BY <1>0, PeekType
  <2> HIDE DEF x
  <2>3. Alike(bus_rd(m, addr, MEMR), bus_rd(n, addr, MEMR))
    BY <1>0, ReadAlike
  <2> QED BY <2>1, <2>2, <2>3, RegisterAlike
<1>5. CASE op = \h22
  <2>1. /\ p = bus_wr(bus_wr(m, addr, m.cpu.hl % 256, MEMW), Word(addr + 1), m.cpu.hl \div 256, MEMW)
        /\ q = bus_wr(bus_wr(n, addr, m.cpu.hl % 256, MEMW), Word(addr + 1), m.cpu.hl \div 256, MEMW)
    BY <1>0, <1>5 DEF execute_at
  <2> QED BY <1>0, <1>1, <1>2, <2>1, WriteAlike
<1>6. CASE op = \h2A
  <2> DEFINE x == umk_peek(m, addr) + 256 * umk_peek(m, Word(addr + 1))
             r == bus_rd(bus_rd(m, addr, MEMR), Word(addr + 1), MEMR)
             s == bus_rd(bus_rd(n, addr, MEMR), Word(addr + 1), MEMR)
  <2>1. p = [r EXCEPT !.cpu.hl = x] /\ q = [s EXCEPT !.cpu.hl = x]
    BY <1>6, PeekAlike DEF execute_at
  <2>2. x \in Address
    BY <1>0, <1>2, PeekType, WordOfBytes
  <2> HIDE DEF x
  <2>3. Alike(r, s)
    BY <1>0, <1>2, ReadAlike
  <2> HIDE DEF r, s
  <2> QED BY <2>1, <2>2, <2>3, RegisterAlike
<1>7. CASE op = \hC3
  <2>1. p = Goto(m, addr) /\ q = Goto(n, addr)
    BY <1>7 DEF execute_at
  <2> QED BY <2>1, GotoAlike
<1>8. CASE op = \hC2
  <2>1. p = (IF m.cpu.z THEN m ELSE Goto(m, addr)) /\ q = (IF m.cpu.z THEN n ELSE Goto(n, addr))
    BY <1>0, <1>8 DEF execute_at
  <2> QED BY <2>1, GotoAlike
<1>9. CASE op = \hCD
  <2>1. p = Call(m, addr) /\ q = Call(n, addr)
    BY <1>9 DEF execute_at
  <2> QED BY <2>1, CallAlike
<1>10. CASE op = \hCC
  <2>1. p = (IF m.cpu.z THEN Call(m, addr) ELSE m) /\ q = (IF m.cpu.z THEN Call(n, addr) ELSE n)
    BY <1>0, <1>10 DEF execute_at
  <2> QED BY <2>1, CallAlike
<1> QED BY <1>3, <1>4, <1>5, <1>6, <1>7, <1>8, <1>9, <1>10 DEF ADDR

LEMMA AddressRead ==
  ASSUME NEW m, NEW op \in ADDR
  PROVE  execute(m, op) = execute_at(fetch16(m), op, Imm16(m))
BY SMTT(30) DEF execute, ADDR

LEMMA OnlyRegisters ==
  ASSUME NEW m, NEW op,
         op \notin ADDR \cup {\h3D, \h3E, \h21, \h31, \h77, \h34}
                       \cup {\hC9, \hC8, \hFF, \hF5, \hE1, \hE3} \cup {\hF3, \hFB, \h76},
         op # \hDB, op # \hD3
  PROVE  execute(m, op) = m
<1>1. op \notin ADDR
  OBVIOUS
<1>2. /\ op # \h3D /\ op # \h3E /\ op # \h21 /\ op # \h31 /\ op # \h77 /\ op # \h34
      /\ op # \hC9 /\ op # \hC8 /\ op # \hFF /\ op # \hF5 /\ op # \hE1 /\ op # \hE3
      /\ op # \hF3 /\ op # \hFB /\ op # \h76
  OBVIOUS
<1> QED BY <1>1, <1>2 DEF execute

LEMMA MemoryAlike ==
  ASSUME NEW m, NEW n, Alike(m, n),
         NEW op \in ADDR \cup {\h3D, \h3E, \h21, \h31, \h77, \h34}
  PROVE  Alike(execute(m, op), execute(n, op))
<1> DEFINE p == execute(m, op)
           q == execute(n, op)
<1>0. /\ m \in Machines /\ n \in Machines /\ m.cpu.a \in Byte /\ m.cpu.a = n.cpu.a
      /\ m.cpu.hl \in Address /\ m.cpu.hl = n.cpu.hl
      /\ MEMR \in Statuses /\ MEMW \in Statuses
  BY AlikeCpus, CpuFields, StatusTails DEF SameCpu
<1>1. CASE op \in ADDR
  <2>1. p = execute_at(fetch16(m), op, Imm16(m)) /\ q = execute_at(fetch16(n), op, Imm16(n))
    BY <1>1, AddressRead
  <2>2. Alike(fetch16(m), fetch16(n)) /\ Imm16(m) = Imm16(n) /\ Imm16(m) \in Address
    BY <1>0, Fetch16Alike, Fetch16
  <2> QED BY <1>1, <2>1, <2>2, AtAlike
<1>2. CASE op = \h3D
  <2> DEFINE v == Decremented(m.cpu.a)
  <2>1. p = SetZ([m EXCEPT !.cpu.a = v], v) /\ q = SetZ([n EXCEPT !.cpu.a = v], v)
    BY <1>0, <1>2 DEF execute, ADDR
  <2>2. v \in Byte
    BY <1>0, CountedType
  <2> HIDE DEF v
  <2> QED BY <2>1, <2>2, RegisterAlike, FlagAlike
<1>3. CASE op = \h3E
  <2>1. p = [fetch8(m) EXCEPT !.cpu.a = Imm8(m)] /\ q = [fetch8(n) EXCEPT !.cpu.a = Imm8(n)]
    BY <1>3 DEF execute, ADDR
  <2> QED BY <1>0, <2>1, Fetch8, Fetch8Alike, RegisterAlike
<1>4. CASE op = \h21
  <2>1. p = [fetch16(m) EXCEPT !.cpu.hl = Imm16(m)] /\ q = [fetch16(n) EXCEPT !.cpu.hl = Imm16(n)]
    BY <1>4 DEF execute, ADDR
  <2> QED BY <1>0, <2>1, Fetch16, Fetch16Alike, RegisterAlike
<1>5. CASE op = \h31
  <2>1. p = [fetch16(m) EXCEPT !.cpu.sp = Imm16(m)] /\ q = [fetch16(n) EXCEPT !.cpu.sp = Imm16(n)]
    BY <1>5 DEF execute, ADDR
  <2> QED BY <1>0, <2>1, Fetch16, Fetch16Alike, RegisterAlike
<1>6. CASE op = \h77
  <2>1. p = bus_wr(m, m.cpu.hl, m.cpu.a, MEMW) /\ q = bus_wr(n, m.cpu.hl, m.cpu.a, MEMW)
    BY <1>0, <1>6 DEF execute, ADDR
  <2> QED BY <1>0, <2>1, WriteAlike
<1>7. CASE op = \h34
  <2> DEFINE v == Incremented(umk_peek(m, m.cpu.hl))
  <2>1. /\ p = SetZ(bus_wr(bus_rd(m, m.cpu.hl, MEMR), m.cpu.hl, v, MEMW), v)
        /\ q = SetZ(bus_wr(bus_rd(n, m.cpu.hl, MEMR), m.cpu.hl, v, MEMW), v)
    BY <1>0, <1>7, PeekAlike DEF execute, ADDR
  <2>2. v \in Byte
    BY <1>0, PeekType, CountedType
  <2> HIDE DEF v
  <2> QED BY <1>0, <2>1, <2>2, ReadAlike, WriteAlike, FlagAlike
<1> QED BY <1>1, <1>2, <1>3, <1>4, <1>5, <1>6, <1>7

LEMMA StackAlike ==
  ASSUME NEW m, NEW n, Alike(m, n),
         NEW op \in {\hC9, \hC8, \hFF, \hF5, \hE1, \hE3}
  PROVE  Alike(execute(m, op), execute(n, op))
<1> DEFINE p == execute(m, op)
           q == execute(n, op)
<1>0. /\ m \in Machines /\ n \in Machines /\ m.cpu \in Cpus /\ SameCpu(m.cpu, n.cpu)
      /\ m.cpu.hl \in Address /\ m.cpu.hl = n.cpu.hl /\ m.cpu.z = n.cpu.z
  BY AlikeCpus, CpuFields DEF SameCpu
<1>1. CASE op = \hC9
  <2>1. p = Goto(pop16(m), Top16(m)) /\ q = Goto(pop16(n), Top16(n))
    BY <1>1 DEF execute, ADDR
  <2> QED BY <2>1, ReturnAlike
<1>2. CASE op = \hC8
  <2>1. /\ p = (IF m.cpu.z THEN Goto(pop16(m), Top16(m)) ELSE m)
        /\ q = (IF m.cpu.z THEN Goto(pop16(n), Top16(n)) ELSE n)
    BY <1>0, <1>2 DEF execute, ADDR
  <2> QED BY <2>1, ReturnAlike
<1>3. CASE op = \hFF
  <2>1. p = Call(m, \h38) /\ q = Call(n, \h38)
    BY <1>3 DEF execute, ADDR
  <2>2. \h38 \in Address
    BY InAddress
  <2> QED BY <2>1, <2>2, CallAlike
<1>4. CASE op = \hF5
  <2>1. p = push16(m, PSW(m.cpu)) /\ q = push16(n, PSW(n.cpu))
    BY <1>4 DEF execute, ADDR
  <2>2. PSW(n.cpu) = PSW(m.cpu) /\ PSW(m.cpu) \in Address
    BY <1>0, PswType DEF PSW, SameCpu
  <2> QED BY <2>1, <2>2, PushAlike
<1>5. CASE op = \hE1
  <2>1. p = [pop16(m) EXCEPT !.cpu.hl = Top16(m)] /\ q = [pop16(n) EXCEPT !.cpu.hl = Top16(n)]
    BY <1>5 DEF execute, ADDR
  <2> QED BY <1>0, <2>1, Pop16, PopAlike, RegisterAlike
<1>6. CASE op = \hE3
  <2>1. /\ p = [push16(pop16(m), m.cpu.hl) EXCEPT !.cpu.hl = Top16(m)]
        /\ q = [push16(pop16(n), m.cpu.hl) EXCEPT !.cpu.hl = Top16(n)]
    BY <1>0, <1>6 DEF execute, ADDR
  <2>2. Alike(pop16(m), pop16(n)) /\ Top16(m) = Top16(n) /\ Top16(m) \in Address
    BY <1>0, PopAlike, Pop16
  <2>3. Alike(push16(pop16(m), m.cpu.hl), push16(pop16(n), m.cpu.hl))
    BY <1>0, <2>2, PushAlike
  <2> QED BY <2>1, <2>2, <2>3, RegisterAlike
<1> QED BY <1>1, <1>2, <1>3, <1>4, <1>5, <1>6

(* EI, DI and HLT. *)
LEMMA ControlAlike ==
  ASSUME NEW m, NEW n, Alike(m, n), NEW op \in {\hF3, \hFB, \h76}
  PROVE  Alike(execute(m, op), execute(n, op))
<1>0. m.cpu \in Cpus /\ n.cpu \in Cpus /\ SameCpu(m.cpu, n.cpu)
  BY AlikeCpus
<1>1. CASE op = \hF3
  <2> DEFINE c == [m.cpu EXCEPT !.inte = FALSE, !.int_delay = 0]
             d == [n.cpu EXCEPT !.inte = FALSE, !.int_delay = 0]
  <2>1. execute(m, op) = [m EXCEPT !.cpu = c] /\ execute(n, op) = [n EXCEPT !.cpu = d]
    BY <1>1 DEF execute, ADDR
  <2>2. c \in Cpus /\ d \in Cpus /\ SameCpu(c, d)
    BY <1>0 DEF Cpus, SameCpu
  <2> HIDE DEF c, d
  <2> QED BY <2>1, <2>2, CpuAlike
<1>2. CASE op = \hFB
  <2> DEFINE c == [m.cpu EXCEPT !.inte = TRUE, !.int_delay = 1]
             d == [n.cpu EXCEPT !.inte = TRUE, !.int_delay = 1]
  <2>1. execute(m, op) = [m EXCEPT !.cpu = c] /\ execute(n, op) = [n EXCEPT !.cpu = d]
    BY <1>2 DEF execute, ADDR
  <2>2. c \in Cpus /\ d \in Cpus /\ SameCpu(c, d)
    BY <1>0 DEF Cpus, SameCpu
  <2> HIDE DEF c, d
  <2> QED BY <2>1, <2>2, CpuAlike
<1>3. CASE op = \h76
  <2> DEFINE c == [m.cpu EXCEPT !.halted = TRUE]
             d == [n.cpu EXCEPT !.halted = TRUE]
  <2>1. execute(m, op) = [m EXCEPT !.cpu = c] /\ execute(n, op) = [n EXCEPT !.cpu = d]
    BY <1>3 DEF execute, ADDR
  <2>2. c \in Cpus /\ d \in Cpus /\ SameCpu(c, d)
    BY <1>0 DEF Cpus, SameCpu
  <2> HIDE DEF c, d
  <2> QED BY <2>1, <2>2, CpuAlike
<1> QED BY <1>1, <1>2, <1>3

LEMMA ExecuteAlike ==
  ASSUME NEW m, NEW n, Alike(m, n), NEW op \in Byte, op = \hDB => m.kbd = n.kbd
  PROVE  Alike(execute(m, op), execute(n, op))
<1> DEFINE Known == ADDR \cup {\h3D, \h3E, \h21, \h31, \h77, \h34}
                         \cup {\hC9, \hC8, \hFF, \hF5, \hE1, \hE3} \cup {\hF3, \hFB, \h76}
<1>0. m \in Machines /\ n \in Machines /\ m.cpu.a \in Byte /\ m.cpu.a = n.cpu.a
  BY AlikeCpus, CpuFields DEF SameCpu
<1>1. CASE op \in Known
  BY <1>1, MemoryAlike, StackAlike, ControlAlike
<1>2. CASE op = \hDB
  <2> DEFINE p == fetch8(m)
             q == fetch8(n)
             x == bus_in(m, Imm8(m))
  <2>1. Imm8(m) = Imm8(n) /\ Imm8(m) \in Byte /\ bus_in(m, Imm8(m)) = bus_in(n, Imm8(m))
    BY <1>0, <1>2, Fetch8, Fetch8Alike, PortAlike
  <2>2. /\ execute(m, op) = [in_cycle(p, Imm8(m)) EXCEPT !.cpu.a = x]
        /\ execute(n, op) = [in_cycle(q, Imm8(m)) EXCEPT !.cpu.a = x]
    BY <1>2, <2>1 DEF execute, ADDR
  <2>3. x \in Byte
    BY <1>0, PortRead
  <2>4. Alike(p, q)
    BY Fetch8Alike
  <2>5. p.kbd = q.kbd
    <3>1. p.kbd = m.kbd /\ q.kbd = n.kbd
      BY <1>0, Fetch8 DEF Bus, Runs, Keeps
    <3> QED BY <1>2, <3>1
  <2> HIDE DEF p, q, x
  <2>6. Alike(in_cycle(p, Imm8(m)), in_cycle(q, Imm8(m)))
    BY <2>1, <2>4, <2>5, InCycleAlike
  <2> QED BY <2>2, <2>3, <2>6, RegisterAlike
<1>3. CASE op = \hD3
  <2>1. /\ execute(m, op) = out_cycle(fetch8(m), Imm8(m), m.cpu.a)
        /\ execute(n, op) = out_cycle(fetch8(n), Imm8(n), n.cpu.a)
    BY <1>3 DEF execute, ADDR
  <2>2. Imm8(m) = Imm8(n) /\ Imm8(m) \in Byte /\ Alike(fetch8(m), fetch8(n))
    BY <1>0, Fetch8, Fetch8Alike
  <2> QED BY <1>0, <2>1, <2>2, OutCycleAlike
<1>4. CASE op \notin Known /\ op # \hDB /\ op # \hD3
  <2>1. execute(m, op) = m /\ execute(n, op) = n
    BY <1>4, OnlyRegisters
  <2> QED BY <2>1
<1> QED BY <1>1, <1>2, <1>3, <1>4

(* An IN, whatever the keys. *)
LEMMA InAlike ==
  ASSUME NEW m, NEW n, Alike(m, n)
  PROVE  SameButLast(execute(m, \hDB).cpu.mc, execute(n, \hDB).cpu.mc)
<1> DEFINE p == fetch8(m)
           q == fetch8(n)
           r == in_cycle(p, Imm8(m))
           s == in_cycle(q, Imm8(m))
           x == bus_in(m, Imm8(m))
           y == bus_in(n, Imm8(m))
<1>0. m \in Machines /\ n \in Machines
  BY AlikeCpus
<1>1. Imm8(m) = Imm8(n) /\ Imm8(m) \in Byte /\ Alike(p, q)
  BY <1>0, Fetch8, Fetch8Alike
<1>2. /\ execute(m, \hDB) = [r EXCEPT !.cpu.a = x]
      /\ execute(n, \hDB) = [s EXCEPT !.cpu.a = y]
  BY <1>1 DEF execute, ADDR
<1>3. p \in Machines /\ q \in Machines /\ p.cpu.mc = q.cpu.mc /\ p.cpu.mc \in Seq(Cycle)
  BY <1>1, AlikeCpus, CpuFields DEF SameCpu
<1>4. bus_in(p, Imm8(m)) \in Byte /\ bus_in(q, Imm8(m)) \in Byte
  BY <1>3, PortRead
<1> HIDE DEF p, q, x, y
<1>5. SameButLast(r.cpu.mc, s.cpu.mc)
  BY <1>1, <1>3, <1>4, StatusTails, PortAddress, LastLogged DEF in_cycle
<1>6. r \in Machines /\ s \in Machines
  BY <1>1, <1>3, InCycle, BusTypes
<1> HIDE DEF r, s
<1>7. /\ r.cpu \in Cpus /\ s.cpu \in Cpus
  BY <1>6, Fields
<1>8. [r EXCEPT !.cpu.a = x].cpu.mc = r.cpu.mc /\ [s EXCEPT !.cpu.a = y].cpu.mc = s.cpu.mc
  BY <1>6, <1>7 DEF Machines, Cpus
<1> QED BY <1>2, <1>5, <1>8

-----------------------------------------------------------------------------
(* A step of the CPU: twins stay twins when the keys are the same, and show  *)
(* the same cycles but for the last one's data when they are not.            *)
Follows(m, n, p, q) ==
  /\ m.kbd = n.kbd => Alike(p, q)
  /\ SameButLast(p.cpu.mc, q.cpu.mc)

LEMMA AlikeFollows ==
  ASSUME NEW m, NEW n, NEW p, NEW q, Alike(p, q)
  PROVE  Follows(m, n, p, q)
<1>1. p.cpu.mc = q.cpu.mc
  BY DEF Alike, SameCpu
<1> QED BY <1>1, SameTraces DEF Follows

LEMMA SpendAlike ==
  ASSUME NEW m, NEW n, Alike(m, n), NEW k \in Nat
  PROVE  Alike(Spend(m, k), Spend(n, k))
<1> DEFINE t == m.cpu.cycles + k
           c == [m.cpu EXCEPT !.cycles = t]
           d == [n.cpu EXCEPT !.cycles = t]
<1>1. /\ m.cpu \in Cpus /\ n.cpu \in Cpus /\ SameCpu(m.cpu, n.cpu)
      /\ m.cpu.cycles \in Nat /\ n.cpu.cycles = m.cpu.cycles
  BY AlikeCpus, CpuFields DEF SameCpu
<1>2. Spend(m, k) = [m EXCEPT !.cpu = c] /\ Spend(n, k) = [n EXCEPT !.cpu = d]
  BY <1>1 DEF Spend
<1>3. t \in Nat
  BY <1>1
<1> HIDE DEF t
<1>4. c \in Cpus /\ d \in Cpus /\ SameCpu(c, d)
  BY <1>1, <1>3 DEF Cpus, SameCpu
<1> HIDE DEF c, d
<1> QED BY <1>2, <1>4, CpuAlike

LEMMA SpentTrace ==
  ASSUME NEW m \in Machines, NEW k \in Nat
  PROVE  Spend(m, k) \in Machines /\ Spend(m, k).cpu.mc = m.cpu.mc
BY Spent DEF SameFrame

LEMMA ExecuteFollows ==
  ASSUME NEW m, NEW n, Alike(m, n), NEW op \in Byte
  PROVE  Follows(m, n, execute(m, op), execute(n, op))
<1>1. CASE op = \hDB
  <2>1. m.kbd = n.kbd => Alike(execute(m, op), execute(n, op))
    BY ExecuteAlike
  <2> QED BY <1>1, <2>1, InAlike DEF Follows
<1>2. CASE op # \hDB
  BY <1>2, ExecuteAlike, AlikeFollows
<1> QED BY <1>1, <1>2

LEMMA FinishFollows ==
  ASSUME NEW m, NEW n, Alike(m, n), NEW op \in Byte
  PROVE  /\ Follows(m, n, Finish(m, op), Finish(n, op))
         /\ Finish(m, op) \in Machines /\ Finish(n, op) \in Machines
<1> DEFINE p == execute(m, op)
           q == execute(n, op)
           k == CYCLES(m, op)
<1>0. m \in Machines /\ n \in Machines /\ m.cpu.z = n.cpu.z
  BY DEF Alike, SameCpu
<1>1. k \in Nat /\ CYCLES(n, op) = k
  BY <1>0, CyclesBounds DEF CYCLES
<1>2. Finish(m, op) = Spend(p, k) /\ Finish(n, op) = Spend(q, k)
  BY <1>1 DEF Finish
<1>3. p \in Machines /\ q \in Machines
  BY <1>0, Execution DEF Runs, Keeps
<1>4. Follows(m, n, p, q)
  BY ExecuteFollows
<1> HIDE DEF p, q, k
<1>5. m.kbd = n.kbd => Alike(Spend(p, k), Spend(q, k))
  BY <1>1, <1>4, SpendAlike DEF Follows
<1>6. SameButLast(Spend(p, k).cpu.mc, Spend(q, k).cpu.mc)
  BY <1>1, <1>3, <1>4, SpentTrace DEF Follows
<1> QED BY <1>1, <1>2, <1>3, <1>5, <1>6, SpentTrace DEF Follows

LEMMA GracedTrace ==
  ASSUME NEW m \in Machines, NEW before \in {0, 1}
  PROVE  Graced(m, before).cpu.mc = m.cpu.mc
<1>1. CASE before > 0 /\ m.cpu.int_delay = before
  <2> DEFINE d == [m.cpu EXCEPT !.int_delay = m.cpu.int_delay - 1]
  <2>1. Graced(m, before) = [m EXCEPT !.cpu = d]
    BY <1>1 DEF Graced
  <2>2. d.mc = m.cpu.mc
    BY Fields DEF Cpus
  <2> HIDE DEF d
  <2> QED BY <2>1, <2>2 DEF Machines
<1>2. CASE ~(before > 0 /\ m.cpu.int_delay = before)
  BY <1>2 DEF Graced
<1> QED BY <1>1, <1>2

LEMMA GracedAlike ==
  ASSUME NEW m, NEW n, Alike(m, n), NEW before \in {0, 1}
  PROVE  Alike(Graced(m, before), Graced(n, before))
<1>0. /\ m.cpu \in Cpus /\ n.cpu \in Cpus /\ SameCpu(m.cpu, n.cpu)
      /\ m.cpu.int_delay = n.cpu.int_delay
  BY AlikeCpus DEF SameCpu
<1>1. CASE before > 0 /\ m.cpu.int_delay = before
  <2> DEFINE v == m.cpu.int_delay - 1
             c == [m.cpu EXCEPT !.int_delay = v]
             d == [n.cpu EXCEPT !.int_delay = v]
  <2>1. Graced(m, before) = [m EXCEPT !.cpu = c] /\ Graced(n, before) = [n EXCEPT !.cpu = d]
    BY <1>0, <1>1 DEF Graced
  <2>2. v \in {0, 1}
    BY <1>1
  <2> HIDE DEF v
  <2>3. c \in Cpus /\ d \in Cpus /\ SameCpu(c, d)
    BY <1>0, <2>2 DEF Cpus, SameCpu
  <2> HIDE DEF c, d
  <2> QED BY <2>1, <2>3, CpuAlike
<1>2. CASE ~(before > 0 /\ m.cpu.int_delay = before)
  BY <1>0, <1>2 DEF Graced
<1> QED BY <1>1, <1>2

LEMMA OpcodeAlike ==
  ASSUME NEW m, NEW n, Alike(m, n)
  PROVE  /\ Alike(fetch_opcode(m), fetch_opcode(n))
         /\ fetch_opcode(m).kbd = m.kbd /\ fetch_opcode(n).kbd = n.kbd
<1> DEFINE p == bus_rd(m, m.cpu.pc, FETCH)
           q == bus_rd(n, m.cpu.pc, FETCH)
<1>0. /\ m \in Machines /\ n \in Machines
      /\ m.cpu.pc \in Address /\ m.cpu.pc = n.cpu.pc /\ FETCH \in Statuses
  BY AlikeCpus, CpuFields, StatusTails DEF SameCpu
<1>1. Alike(p, q)
  BY <1>0, ReadAlike
<1>2. p.kbd = m.kbd /\ q.kbd = n.kbd
  BY <1>0, BusRead DEF Bus, Runs, Keeps
<1>3. fetch_opcode(m) = [p EXCEPT !.cpu.pc = Word(p.cpu.pc + 1)]
  BY DEF fetch_opcode
<1>4. fetch_opcode(n) = [q EXCEPT !.cpu.pc = Word(q.cpu.pc + 1)]
  BY <1>0 DEF fetch_opcode
<1> HIDE DEF p, q
<1>5. p \in Machines /\ q \in Machines /\ p.cpu.pc = q.cpu.pc /\ p.cpu.pc \in Address
  BY <1>1, AlikeCpus, CpuFields DEF SameCpu
<1> DEFINE v == Word(p.cpu.pc + 1)
<1>6. v \in Address
  BY <1>5, OfAddress, WordType
<1>7. fetch_opcode(m) = [p EXCEPT !.cpu.pc = v] /\ fetch_opcode(n) = [q EXCEPT !.cpu.pc = v]
  BY <1>3, <1>4, <1>5
<1> HIDE DEF v
<1>8. fetch_opcode(m).kbd = p.kbd /\ fetch_opcode(n).kbd = q.kbd
  BY <1>5, <1>7 DEF Machines
<1> QED BY <1>1, <1>2, <1>6, <1>7, <1>8, RegisterAlike

LEMMA InstructionFollows ==
  ASSUME NEW m, NEW n, Alike(m, n)
  PROVE  Follows(m, n, instruction(m), instruction(n))
<1> DEFINE op == umk_peek(m, m.cpu.pc)
           p  == Finish(fetch_opcode(m), op)
           q  == Finish(fetch_opcode(n), op)
           b  == m.cpu.int_delay
<1>0. m \in Machines /\ b \in {0, 1} /\ n.cpu.int_delay = b /\ m.cpu.pc = n.cpu.pc /\ m.cpu.pc \in Address
  BY AlikeCpus, CpuFields DEF SameCpu
<1>1. op \in Byte /\ umk_peek(n, n.cpu.pc) = op
  BY <1>0, PeekType, PeekAlike
<1>2. instruction(m) = Graced(p, b) /\ instruction(n) = Graced(q, b)
  BY <1>0, <1>1 DEF instruction
<1> HIDE DEF op, b
<1>3. /\ Follows(fetch_opcode(m), fetch_opcode(n), p, q)
      /\ p \in Machines /\ q \in Machines
  BY <1>1, OpcodeAlike, FinishFollows
<1>4. Follows(m, n, p, q)
  BY <1>3, OpcodeAlike DEF Follows
<1> HIDE DEF p, q
<1>5. m.kbd = n.kbd => Alike(Graced(p, b), Graced(q, b))
  BY <1>0, <1>4, GracedAlike DEF Follows
<1>6. SameButLast(Graced(p, b).cpu.mc, Graced(q, b).cpu.mc)
  BY <1>0, <1>3, <1>4, GracedTrace DEF Follows
<1> QED BY <1>2, <1>5, <1>6 DEF Follows

LEMMA HaltAlike ==
  ASSUME NEW m, NEW n, Alike(m, n)
  PROVE  Alike(halt_cycle(m), halt_cycle(n))
<1>1. m.cpu.pc \in Address /\ m.cpu.pc = n.cpu.pc /\ HALTA \in Statuses /\ 0 \in Byte
  BY AlikeCpus, CpuFields, StatusTails, InByte DEF SameCpu
<1>2. Alike(mc_log(m, HALTA, m.cpu.pc, 0), mc_log(n, HALTA, n.cpu.pc, 0))
  BY <1>1, LogAlike
<1> QED BY <1>2, SpendAlike DEF halt_cycle

LEMMA AcknowledgeFollows ==
  ASSUME NEW m, NEW n, Alike(m, n), m.cpu.int_vector = n.cpu.int_vector
  PROVE  Follows(m, n, acknowledge(m), acknowledge(n))
<1> DEFINE st == IF m.cpu.halted THEN INTA_HALT ELSE INTA
           op == m.cpu.int_vector
           c  == [m.cpu EXCEPT !.int_pending = FALSE, !.inte = FALSE, !.halted = FALSE]
           d  == [n.cpu EXCEPT !.int_pending = FALSE, !.inte = FALSE, !.halted = FALSE]
           p  == [m EXCEPT !.cpu = c]
           q  == [n EXCEPT !.cpu = d]
           x  == mc_log(p, st, m.cpu.pc, op)
           y  == mc_log(q, st, m.cpu.pc, op)
<1>0. /\ m \in Machines /\ n \in Machines
      /\ m.cpu \in Cpus /\ n.cpu \in Cpus /\ SameCpu(m.cpu, n.cpu)
      /\ m.cpu.pc \in Address /\ m.cpu.pc = n.cpu.pc /\ m.cpu.halted = n.cpu.halted
      /\ op \in Byte
  BY AlikeCpus, CpuFields DEF SameCpu
<1>1. st \in Statuses
  BY StatusTails
<1>2. acknowledge(m) = Finish(x, op) /\ acknowledge(n) = Finish(y, op)
  <2>1. acknowledge(m) = Finish(x, op)
    BY DEF acknowledge
  <2>2. /\ st = IF n.cpu.halted THEN INTA_HALT ELSE INTA
        /\ op = n.cpu.int_vector /\ m.cpu.pc = n.cpu.pc
    BY <1>0
  <2> HIDE DEF st, op
  <2>3. acknowledge(n) = Finish(y, op)
    BY <2>2 DEF acknowledge
  <2> QED BY <2>1, <2>3
<1>3. c \in Cpus /\ d \in Cpus /\ SameCpu(c, d)
  BY <1>0 DEF Cpus, SameCpu
<1> HIDE DEF c, d, st, op
<1>4. Alike(p, q)
  BY <1>3, CpuAlike
<1>5. p.kbd = m.kbd /\ q.kbd = n.kbd /\ p \in Machines /\ q \in Machines
  BY <1>0, <1>3 DEF Machines
<1> HIDE DEF p, q
<1>6. Alike(x, y)
  BY <1>0, <1>1, <1>4, LogAlike
<1>7. x.kbd = p.kbd /\ y.kbd = q.kbd
  <2>1. Bus(p, x, <<st>>) /\ Bus(q, y, <<st>>)
    BY <1>0, <1>1, <1>5, Logged
  <2> QED BY <2>1 DEF Bus, Runs, Keeps
<1> HIDE DEF x, y
<1>8. Follows(x, y, Finish(x, op), Finish(y, op))
  BY <1>0, <1>6, FinishFollows
<1> QED BY <1>2, <1>5, <1>7, <1>8 DEF Follows

(* Both acknowledge the same request, or neither does. *)
SameRequest(c, d) ==
  /\ CanAcknowledge(c) <=> CanAcknowledge(d)
  /\ CanAcknowledge(c) => c.int_vector = d.int_vector

LEMMA CpuStepFollows ==
  ASSUME NEW m, NEW n, Alike(m, n), SameRequest(m.cpu, n.cpu)
  PROVE  Follows(m, n, CpuStep(m), CpuStep(n))
<1>0. m.cpu.halted = n.cpu.halted
  BY DEF Alike, SameCpu
<1>1. CASE CanAcknowledge(m.cpu)
  <2>1. CpuStep(m) = acknowledge(m) /\ CpuStep(n) = acknowledge(n)
    BY <1>1 DEF CpuStep, SameRequest
  <2> QED BY <1>1, <2>1, AcknowledgeFollows DEF SameRequest
<1>2. CASE ~CanAcknowledge(m.cpu) /\ m.cpu.halted
  <2>1. CpuStep(m) = halt_cycle(m) /\ CpuStep(n) = halt_cycle(n)
    BY <1>0, <1>2 DEF CpuStep, SameRequest
  <2> QED BY <2>1, HaltAlike, AlikeFollows
<1>3. CASE ~CanAcknowledge(m.cpu) /\ ~m.cpu.halted
  <2>1. CpuStep(m) = instruction(m) /\ CpuStep(n) = instruction(n)
    BY <1>0, <1>3 DEF CpuStep, SameRequest
  <2> QED BY <2>1, InstructionFollows
<1> QED BY <1>1, <1>2, <1>3

LEMMA StartedAlike ==
  ASSUME NEW m, NEW n, Alike(m, n)
  PROVE  /\ Alike(Started(m), Started(n))
         /\ SameRequest(m.cpu, n.cpu) => SameRequest(Started(m).cpu, Started(n).cpu)
<1> DEFINE p == Started(m)  q == Started(n)
<1>0. m \in Machines /\ n \in Machines
  BY AlikeCpus
<1>1. /\ p \in Machines
      /\ p.cpu = [m.cpu EXCEPT !.mc = << >>]
      /\ p.step_start_cycles = m.cpu.cycles
      /\ p.rom = m.rom /\ p.ram = m.ram /\ p.ppi = m.ppi
      /\ p.integrated_to = m.integrated_to /\ p.step = m.step
      /\ p.cpu.inte = m.cpu.inte /\ p.cpu.int_pending = m.cpu.int_pending
      /\ p.cpu.int_vector = m.cpu.int_vector /\ p.cpu.int_delay = m.cpu.int_delay
  BY <1>0, ClockStarted
<1>2. /\ q \in Machines
      /\ q.cpu = [n.cpu EXCEPT !.mc = << >>]
      /\ q.step_start_cycles = n.cpu.cycles
      /\ q.rom = n.rom /\ q.ram = n.ram /\ q.ppi = n.ppi
      /\ q.integrated_to = n.integrated_to /\ q.step = n.step
      /\ q.cpu.inte = n.cpu.inte /\ q.cpu.int_pending = n.cpu.int_pending
      /\ q.cpu.int_vector = n.cpu.int_vector /\ q.cpu.int_delay = n.cpu.int_delay
  BY <1>0, ClockStarted
<1>3. p.unmapped_io_writes = m.unmapped_io_writes /\ q.unmapped_io_writes = n.unmapped_io_writes
  BY <1>0 DEF Started, Machines
<1> HIDE DEF p, q
<1>4. m.cpu \in Cpus /\ n.cpu \in Cpus /\ SameCpu(m.cpu, n.cpu)
  BY AlikeCpus
<1>5. SameCpu([m.cpu EXCEPT !.mc = << >>], [n.cpu EXCEPT !.mc = << >>])
  BY <1>4 DEF Cpus, SameCpu
<1>6. SameCpu(p.cpu, q.cpu)
  BY <1>1, <1>2, <1>5
<1>7. m.cpu.cycles = n.cpu.cycles
  BY <1>4 DEF SameCpu
<1>8. Alike(p, q)
  BY <1>1, <1>2, <1>3, <1>6, <1>7 DEF Alike
<1>9. SameRequest(m.cpu, n.cpu) => SameRequest(p.cpu, q.cpu)
  BY <1>1, <1>2 DEF SameRequest, CanAcknowledge
<1> QED BY <1>8, <1>9 DEF p, q

LEMMA IntegratedCpu ==
  ASSUME NEW m \in Machines
  PROVE  Integrated(m).cpu = m.cpu
<1> DEFINE t == m.cpu.cycles
<1>1. Integrated(m) = m \/ Integrated(m) = [m EXCEPT !.integrated_to = t]
  BY DEF Integrated, display_advance
<1> HIDE DEF t
<1>2. [m EXCEPT !.integrated_to = t].cpu = m.cpu
  BY DEF Machines
<1> QED BY <1>1, <1>2

(* What a step cannot depend on. *)
LEMMA StepType ==
  ASSUME NEW m \in Machines
  PROVE  Started(m) \in Machines /\ Started(m).kbd = m.kbd /\ CpuStep(Started(m)) \in Machines
<1>1. \A d : d = Started(m) => d \in Machines /\ d.kbd = m.kbd /\ d.cpu.mc = << >>
  BY ClockStarted
<1> DEFINE c == Started(m)
           d == CpuStep(c)
<1>2. c \in Machines /\ c.cpu.mc = << >> /\ d = CpuStep(c)
  BY <1>1
<1> HIDE DEF c, d
<1>3. PICK u \in StatusSeq : /\ Stepped(c, d, u) /\ Len(u) \in 1 .. 5
                             /\ u[1] = Announced(c.cpu)
                             /\ Announced(c.cpu) = HALTA => Len(u) = 1
  BY <1>2, CpuStepped DEF d
<1>4. d \in Machines
  BY <1>3 DEF Stepped, SameFrame
<1> QED BY <1>1, <1>4 DEF c, d

LEMMA ExecFollows ==
  ASSUME NEW m, NEW n, Alike(m, n), SameRequest(m.cpu, n.cpu)
  PROVE  Follows(m, n, exec_one(m), exec_one(n))
<1> DEFINE r == CpuStep(Started(m))
           s == CpuStep(Started(n))
<1>1. Alike(Started(m), Started(n)) /\ SameRequest(Started(m).cpu, Started(n).cpu)
  BY StartedAlike
<1>2. Follows(Started(m), Started(n), r, s)
  BY <1>1, CpuStepFollows
<1>3. exec_one(m) = Integrated(r) /\ exec_one(n) = Integrated(s)
  BY ExecSteps
<1>4. /\ Started(m).kbd = m.kbd /\ Started(n).kbd = n.kbd
      /\ r \in Machines /\ s \in Machines
  BY AlikeCpus, StepType
<1> HIDE DEF r, s
<1>5. SameButLast(Integrated(r).cpu.mc, Integrated(s).cpu.mc)
  BY <1>2, <1>4, IntegratedCpu DEF Follows
<1>6. ASSUME m.kbd = n.kbd PROVE Alike(Integrated(r), Integrated(s))
  <2>1. Alike(r, s)
    BY <1>2, <1>4, <1>6 DEF Follows
  <2>2. r.cpu.cycles = s.cpu.cycles /\ r.cpu.cycles \in Nat
    BY <2>1, AlikeCpus, CpuFields DEF SameCpu
  <2> QED BY <2>1, <2>2, DisplayAlike DEF Integrated
<1> QED BY <1>3, <1>5, <1>6 DEF Follows

-----------------------------------------------------------------------------
(* A machine is the record of its fields, so `Becomes` gives the next state. *)
LEMMA Gathered ==
  ASSUME NEW m \in Machines
  PROVE  m = [rom |-> m.rom, ram |-> m.ram, cpu |-> m.cpu, ppi |-> m.ppi,
              integrated_to |-> m.integrated_to, panel |-> m.panel, step |-> m.step,
              kbd |-> m.kbd, step_start_cycles |-> m.step_start_cycles,
              unmapped_io_writes |-> m.unmapped_io_writes, trial |-> m.trial]
BY DEF Machines

LEMMA NowIs ==
  ASSUME NEW m \in Machines
  PROVE  /\ PowerOn(m) => Now = m
         /\ Becomes(m) => Now' = m
BY Gathered, Zenon DEF Now, PowerOn, Becomes

LEMMA NowFields ==
  /\ Now.rom = rom /\ Now.ram = ram /\ Now.cpu = cpu /\ Now.ppi = ppi
  /\ Now.integrated_to = integrated_to /\ Now.panel = panel /\ Now.step = step
  /\ Now.kbd = kbd /\ Now.step_start_cycles = step_start_cycles
  /\ Now.unmapped_io_writes = unmapped_io_writes /\ Now.trial = trial
BY DEF Now

-----------------------------------------------------------------------------
(* The invariant of the calls. *)
CallInv == Sound(Now) /\ Latched(Now) /\ resets \in 0 .. MaxResets

LEMMA CallInvInit ==
  ASSUME Init
  PROVE  CallInv
<1>1. PICK image \in Programs, size \in RamSizes :
        PowerOn(umk_load_rom(umk_init(size), 0, image))
  BY DEF Init
<1> DEFINE m == umk_load_rom(umk_init(size), 0, image)
<1>2. Sound(m) /\ Latched(m)
  BY InitSound
<1>3. PowerOn(m)
  BY <1>1
<1> HIDE DEF m
<1>4. Now = m
  BY <1>2, <1>3, NowIs DEF Sound
<1>5. resets = 0 /\ MaxResets \in Nat
  BY <1>3, UmkAssumption DEF PowerOn
<1> QED BY <1>2, <1>4, <1>5 DEF CallInv

LEMMA CallInvStep ==
  ASSUME CallInv, [PanelNext]_vars
  PROVE  CallInv'
<1>0. MaxResets \in Nat /\ resets \in 0 .. MaxResets
  BY UmkAssumption DEF CallInv
<1>1. ASSUME NEW m, Becomes(m), Sound(m), Latched(m), resets' \in 0 .. MaxResets
      PROVE  CallInv'
  <2>1. Now' = m
    BY <1>1, NowIs DEF Sound
  <2> QED BY <1>1, <2>1 DEF CallInv
<1>2. CASE RunCycles
  <2>1. PICK n \in Slices : Becomes(umk_run_cycles(Now, n))
    BY <1>2 DEF RunCycles
  <2>2. n \in Nat
    BY UmkAssumption
  <2>3. Sound(umk_run_cycles(Now, n)) /\ Latched(umk_run_cycles(Now, n))
    BY <2>2, RunSound DEF CallInv
  <2> QED BY <1>0, <1>1, <1>2, <2>1, <2>3 DEF RunCycles
<1>3. CASE PressStep
  <2>1. Sound(umk_press_step(Now)) /\ Latched(umk_press_step(Now))
    BY PressSound DEF CallInv
  <2> QED BY <1>0, <1>1, <1>3, <2>1 DEF PressStep
<1>4. CASE SetSwitch
  <2>1. PICK sw \in {"STEP", "CYCLE"}, on \in BOOLEAN :
          Becomes(umk_set_switch(Now, sw, on)) /\ UNCHANGED resets
    BY <1>4 DEF SetSwitch
  <2>2. Sound(umk_set_switch(Now, sw, on)) /\ Latched(umk_set_switch(Now, sw, on))
    BY SwitchSound DEF CallInv
  <2> QED BY <1>0, <1>1, <2>1, <2>2
<1>5. CASE Reset
  <2>1. Sound(umk_reset(Now)) /\ Latched(umk_reset(Now))
    BY ResetSound DEF CallInv
  <2>2. resets' \in 0 .. MaxResets
    BY <1>0, <1>5 DEF Reset
  <2> QED BY <1>1, <1>5, <2>1, <2>2 DEF Reset
<1>6. CASE Interrupt
  <2>1. Sound(umk_interrupt(Now)) /\ Latched(umk_interrupt(Now))
    BY InterruptSound DEF CallInv
  <2> QED BY <1>0, <1>1, <1>6, <2>1 DEF Interrupt
<1>7. CASE SetKey
  <2>1. PICK k \in Keys, down \in BOOLEAN : Becomes(umk_set_key(Now, k, down)) /\ UNCHANGED resets
    BY <1>7 DEF SetKey
  <2>2. Sound(umk_set_key(Now, k, down)) /\ Latched(umk_set_key(Now, k, down))
    BY KeySound DEF CallInv
  <2> QED BY <1>0, <1>1, <2>1, <2>2
<1>8. CASE UNCHANGED vars
  BY <1>8 DEF vars, CallInv, Now
<1> QED BY <1>2, <1>3, <1>4, <1>5, <1>6, <1>7, <1>8 DEF PanelNext

LEMMA CallInvariant == PanelSpec => []CallInv
<1>1. Init => CallInv
  BY CallInvInit
<1>2. CallInv /\ [PanelNext]_vars => CallInv'
  BY CallInvStep
<1> QED BY <1>1, <1>2, PTL DEF PanelSpec

(* What soundness says of the variables. *)
LEMMA SoundImplies ==
  ASSUME Sound(Now), resets \in 0 .. MaxResets
  PROVE  TypeOK /\ DisplayInSync /\ DryRunFits
<1>1. Now \in Machines
  BY DEF Sound
<1>2. TypeOK
  <2>1. /\ Now.rom \in Roms /\ Now.ram \in Rams /\ Now.cpu \in Cpus /\ Now.ppi \in Ppis
        /\ Now.integrated_to \in Nat /\ Now.panel \in Panels /\ Now.step \in Steps
        /\ Now.kbd \subseteq Keys /\ Now.step_start_cycles \in Nat
        /\ Now.unmapped_io_writes \in Nat
    BY <1>1, Fields
  <2>2. /\ rom \in Roms /\ ram \in Rams /\ cpu \in Cpus /\ ppi \in Ppis
        /\ integrated_to \in Nat /\ panel \in Panels /\ step \in Steps
        /\ kbd \subseteq Keys /\ step_start_cycles \in Nat
        /\ unmapped_io_writes \in Nat /\ trial = NoTrial
    BY <1>1, <2>1, NowFields DEF Sound
  <2>3. \E size \in RamSizes : ram \in [0 .. size - 1 -> Byte]
    BY <2>2 DEF Rams
  <2> QED BY <2>2, <2>3, Zenon DEF TypeOK, Roms, Cpus, Ppis, Panels, Steps
<1>3. DisplayInSync
  BY <1>1, NowFields DEF Sound, DisplayInSync
<1>4. DryRunFits
  <2>1. Now.integrated_to \in Nat
    BY <1>1, Fields
  <2>2. Now.integrated_to <= Now.cpu.cycles
    BY <1>1, <2>1 DEF Sound
  <2>3. FitsTrace(dry_run(Now))
    BY <1>1, <2>2, DryRun
  <2> QED BY <2>3 DEF DryRunFits
<1> QED BY <1>2, <1>3, <1>4

LEMMA CallInvImplies ==
  ASSUME CallInv
  PROVE  TypeOK /\ SequenceInProgress /\ DisplayInSync /\ DryRunFits
<1>1. SequenceInProgress
  BY NowFields DEF CallInv, Sound, Latched, SequenceInProgress
<1> QED BY <1>1, SoundImplies DEF CallInv

(* Whatever the panel calls, the machine keeps its types, and the dry run is  *)
(* over when the call that made it returns.                                  *)
THEOREM TypesHold == PanelSpec => []TypeOK
BY CallInvariant, CallInvImplies, PTL

(* A sequence of machine cycles is in progress only with both switches        *)
(* latched, and it has a cycle left to show.                                 *)
THEOREM SequencesInProgress == PanelSpec => []SequenceInProgress
BY CallInvariant, CallInvImplies, PTL

(* Between calls the display is integrated exactly up to the clock of the CPU, *)
(* through resets, dry runs and port writes in the middle of an OUT.         *)
THEOREM DisplayStaysInSync == PanelSpec => []DisplayInSync
BY CallInvariant, CallInvImplies, PTL

(* Whatever instruction comes next, its dry run fits the trace of five cycles *)
(* and makes no more journal entries than cycles.                            *)
THEOREM DryRunsFit == PanelSpec => []DryRunFits
BY CallInvariant, CallInvImplies, PTL

-----------------------------------------------------------------------------
(* A press of ШГ executes one whole instruction or nothing. *)
One(m, n) ==
  LET done == exec_one(m)
  IN  /\ n.ram = done.ram /\ n.cpu = done.cpu /\ n.ppi = done.ppi
      /\ n.integrated_to = done.integrated_to
      /\ n.unmapped_io_writes = done.unmapped_io_writes
      /\ n.step.dbg_port = done.step.dbg_port
      /\ n.step.mc_index = 0
      /\ n.rom = m.rom /\ n.kbd = m.kbd /\ n.trial = m.trial

LEMMA SameCpus ==
  ASSUME NEW c \in Cpus, NEW d \in Cpus, SameCpu(c, d),
         c.int_pending = d.int_pending, c.int_vector = d.int_vector
  PROVE  c = d
BY DEF Cpus, SameCpu

LEMMA NothingAlike ==
  ASSUME NEW m \in Machines, NEW n \in Machines, Nothing(m, n)
  PROVE  Alike(m, n) /\ SameRequest(m.cpu, n.cpu)
BY DEF Nothing, Alike, SameCpu, SameRequest

(* What is executed after a dry run is what would have been without. *)
LEMMA SameExecuted ==
  ASSUME NEW m, NEW p, Sound(m), Sound(p), Nothing(m, p), NEW n, One(p, n)
  PROVE  One(m, n)
<1> DEFINE d == exec_one(m)
           e == exec_one(p)
<1>1. Executes(m, d) /\ Executes(p, e)
  BY ExecSound
<1>2. m \in Machines /\ p \in Machines /\ m.cpu = p.cpu /\ m.kbd = p.kbd
      /\ m.rom = p.rom /\ m.trial = p.trial
  BY DEF Sound, Nothing
<1>3. Alike(d, e)
  BY <1>2, NothingAlike, ExecFollows DEF Follows
<1>4. One(p, n) <=> /\ n.ram = e.ram /\ n.cpu = e.cpu /\ n.ppi = e.ppi
                    /\ n.integrated_to = e.integrated_to
                    /\ n.unmapped_io_writes = e.unmapped_io_writes
                    /\ n.step.dbg_port = e.step.dbg_port
                    /\ n.step.mc_index = 0
                    /\ n.rom = p.rom /\ n.kbd = p.kbd /\ n.trial = p.trial
  BY DEF One
<1>5. One(m, n) <=> /\ n.ram = d.ram /\ n.cpu = d.cpu /\ n.ppi = d.ppi
                    /\ n.integrated_to = d.integrated_to
                    /\ n.unmapped_io_writes = d.unmapped_io_writes
                    /\ n.step.dbg_port = d.step.dbg_port
                    /\ n.step.mc_index = 0
                    /\ n.rom = m.rom /\ n.kbd = m.kbd /\ n.trial = m.trial
  BY DEF One
<1> HIDE DEF d, e
<1>6. d.cpu = e.cpu
  <2>1. d.cpu \in Cpus /\ e.cpu \in Cpus /\ SameCpu(d.cpu, e.cpu)
    BY <1>3, AlikeCpus
  <2>2. d.cpu.int_pending = e.cpu.int_pending /\ d.cpu.int_vector = e.cpu.int_vector
    BY <1>1, <1>2 DEF Executes
  <2> QED BY <2>1, <2>2, SameCpus
<1> QED BY <1>2, <1>3, <1>4, <1>5, <1>6 DEF Alike

LEMMA NextCycleOne ==
  ASSUME NEW m, Sound(m), NEW n, n = NextCycle(m)
  PROVE  \/ /\ m.step.mc_index + 1 >= Len(m.step.mc)
            /\ One(m, n)
         \/ /\ ~(m.step.mc_index + 1 >= Len(m.step.mc))
            /\ Nothing(m, n) /\ n.step.mc_index = m.step.mc_index + 1
            /\ n.step.mc = m.step.mc
<1>0. m \in Machines
  BY DEF Sound
<1>1. CASE m.step.mc_index + 1 >= Len(m.step.mc)
  <2> DEFINE p == exec_one(m)
             q == panel_update(p)
  <2>1. n = IndexTo(q, 0)
    BY <1>1 DEF NextCycle, IndexTo
  <2>2. Executes(m, p) /\ Sound(p) /\ p = exec_one(m)
    BY ExecSound
  <2> HIDE DEF p
  <2>3. OnlyPanel(p, q)
    BY <2>2, PanelUpdated DEF Sound
  <2> HIDE DEF q
  <2>4. q \in Machines /\ 0 \in 0 .. TraceSize
    BY <2>3 DEF OnlyPanel, TraceSize
  <2>5. /\ n.rom = q.rom /\ n.ram = q.ram /\ n.cpu = q.cpu /\ n.ppi = q.ppi
        /\ n.integrated_to = q.integrated_to /\ n.kbd = q.kbd
        /\ n.unmapped_io_writes = q.unmapped_io_writes /\ n.trial = q.trial
        /\ n.step.dbg_port = q.step.dbg_port /\ n.step.mc_index = 0
    BY <2>1, <2>4, IndexSet
  <2>6. p.trial = m.trial /\ p.rom = m.rom /\ p.kbd = m.kbd
    BY <2>2 DEF Executes, Sound
  <2>7. One(m, n)
    BY <2>2, <2>3, <2>5, <2>6 DEF One, OnlyPanel
  <2> QED BY <1>1, <2>7
<1>2. CASE ~(m.step.mc_index + 1 >= Len(m.step.mc))
  <2> DEFINE i == m.step.mc_index + 1
             q == Show(m, m.step.mc[i])
  <2>1. m.step.mc_index \in Nat /\ m.step.mc \in Seq(Cycle) /\ Len(m.step.mc) \in Nat
    BY <1>0, StepFields
  <2>2. i \in Nat /\ i > 0 /\ i < Len(m.step.mc) /\ Len(m.step.mc) <= 5
    BY <1>2, <2>1 DEF Sound
  <2>3. i \in 1 .. Len(m.step.mc) /\ i \in 0 .. TraceSize
    BY <2>1, <2>2 DEF TraceSize
  <2>4. m.step.mc[i] \in Cycle
    BY <2>1, <2>3, ElementOfSeq
  <2>5. OnlyPanel(m, q)
    BY <1>0, <2>4, Shown
  <2>6. n = IndexTo(q, i)
    <3>1. n = IndexTo(q, q.step.mc_index + 1)
      BY <1>2 DEF NextCycle, IndexTo
    <3>2. q.step = m.step
      BY <2>5 DEF OnlyPanel
    <3> QED BY <3>1, <3>2
  <2> HIDE DEF q
  <2>7. /\ q \in Machines /\ q.step = m.step /\ Nothing(m, q)
    BY <2>5 DEF OnlyPanel, Nothing
  <2> HIDE DEF i
  <2>8. /\ n.rom = q.rom /\ n.ram = q.ram /\ n.cpu = q.cpu /\ n.ppi = q.ppi
        /\ n.integrated_to = q.integrated_to /\ n.kbd = q.kbd
        /\ n.step_start_cycles = q.step_start_cycles
        /\ n.unmapped_io_writes = q.unmapped_io_writes /\ n.trial = q.trial
        /\ n.step.dbg_port = q.step.dbg_port /\ n.step.mc_index = i
        /\ n.step.mc = q.step.mc
    BY <2>3, <2>6, <2>7, IndexSet
  <2>9. Nothing(m, n) /\ n.step.mc_index = i /\ n.step.mc = m.step.mc
    BY <2>7, <2>8 DEF Nothing
  <2> QED BY <1>2, <2>9 DEF i
<1> QED BY <1>1, <1>2

LEMMA ProbeNothing ==
  ASSUME NEW m, Sound(m), NEW n, n = step_probe(m)
  PROVE  Nothing(m, n)
<1>1. m \in Machines /\ m.integrated_to \in Nat
  BY Fields DEF Sound
<1>2. m.integrated_to <= m.cpu.cycles /\ m.trial = NoTrial
  BY <1>1 DEF Sound
<1> QED BY <1>1, <1>2, Probed DEF Nothing

(* Without РБ/ЦК a press executes one instruction. *)
LEMMA InstructionOne ==
  ASSUME NEW m, Sound(m), NEW n, n = umk_step_instruction(m)
  PROVE  One(m, n)
<1> DEFINE p == exec_one(m)
           q == IndexTo(p, 0)
<1>1. n = panel_update(q)
  BY DEF umk_step_instruction, IndexTo
<1>2. Executes(m, p) /\ Sound(p) /\ p = exec_one(m)
  BY ExecSound
<1> HIDE DEF p
<1>3. p \in Machines /\ 0 \in 0 .. TraceSize
  BY <1>2 DEF Sound, TraceSize
<1>4. /\ q \in Machines
      /\ q.rom = p.rom /\ q.ram = p.ram /\ q.cpu = p.cpu /\ q.ppi = p.ppi
      /\ q.integrated_to = p.integrated_to /\ q.kbd = p.kbd
      /\ q.unmapped_io_writes = p.unmapped_io_writes /\ q.trial = p.trial
      /\ q.step.dbg_port = p.step.dbg_port /\ q.step.mc_index = 0
  BY <1>3, IndexSet
<1> HIDE DEF q
<1>5. OnlyPanel(q, n)
  BY <1>1, <1>4, PanelUpdated
<1>6. p.trial = m.trial /\ p.rom = m.rom /\ p.kbd = m.kbd
  BY <1>2 DEF Executes, Sound
<1> QED BY <1>2, <1>4, <1>5, <1>6 DEF One, OnlyPanel

LEMMA CycleAllOrNothing ==
  ASSUME NEW m, Sound(m), NEW n, n = umk_step_machine_cycle(m)
  PROVE  Nothing(m, n) \/ One(m, n)
<1>1. n = NextCycle(IF m.step.mc_index = 0 THEN step_probe(m) ELSE m)
  BY DEF umk_step_machine_cycle
<1>2. CASE m.step.mc_index = 0
  <2> DEFINE p == step_probe(m)
  <2>1. n = NextCycle(p)
    BY <1>1, <1>2
  <2>2. Sound(p) /\ Nothing(m, p)
    BY <1>2, ProbeSound, ProbeNothing
  <2> HIDE DEF p
  <2>3. Nothing(p, n) \/ One(p, n)
    BY <2>1, <2>2, NextCycleOne
  <2>4. Nothing(p, n) => Nothing(m, n)
    BY <2>2 DEF Nothing
  <2>5. One(p, n) => One(m, n)
    BY <2>2, SameExecuted
  <2> QED BY <2>3, <2>4, <2>5
<1>3. CASE m.step.mc_index # 0
  BY <1>1, <1>3, NextCycleOne
<1> QED BY <1>2, <1>3

LEMMA PressAllOrNothing ==
  ASSUME NEW m, Sound(m), NEW n, n = umk_press_step(m)
  PROVE  Nothing(m, n) \/ One(m, n)
<1>1. CASE ~m.step.latch_step
  BY <1>1 DEF umk_press_step, Nothing
<1>2. CASE m.step.latch_step /\ m.step.latch_cycle
  <2>1. n = umk_step_machine_cycle(m)
    BY <1>2 DEF umk_press_step
  <2> QED BY <2>1, CycleAllOrNothing
<1>3. CASE m.step.latch_step /\ ~m.step.latch_cycle
  <2>1. n = umk_step_instruction(m)
    BY <1>3 DEF umk_press_step
  <2> QED BY <2>1, InstructionOne
<1> QED BY <1>1, <1>2, <1>3

LEMMA PressStepTotal ==
  ASSUME CallInv, PressStep
  PROVE  NothingExecuted \/ OneExecuted
<1> DEFINE n == umk_press_step(Now)
<1>1. Becomes(n) /\ Sound(Now)
  BY DEF PressStep, CallInv
<1>2. Sound(n) /\ (Nothing(Now, n) \/ One(Now, n))
  BY <1>1, PressSound, PressAllOrNothing
<1> HIDE DEF n
<1>3. /\ rom' = n.rom /\ ram' = n.ram /\ cpu' = n.cpu /\ ppi' = n.ppi
      /\ integrated_to' = n.integrated_to /\ step' = n.step /\ kbd' = n.kbd
      /\ step_start_cycles' = n.step_start_cycles
      /\ unmapped_io_writes' = n.unmapped_io_writes /\ trial' = n.trial
  BY <1>1 DEF Becomes
<1>4. CASE Nothing(Now, n)
  BY <1>3, <1>4, NowFields DEF Nothing, NothingExecuted
<1>5. CASE One(Now, n)
  BY <1>3, <1>5, NowFields DEF One, OneExecuted, Executed
<1> QED BY <1>2, <1>4, <1>5

(* A press of ШГ executes exactly the instruction that would be executed if    *)
(* there had been no dry run, or leaves all but the panel and the place in the *)
(* sequence alone: the journal restores RAM, and the copies the rest.        *)
THEOREM PressesAreAllOrNothing == PanelSpec => PressIsAllOrNothing
<1>1. CallInv /\ [PanelNext]_vars => [PressStep => NothingExecuted \/ OneExecuted]_vars
  BY PressStepTotal
<1> QED BY <1>1, CallInvariant, PTL DEF PanelSpec, PressIsAllOrNothing
-----------------------------------------------------------------------------
(* What has been shown of a sequence is what will be executed.  A request that *)
(* arrives in between changes that only before a FETCH; one that was pending  *)
(* already asks for the same vector, so raising it again changes nothing.     *)
Interrupted(m) ==
  m.step.mc_index > 0 /\ m.step.mc[1].status = FETCH /\ CanAcknowledge(m.cpu)
Foretold(m) == SameButLast(exec_one(m).cpu.mc, m.step.mc)
Requests(m) == m.cpu.int_pending => m.cpu.int_vector = RequestVector
Shows(m)    == Requests(m) /\ (m.step.mc_index > 0 => Interrupted(m) \/ Foretold(m))

ShownInv == CallInv /\ Shows(Now)

LEMMA Chained ==
  ASSUME NEW a \in Seq(Cycle), NEW b \in Seq(Cycle), NEW c \in Seq(Cycle),
         SameButLast(a, b), SameButLast(a, c)
  PROVE  SameButLast(b, c)
BY DEF SameButLast

(* Alike machines execute the same cycles. *)
LEMMA SameForetelling ==
  ASSUME NEW m, Sound(m), NEW n, Sound(n), Alike(m, n), SameRequest(m.cpu, n.cpu)
  PROVE  /\ SameButLast(exec_one(m).cpu.mc, exec_one(n).cpu.mc)
         /\ exec_one(m).cpu.mc \in Seq(Cycle) /\ exec_one(n).cpu.mc \in Seq(Cycle)
         /\ m.step.mc \in Seq(Cycle)
<1> DEFINE d == exec_one(m)
           e == exec_one(n)
<1>1. d \in Machines /\ e \in Machines
  BY ExecSound DEF Executes
<1>2. Follows(m, n, d, e)
  BY ExecFollows
<1> HIDE DEF d, e
<1>3. d.cpu \in Cpus /\ e.cpu \in Cpus /\ m \in Machines
  BY <1>1, Fields DEF Sound
<1>4. d.cpu.mc \in Seq(Cycle) /\ e.cpu.mc \in Seq(Cycle) /\ m.step.mc \in Seq(Cycle)
  BY <1>3, CpuFields, StepFields
<1>5. SameButLast(d.cpu.mc, e.cpu.mc)
  BY <1>2 DEF Follows
<1> QED BY <1>4, <1>5 DEF d, e

LEMMA ForetoldKept ==
  ASSUME NEW m, Sound(m), NEW n, Sound(n), Alike(m, n), SameRequest(m.cpu, n.cpu),
         n.step.mc = m.step.mc, Foretold(m)
  PROVE  Foretold(n)
<1>1. SameButLast(exec_one(m).cpu.mc, m.step.mc)
  BY DEF Foretold
<1>2. SameButLast(exec_one(n).cpu.mc, m.step.mc)
  BY <1>1, SameForetelling, Chained
<1> QED BY <1>2 DEF Foretold

LEMMA ProbeForetells ==
  ASSUME NEW m, Sound(m), m.step.mc_index = 0, NEW n, n = step_probe(m)
  PROVE  Foretold(n)
<1> DEFINE q == Journaling(m)
           t == [on |-> TRUE, log |-> << >>]
           r == dry_run(m)
<1>1. m \in Machines /\ m.integrated_to \in Nat
  BY Fields DEF Sound
<1>2. m.integrated_to <= m.cpu.cycles /\ m.trial = NoTrial
  BY <1>1 DEF Sound
<1>3. /\ q \in Machines /\ r = exec_one(q) /\ Executes(q, r) /\ q.cpu = m.cpu
  BY <1>1, <1>2, DryRun
<1>4. t \in Trials
  BY EmptySeq DEF Trials
<1>5. q = [m EXCEPT !.trial = t]
  BY DEF Journaling
<1> HIDE DEF t, q
<1>6. /\ q.rom = m.rom /\ q.ram = m.ram /\ q.cpu = m.cpu /\ q.ppi = m.ppi
      /\ q.integrated_to = m.integrated_to /\ q.step = m.step
      /\ q.step_start_cycles = m.step_start_cycles
      /\ q.unmapped_io_writes = m.unmapped_io_writes
  BY <1>1, <1>4, <1>5, WithTrial
<1>7. Sound(n) /\ Nothing(m, n)
  BY ProbeSound, ProbeNothing
<1>8. n \in Machines /\ n.step.mc = r.cpu.mc
  BY <1>1, <1>2, Probed
<1>9. Alike(q, n) /\ SameRequest(q.cpu, n.cpu)
  BY <1>3, <1>6, <1>7, <1>8 DEF Nothing, Alike, SameCpu, SameRequest
<1>10. Follows(q, n, exec_one(q), exec_one(n))
  BY <1>9, ExecFollows
<1>11. SameButLast(r.cpu.mc, exec_one(n).cpu.mc)
  BY <1>3, <1>10 DEF Follows
<1> HIDE DEF r
<1>12. r.cpu.mc \in Seq(Cycle) /\ exec_one(n).cpu.mc \in Seq(Cycle)
  <2>1. r \in Machines /\ exec_one(n) \in Machines
    BY <1>3, <1>7, ExecSound DEF Executes
  <2> QED BY <2>1, Fields, CpuFields
<1>13. SameButLast(exec_one(n).cpu.mc, r.cpu.mc)
  BY <1>11, <1>12, SameTraces, Chained
<1> QED BY <1>8, <1>13 DEF Foretold

LEMMA ExecRequests ==
  ASSUME NEW m, NEW n, Executes(m, n), Requests(m)
  PROVE  Requests(n)
BY DEF Requests, Executes, PendingThen

LEMMA OneShows ==
  ASSUME NEW m, Sound(m), Requests(m), NEW n, One(m, n)
  PROVE  Shows(n)
<1> DEFINE d == exec_one(m)
<1>1. Executes(m, d)
  BY ExecSound
<1>2. n.cpu = d.cpu /\ n.step.mc_index = 0
  BY DEF One
<1> HIDE DEF d
<1>3. Requests(d)
  BY <1>1, ExecRequests
<1>4. ~(0 > 0)
  OBVIOUS
<1> QED BY <1>2, <1>3, <1>4 DEF Shows, Requests

(* A sequence that moves on, or stays where it is. *)
LEMMA SequenceShows ==
  ASSUME NEW m, Sound(m), NEW n, Sound(n), Nothing(m, n), Requests(m),
         n.step.mc = m.step.mc, Interrupted(m) \/ Foretold(m)
  PROVE  Shows(n)
<1>1. m \in Machines /\ n \in Machines
  BY DEF Sound
<1>2. Alike(m, n) /\ SameRequest(m.cpu, n.cpu)
  BY <1>1, NothingAlike
<1>3. Requests(n) /\ n.cpu = m.cpu
  BY DEF Requests, Nothing
<1>4. Foretold(m) => Foretold(n)
  BY <1>2, ForetoldKept
<1>5. Interrupted(m) /\ n.step.mc_index > 0 => Interrupted(n)
  BY <1>3 DEF Interrupted
<1> QED BY <1>3, <1>4, <1>5 DEF Shows

LEMMA NextCycleShows ==
  ASSUME NEW m, Sound(m), Requests(m), Interrupted(m) \/ Foretold(m), NEW n, n = NextCycle(m)
  PROVE  Shows(n)
<1>1. Sound(n)
  BY NextCycleSound
<1>2. One(m, n) \/ (Nothing(m, n) /\ n.step.mc = m.step.mc)
  BY NextCycleOne
<1> QED BY <1>1, <1>2, OneShows, SequenceShows

LEMMA CycleShows ==
  ASSUME NEW m, Sound(m), Shows(m), NEW n, n = umk_step_machine_cycle(m)
  PROVE  Shows(n)
<1>0. m \in Machines /\ Requests(m) /\ m.step.mc_index \in Nat
  BY StepFields DEF Sound, Shows
<1>1. n = NextCycle(IF m.step.mc_index = 0 THEN step_probe(m) ELSE m)
  BY DEF umk_step_machine_cycle
<1>2. CASE m.step.mc_index = 0
  <2> DEFINE p == step_probe(m)
  <2>1. n = NextCycle(p)
    BY <1>1, <1>2
  <2>2. Sound(p) /\ Nothing(m, p) /\ Foretold(p)
    BY <1>2, ProbeSound, ProbeNothing, ProbeForetells
  <2> HIDE DEF p
  <2>3. Requests(p)
    BY <1>0, <2>2 DEF Nothing, Requests
  <2> QED BY <2>1, <2>2, <2>3, NextCycleShows
<1>3. CASE m.step.mc_index # 0
  <2>1. m.step.mc_index > 0
    BY <1>0, <1>3
  <2>2. Interrupted(m) \/ Foretold(m)
    BY <2>1 DEF Shows
  <2> QED BY <1>0, <1>1, <1>3, <2>2, NextCycleShows
<1> QED BY <1>2, <1>3

LEMMA PressShows ==
  ASSUME NEW m, Sound(m), Shows(m), NEW n, n = umk_press_step(m)
  PROVE  Shows(n)
<1>1. CASE ~m.step.latch_step
  BY <1>1 DEF umk_press_step
<1>2. CASE m.step.latch_step /\ m.step.latch_cycle
  <2>1. n = umk_step_machine_cycle(m)
    BY <1>2 DEF umk_press_step
  <2> QED BY <2>1, CycleShows
<1>3. CASE m.step.latch_step /\ ~m.step.latch_cycle
  <2>1. n = umk_step_instruction(m)
    BY <1>3 DEF umk_press_step
  <2>2. Requests(m)
    BY DEF Shows
  <2> QED BY <2>1, <2>2, InstructionOne, OneShows
<1> QED BY <1>1, <1>2, <1>3

LEMMA RunShows ==
  ASSUME NEW m, Sound(m), Shows(m), m.step.mc_index > 0 => m.step.latch_step,
         NEW c \in Nat, NEW n, n = umk_run_cycles(m, c)
  PROVE  Shows(n)
<1>1. CASE m.step.latch_step
  BY <1>1 DEF umk_run_cycles
<1>2. CASE ~m.step.latch_step
  <2> DEFINE S == {p \in Machines : Sound(p) /\ Requests(p) /\ p.step.mc_index = 0}
             r == Turns(m, c)[c]
  <2>1. n = panel_update(r)
    BY <1>2 DEF umk_run_cycles
  <2>2. m \in S
    <3>1. m \in Machines /\ m.step.mc_index \in Nat
      BY StepFields DEF Sound
    <3>2. ~(m.step.mc_index > 0)
      BY <1>2
    <3> QED BY <3>1, <3>2 DEF Shows
  <2>3. ASSUME NEW p \in S PROVE Turn(m, c, p) \in S
    <3> DEFINE d == exec_one(p)
    <3>1. Sound(d) /\ Executes(p, d)
      BY ExecSound
    <3>2. Turn(m, c, p) = d \/ Turn(m, c, p) = p
      BY DEF Turn
    <3> HIDE DEF d
    <3>3. d \in S
      BY <3>1, ExecRequests DEF Executes
    <3> QED BY <3>2, <3>3
  <2>4. r \in S
    BY <2>2, <2>3, TurnsIn
  <2> HIDE DEF r
  <2>5. OnlyPanel(r, n)
    BY <2>1, <2>4, PanelUpdated
  <2>6. ~(n.step.mc_index > 0) /\ Requests(n)
    BY <2>4, <2>5 DEF OnlyPanel, Requests
  <2> QED BY <2>6 DEF Shows
<1> QED BY <1>1, <1>2

LEMMA SwitchShows ==
  ASSUME NEW m, Sound(m), Shows(m), NEW sw, NEW on \in BOOLEAN,
         NEW n, n = umk_set_switch(m, sw, on)
  PROVE  Shows(n)
<1>1. /\ Sound(n) /\ Nothing(m, n) /\ n.step.mc = m.step.mc
      /\ n.step.mc_index = 0 \/ n.step.mc_index = m.step.mc_index
  BY SwitchSound
<1>2. Requests(m) /\ Requests(n)
  BY <1>1 DEF Shows, Requests, Nothing
<1>3. CASE n.step.mc_index > 0
  <2>1. n.step.mc_index = m.step.mc_index
    BY <1>1, <1>3
  <2>2. Interrupted(m) \/ Foretold(m)
    BY <1>3, <2>1 DEF Shows
  <2> QED BY <1>1, <1>2, <2>2, SequenceShows
<1>4. CASE ~(n.step.mc_index > 0)
  BY <1>2, <1>4 DEF Shows
<1> QED BY <1>3, <1>4

LEMMA ResetShows ==
  ASSUME NEW m, Sound(m), NEW n, n = umk_reset(m)
  PROVE  Shows(n)
<1>1. n.step.mc_index = 0 /\ n.cpu.int_pending = FALSE
  BY ResetSound, ResetType
<1>2. ~(n.step.mc_index > 0) /\ Requests(n)
  BY <1>1 DEF Requests
<1> QED BY <1>2 DEF Shows

LEMMA KeyShows ==
  ASSUME NEW m, Sound(m), Shows(m), NEW k \in Keys, NEW down \in BOOLEAN, NEW n, n = umk_set_key(m, k, down)
  PROVE  Shows(n)
<1>1. /\ Sound(n) /\ n.step = m.step /\ n.cpu = m.cpu
      /\ n.rom = m.rom /\ n.ram = m.ram /\ n.ppi = m.ppi
      /\ n.integrated_to = m.integrated_to
      /\ n.step_start_cycles = m.step_start_cycles
      /\ n.unmapped_io_writes = m.unmapped_io_writes
  BY KeySound
<1>2. m \in Machines /\ n \in Machines
  BY <1>1 DEF Sound
<1>3. Alike(m, n) /\ SameRequest(m.cpu, n.cpu)
  BY <1>1, <1>2 DEF Alike, SameCpu, SameRequest
<1>4. Foretold(m) => Foretold(n)
  BY <1>1, <1>3, ForetoldKept
<1>5. Interrupted(m) => Interrupted(n)
  BY <1>1 DEF Interrupted
<1>6. Requests(n)
  BY <1>1 DEF Shows, Requests
<1> QED BY <1>1, <1>4, <1>5, <1>6 DEF Shows

LEMMA MoreThanOne ==
  ASSUME NEW i \in Nat, NEW l \in Nat, i > 0, i < l
  PROVE  1 \in 1 .. l - 1 /\ l # 1
OBVIOUS

(* A request before the FETCH of the sequence may be acknowledged instead; in *)
(* a halt cycle or an acknowledgement, nothing is left to change.            *)
LEMMA InterruptShows ==
  ASSUME NEW m, Sound(m), Shows(m), NEW n, n = umk_interrupt(m)
  PROVE  Shows(n)
<1> DEFINE d == exec_one(m)
<1>0. m \in Machines
  BY DEF Sound
<1>1. n \in Machines /\ n.step = m.step
  BY <1>0, Requested
<1>10. /\ n.cpu.inte = m.cpu.inte /\ n.cpu.halted = m.cpu.halted
       /\ n.cpu.int_pending = TRUE /\ n.cpu.int_delay = m.cpu.int_delay
       /\ n.cpu.int_vector = RequestVector
  BY <1>0, Requested
<1>11. SameCpu(m.cpu, n.cpu)
  <2>1. /\ n.cpu.a = m.cpu.a /\ n.cpu.z = m.cpu.z /\ n.cpu.hl = m.cpu.hl
        /\ n.cpu.sp = m.cpu.sp /\ n.cpu.pc = m.cpu.pc
    BY <1>0, Requested
  <2>2. n.cpu.cycles = m.cpu.cycles /\ n.cpu.mc = m.cpu.mc
    BY <1>0, Requested
  <2> QED BY <1>10, <2>1, <2>2 DEF SameCpu
<1>2. Sound(n)
  BY InterruptSound
<1>3. Alike(m, n)
  <2>1. n.rom = m.rom /\ n.ram = m.ram /\ n.ppi = m.ppi
    BY <1>0, Requested
  <2>2. /\ n.integrated_to = m.integrated_to
        /\ n.step_start_cycles = m.step_start_cycles
        /\ n.unmapped_io_writes = m.unmapped_io_writes
    BY <1>0, Requested
  <2> QED BY <1>0, <1>1, <1>11, <2>1, <2>2 DEF Alike
<1>4. Requests(n)
  BY <1>10 DEF Requests
<1>5. CASE n.step.mc_index > 0 /\ Interrupted(m)
  BY <1>1, <1>4, <1>5, <1>10 DEF Interrupted, CanAcknowledge, Shows
<1>6. CASE n.step.mc_index > 0 /\ Foretold(m) /\ CanAcknowledge(m.cpu)
  <2>1. m.cpu.int_vector = RequestVector
    BY <1>6 DEF CanAcknowledge, Shows, Requests
  <2>2. SameRequest(m.cpu, n.cpu)
    BY <1>6, <1>10, <2>1 DEF CanAcknowledge, SameRequest
  <2>3. Foretold(n)
    BY <1>1, <1>2, <1>3, <1>6, <2>2, ForetoldKept
  <2> QED BY <1>4, <2>3 DEF Shows
<1>7. CASE n.step.mc_index > 0 /\ Foretold(m) /\ ~CanAcknowledge(m.cpu)
  <2>1. CASE CanAcknowledge(n.cpu)
    <3>1. /\ Executes(m, d) /\ d.cpu.mc[1].status = Announced(m.cpu)
          /\ Announced(m.cpu) = HALTA => Len(d.cpu.mc) = 1
      BY ExecSound DEF Executes
    <3>2. SameButLast(d.cpu.mc, m.step.mc)
      BY <1>7 DEF Foretold
    <3> HIDE DEF d
    <3>3. m.step.mc_index > 0 /\ m.step.mc_index < Len(m.step.mc)
          /\ m.step.mc_index \in Nat /\ Len(m.step.mc) \in Nat
      BY <1>0, <1>1, <1>7, StepFields DEF Sound
    <3>4. 1 \in 1 .. Len(m.step.mc) - 1 /\ Len(m.step.mc) # 1
      BY <3>3, MoreThanOne
    <3>5. d.cpu.mc[1] = m.step.mc[1] /\ Len(d.cpu.mc) # 1
      BY <3>2, <3>4 DEF SameButLast
    <3>6. m.step.mc[1].status = FETCH
      BY <1>7, <3>1, <3>5 DEF Announced
    <3> QED BY <1>1, <1>4, <1>7, <2>1, <3>6 DEF Interrupted, Shows
  <2>2. CASE ~CanAcknowledge(n.cpu)
    <3>1. SameRequest(m.cpu, n.cpu)
      BY <1>7, <2>2 DEF SameRequest
    <3>2. Foretold(n)
      BY <1>1, <1>2, <1>3, <1>7, <3>1, ForetoldKept
    <3> QED BY <1>4, <3>2 DEF Shows
  <2> QED BY <2>1, <2>2
<1>8. CASE ~(n.step.mc_index > 0)
  BY <1>4, <1>8 DEF Shows
<1>9. n.step.mc_index > 0 => Interrupted(m) \/ Foretold(m)
  BY <1>1 DEF Shows
<1> QED BY <1>5, <1>6, <1>7, <1>8, <1>9

LEMMA ShownInvInit ==
  ASSUME Init
  PROVE  ShownInv
<1>1. PICK image \in Programs, size \in RamSizes :
        PowerOn(umk_load_rom(umk_init(size), 0, image))
  BY DEF Init
<1> DEFINE m == umk_load_rom(umk_init(size), 0, image)
<1>2. Sound(m) /\ m.cpu = ResetCpu /\ m.step.mc_index = 0
  BY InitSound
<1>3. PowerOn(m)
  BY <1>1
<1> HIDE DEF m
<1>4. Now = m
  BY <1>2, <1>3, NowIs DEF Sound
<1>5. ~(Now.step.mc_index > 0) /\ Requests(Now)
  BY <1>2, <1>4, ResetType DEF Requests
<1> QED BY <1>5, CallInvInit DEF ShownInv, Shows

LEMMA ShownInvStep ==
  ASSUME ShownInv, [PanelNext]_vars
  PROVE  ShownInv'
<1>0. /\ CallInv /\ CallInv' /\ Sound(Now) /\ Shows(Now)
      /\ Now.step.mc_index > 0 => Now.step.latch_step
  BY CallInvStep DEF ShownInv, CallInv, Latched
<1>1. ASSUME NEW m, Becomes(m), Shows(m), Sound(m)
      PROVE  ShownInv'
  <2>1. Now' = m
    BY <1>1, NowIs DEF Sound
  <2> QED BY <1>0, <1>1, <2>1 DEF ShownInv
<1>2. CASE RunCycles
  <2>1. PICK n \in Slices : Becomes(umk_run_cycles(Now, n))
    BY <1>2 DEF RunCycles
  <2>2. n \in Nat
    BY UmkAssumption
  <2>3. Sound(umk_run_cycles(Now, n)) /\ Shows(umk_run_cycles(Now, n))
    BY <1>0, <2>2, RunSound, RunShows
  <2> QED BY <1>1, <2>1, <2>3
<1>3. CASE PressStep
  <2>1. Sound(umk_press_step(Now)) /\ Shows(umk_press_step(Now))
    BY <1>0, PressSound, PressShows
  <2> QED BY <1>1, <1>3, <2>1 DEF PressStep
<1>4. CASE SetSwitch
  <2>1. PICK sw \in {"STEP", "CYCLE"}, on \in BOOLEAN : Becomes(umk_set_switch(Now, sw, on))
    BY <1>4 DEF SetSwitch
  <2>2. Sound(umk_set_switch(Now, sw, on)) /\ Shows(umk_set_switch(Now, sw, on))
    BY <1>0, SwitchSound, SwitchShows
  <2> QED BY <1>1, <2>1, <2>2
<1>5. CASE Reset
  <2>1. Sound(umk_reset(Now)) /\ Shows(umk_reset(Now))
    BY <1>0, ResetSound, ResetShows
  <2> QED BY <1>1, <1>5, <2>1 DEF Reset
<1>6. CASE Interrupt
  <2>1. Sound(umk_interrupt(Now)) /\ Shows(umk_interrupt(Now))
    BY <1>0, InterruptSound, InterruptShows
  <2> QED BY <1>1, <1>6, <2>1 DEF Interrupt
<1>7. CASE SetKey
  <2>1. PICK k \in Keys, down \in BOOLEAN : Becomes(umk_set_key(Now, k, down))
    BY <1>7 DEF SetKey
  <2>2. Sound(umk_set_key(Now, k, down)) /\ Shows(umk_set_key(Now, k, down))
    BY <1>0, KeySound, KeyShows
  <2> QED BY <1>1, <2>1, <2>2
<1>8. CASE UNCHANGED vars
  <2>1. Now' = Now
    BY <1>8 DEF vars, Now
  <2> QED BY <1>0, <2>1 DEF ShownInv
<1> QED BY <1>2, <1>3, <1>4, <1>5, <1>6, <1>7, <1>8 DEF PanelNext

LEMMA ShowsImplies ==
  ASSUME Sound(Now), Shows(Now)
  PROVE  ShownUnlessInterrupted
<1> DEFINE next == exec_one(Now).cpu.mc
           mc   == step.mc
           i    == step.mc_index
<1>1. Now.step = step /\ Now.cpu = cpu
  BY NowFields
<1>2. i \in Nat /\ mc \in Seq(Cycle) /\ Len(mc) \in Nat
  BY <1>1, StepFields DEF Sound
<1>3. CASE ~(i > 0)
  <2>1. i = 0
    BY <1>2, <1>3
  <2>2. 1 .. i = {}
    BY <2>1
  <2> QED BY <2>2 DEF ShownUnlessInterrupted, ShownIsWhatComesNext, StartsAsShown
<1>4. CASE i > 0 /\ Interrupted(Now)
  BY <1>1, <1>4 DEF Interrupted, InterruptedSequence, ShownUnlessInterrupted
<1>5. CASE i > 0 /\ Foretold(Now)
  <2>1. SameButLast(next, mc)
    BY <1>1, <1>5 DEF Foretold
  <2>2. i < Len(mc)
    BY <1>1, <1>5 DEF Sound
  <2> HIDE DEF next, mc, i
  <2>3. ASSUME NEW j \in 1 .. i
        PROVE  j <= Len(next) /\ next[j] = mc[j]
    <3>1. Len(next) = Len(mc) /\ \A l \in 1 .. Len(mc) - 1 : next[l] = mc[l]
      BY <2>1 DEF SameButLast
    <3>2. j \in 1 .. Len(mc) - 1 /\ j <= Len(mc)
      BY <1>2, <2>2, <2>3
    <3> QED BY <3>1, <3>2
  <2>4. \A j \in 1 .. i : j <= Len(next) /\ next[j] = mc[j]
    BY <2>3
  <2>5. ShownIsWhatComesNext
    BY <2>4 DEF ShownIsWhatComesNext, StartsAsShown, next, mc, i
  <2> QED BY <2>5 DEF ShownUnlessInterrupted
<1>6. i > 0 => Interrupted(Now) \/ Foretold(Now)
  BY <1>1 DEF Shows
<1> QED BY <1>3, <1>4, <1>5, <1>6

(* The machine cycles shown on the panel so far are those that the last press *)
(* will execute, unless a request that arrived meanwhile may be acknowledged  *)
(* first.                                                                    *)
THEOREM SequencesAreShown == PanelSpec => []ShownUnlessInterrupted
<1>1. Init => ShownInv
  BY ShownInvInit
<1>2. ShownInv /\ [PanelNext]_vars => ShownInv'
  BY ShownInvStep
<1>3. ShownInv => ShownUnlessInterrupted
  BY ShowsImplies DEF ShownInv, CallInv
<1> QED BY <1>1, <1>2, <1>3, PTL DEF PanelSpec-----------------------------------------------------------------------------
(* The CPU implements I8080Interrupts: what a step leaves in interrupt control, *)
(* and the status words of the cycles it logs.                               *)
StatusOf(c) == [i \in DOMAIN c.mc |-> c.mc[i].status]

SteppedTo(d, op, i, h, e, p, v, first) ==
  /\ \E t \in TailsOf(op) : StatusOf(d) = <<first>> \o t
  /\ d.inte = InteThen(op, i) /\ d.halted = HaltedThen(op, h)
  /\ d.int_delay = e /\ d.int_pending = p /\ d.int_vector = v

CpuStepsTo(c, d) ==
  \/ /\ CanAcknowledge(c)
     /\ SteppedTo(d, c.int_vector, FALSE, FALSE, DelayThen(c.int_vector, c.int_delay),
                  FALSE, c.int_vector, IF c.halted THEN INTA_HALT ELSE INTA)
  \/ /\ ~CanAcknowledge(c) /\ c.halted /\ StatusOf(d) = <<HALTA>>
     /\ d.inte = c.inte /\ d.halted = c.halted /\ d.int_delay = c.int_delay
     /\ d.int_pending = c.int_pending /\ d.int_vector = c.int_vector
  \/ /\ ~CanAcknowledge(c) /\ ~c.halted
     /\ \E op \in Byte :
          SteppedTo(d, op, c.inte, c.halted, GraceThen(op, c.int_delay),
                    c.int_pending, c.int_vector, FETCH)

LEMMA StatusesListed ==
  ASSUME NEW m, NEW n, NEW u \in StatusSeq, Stepped(m, n, u)
  PROVE  StatusOf(n.cpu) = u /\ n.cpu.int_vector = m.cpu.int_vector
<1>1. n.cpu.mc \in Seq(Cycle)
  BY Fields, CpuFields DEF Stepped, SameFrame
<1>2. DOMAIN n.cpu.mc = 1 .. Len(n.cpu.mc) /\ u = [i \in 1 .. Len(u) |-> u[i]]
  BY <1>1, LenProperties DEF StatusSeq
<1>3. Len(n.cpu.mc) = Len(u) /\ \A i \in 1 .. Len(u) : n.cpu.mc[i].status = u[i]
  BY DEF Stepped
<1>4. StatusOf(n.cpu) = [i \in 1 .. Len(u) |-> u[i]]
  BY <1>2, <1>3 DEF StatusOf
<1> QED BY <1>2, <1>4 DEF Stepped, SameFrame

(* The tail of an instruction after its first cycle. *)
LEMMA TailListed ==
  ASSUME NEW m, NEW n, NEW op, NEW t \in TailsOf(op), NEW st \in Statuses,
         Stepped(m, n, <<st>> \o t)
  PROVE  /\ \E s \in TailsOf(op) : StatusOf(n.cpu) = <<st>> \o s
         /\ n.cpu.int_vector = m.cpu.int_vector
<1>1. t \in StatusSeq /\ Len(t) <= 4
  BY TailsOfType DEF Short
<1>2. <<st>> \o t \in StatusSeq
  BY <1>1, FirstOf
<1> QED BY <1>2, StatusesListed

LEMMA CpuStepControls ==
  ASSUME NEW m \in Machines, m.cpu.mc = << >>, NEW n, n = CpuStep(m)
  PROVE  CpuStepsTo(m.cpu, n.cpu)
<1>1. CASE CanAcknowledge(m.cpu)
  <2> DEFINE st == IF m.cpu.halted THEN INTA_HALT ELSE INTA
             op == m.cpu.int_vector
  <2>1. n = acknowledge(m) /\ st \in Statuses
    BY <1>1, StatusTails DEF CpuStep
  <2>2. /\ \E t \in TailsOf(op) : Stepped(m, n, <<st>> \o t)
        /\ n.cpu.inte = InteThen(op, FALSE)
        /\ n.cpu.halted = HaltedThen(op, FALSE)
        /\ n.cpu.int_delay = DelayThen(op, m.cpu.int_delay)
        /\ n.cpu.int_pending = FALSE
    BY <2>1, Acknowledged
  <2> HIDE DEF st, op
  <2>3. /\ \E t \in TailsOf(op) : StatusOf(n.cpu) = <<st>> \o t
        /\ n.cpu.int_vector = m.cpu.int_vector
    BY <2>1, <2>2, TailListed
  <2>4. SteppedTo(n.cpu, op, FALSE, FALSE, DelayThen(op, m.cpu.int_delay), FALSE, op, st)
    BY <2>2, <2>3 DEF SteppedTo, op
  <2> QED BY <1>1, <2>4 DEF CpuStepsTo, op, st
<1>2. CASE ~CanAcknowledge(m.cpu) /\ m.cpu.halted
  <2>1. n = halt_cycle(m)
    BY <1>2 DEF CpuStep
  <2>2. /\ Stepped(m, n, <<HALTA>>) /\ n.cpu.inte = m.cpu.inte /\ n.cpu.halted = m.cpu.halted
        /\ n.cpu.int_delay = m.cpu.int_delay /\ n.cpu.int_pending = m.cpu.int_pending
    BY <2>1, HaltCycled
  <2>3. <<HALTA>> \in StatusSeq
    BY StatusTails
  <2>4. StatusOf(n.cpu) = <<HALTA>> /\ n.cpu.int_vector = m.cpu.int_vector
    BY <2>2, <2>3, StatusesListed
  <2> QED BY <1>2, <2>2, <2>4 DEF CpuStepsTo
<1>3. CASE ~CanAcknowledge(m.cpu) /\ ~m.cpu.halted
  <2> DEFINE op == umk_peek(m, m.cpu.pc)
  <2>1. n = instruction(m) /\ FETCH \in Statuses
    BY <1>3, StatusTails DEF CpuStep
  <2>2. /\ op \in Byte
        /\ \E t \in TailsOf(op) : Stepped(m, n, <<FETCH>> \o t)
        /\ n.cpu.inte = InteThen(op, m.cpu.inte)
        /\ n.cpu.halted = HaltedThen(op, m.cpu.halted)
        /\ n.cpu.int_delay = GraceThen(op, m.cpu.int_delay)
        /\ n.cpu.int_pending = m.cpu.int_pending
    BY <2>1, Instructed
  <2> HIDE DEF op
  <2>3. /\ \E t \in TailsOf(op) : StatusOf(n.cpu) = <<FETCH>> \o t
        /\ n.cpu.int_vector = m.cpu.int_vector
    BY <2>1, <2>2, TailListed
  <2>4. SteppedTo(n.cpu, op, m.cpu.inte, m.cpu.halted, GraceThen(op, m.cpu.int_delay),
                  m.cpu.int_pending, m.cpu.int_vector, FETCH)
    BY <2>2, <2>3 DEF SteppedTo
  <2> QED BY <1>3, <2>2, <2>4 DEF CpuStepsTo
<1> QED BY <1>1, <1>2, <1>3

LEMMA ExecControls ==
  ASSUME NEW m, Sound(m), NEW n, n = exec_one(m)
  PROVE  CpuStepsTo(m.cpu, n.cpu)
<1> DEFINE q == Started(m)
           r == CpuStep(q)
<1>0. m \in Machines
  BY DEF Sound
<1>1. n = Integrated(r) /\ q = Started(m)
  BY ExecSteps
<1> HIDE DEF q
<1>2. /\ q \in Machines /\ q.cpu.mc = << >>
      /\ q.cpu.inte = m.cpu.inte /\ q.cpu.halted = m.cpu.halted
      /\ q.cpu.int_pending = m.cpu.int_pending /\ q.cpu.int_vector = m.cpu.int_vector
      /\ q.cpu.int_delay = m.cpu.int_delay
  BY <1>0, <1>1, ClockStarted
<1>3. r \in Machines /\ CpuStepsTo(q.cpu, r.cpu)
  BY <1>2, CpuStepped, CpuStepControls DEF Stepped, SameFrame
<1> HIDE DEF r
<1>4. n.cpu = r.cpu
  <2>1. n = r \/ n = [r EXCEPT !.integrated_to = r.cpu.cycles]
    BY <1>1 DEF Integrated, display_advance
  <2> QED BY <1>3, <2>1 DEF Machines
<1>5. CanAcknowledge(q.cpu) <=> CanAcknowledge(m.cpu)
  BY <1>2 DEF CanAcknowledge
<1>6. CpuStepsTo(m.cpu, r.cpu)
  <2>1. CASE CanAcknowledge(q.cpu)
    BY <1>2, <1>3, <1>5, <2>1 DEF CpuStepsTo
  <2>2. CASE ~CanAcknowledge(q.cpu) /\ q.cpu.halted
    BY <1>2, <1>3, <1>5, <2>2 DEF CpuStepsTo
  <2>3. CASE ~CanAcknowledge(q.cpu) /\ ~q.cpu.halted
    BY <1>2, <1>3, <1>5, <2>3 DEF CpuStepsTo
  <2> QED BY <2>1, <2>2, <2>3
<1> QED BY <1>4, <1>6

(* Opcodes do to interrupt control what their class does. *)
LEMMA ClassControls ==
  ASSUME NEW op
  PROVE  /\ ClassOf(op) = "EI" <=> op = \hFB
         /\ ClassOf(op) = "DI" <=> op = \hF3
         /\ ClassOf(op) = "HLT" <=> op = \h76
         /\ ClassOf(op) \in Interrupts!Opcode
<1>1. CASE op \in {\hFB, \hF3, \h76}
  <2>1. \/ op = \hFB /\ ClassOf(op) = "EI"
        \/ op = \hF3 /\ ClassOf(op) = "DI"
        \/ op = \h76 /\ ClassOf(op) = "HLT"
    BY <1>1 DEF ClassOf
  <2> QED BY <2>1 DEF Interrupts!Opcode
<1>2. CASE op \in {\h21, \h31, \hC3, \hC2, \h3E, \h77, \h34, \h32}
  <2>1. ClassOf(op) \in {"IMM2", "READ", "WRITE", "RMW", "STA"}
    BY <1>2 DEF ClassOf
  <2> QED BY <1>2, <2>1 DEF Interrupts!Opcode
<1>3. CASE op \in {\h3A, \h22, \h2A, \hF5, \hFF, \hE1}
  <2>1. ClassOf(op) \in {"LDA", "SHLD", "LHLD", "PUSH", "RST", "POP"}
    BY <1>3 DEF ClassOf
  <2> QED BY <1>3, <2>1 DEF Interrupts!Opcode
<1>4. CASE op \in {\hC9, \hC8, \hE3, \hCD, \hCC, \hDB, \hD3}
  <2>1. ClassOf(op) \in {"RET", "RCC", "XTHL", "CALL", "CCC", "IN", "OUT"}
    BY <1>4 DEF ClassOf
  <2> QED BY <1>4, <2>1 DEF Interrupts!Opcode
<1>5. CASE op \notin {\hFB, \hF3, \h76, \h21, \h31, \hC3, \hC2, \h3E, \h77, \h34, \h32,
                    \h3A, \h22, \h2A, \hF5, \hFF, \hE1, \hC9, \hC8, \hE3, \hCD, \hCC,
                    \hDB, \hD3}
  <2>1. ClassOf(op) = "REG"
    BY <1>5 DEF ClassOf
  <2> QED BY <1>5, <2>1 DEF Interrupts!Opcode
<1> QED BY <1>1, <1>2, <1>3, <1>4, <1>5

LEMMA SameStatusWords ==
  /\ Interrupts!FETCH = FETCH /\ Interrupts!MEMR = MEMR /\ Interrupts!MEMW = MEMW
  /\ Interrupts!STACKR = STACKR /\ Interrupts!STACKW = STACKW /\ Interrupts!INPR = INPR
  /\ Interrupts!OUTW = OUTW /\ Interrupts!INTA = INTA /\ Interrupts!HALTA = HALTA
  /\ Interrupts!INTA_HALT = INTA_HALT
BY DEF Interrupts!FETCH, Interrupts!MEMR, Interrupts!MEMW, Interrupts!STACKR,
       Interrupts!STACKW, Interrupts!INPR, Interrupts!OUTW, Interrupts!INTA,
       Interrupts!HALTA, Interrupts!INTA_HALT,
       FETCH, MEMR, MEMW, STACKR, STACKW, INPR, OUTW, INTA, HALTA, INTA_HALT

(* The tails of each class, in the status words of Machine. *)
LEMMA ClassTails ==
  /\ Interrupts!Tails("REG") = {<< >>} /\ Interrupts!Tails("EI") = {<< >>}
  /\ Interrupts!Tails("DI") = {<< >>} /\ Interrupts!Tails("HLT") = {<< >>}
  /\ Interrupts!Tails("READ") = {<<MEMR>>} /\ Interrupts!Tails("WRITE") = {<<MEMW>>}
  /\ Interrupts!Tails("RMW") = {<<MEMR, MEMW>>}
  /\ Interrupts!Tails("IMM2") = {<<MEMR, MEMR>>}
  /\ Interrupts!Tails("STA") = {<<MEMR, MEMR, MEMW>>}
  /\ Interrupts!Tails("LDA") = {<<MEMR, MEMR, MEMR>>}
  /\ Interrupts!Tails("SHLD") = {<<MEMR, MEMR, MEMW, MEMW>>}
  /\ Interrupts!Tails("LHLD") = {<<MEMR, MEMR, MEMR, MEMR>>}
  /\ Interrupts!Tails("PUSH") = {<<STACKW, STACKW>>}
  /\ Interrupts!Tails("RST") = {<<STACKW, STACKW>>}
  /\ Interrupts!Tails("POP") = {<<STACKR, STACKR>>}
  /\ Interrupts!Tails("RET") = {<<STACKR, STACKR>>}
  /\ Interrupts!Tails("RCC") = {<< >>, <<STACKR, STACKR>>}
  /\ Interrupts!Tails("XTHL") = {<<STACKR, STACKR, STACKW, STACKW>>}
  /\ Interrupts!Tails("CALL") = {<<MEMR, MEMR, STACKW, STACKW>>}
  /\ Interrupts!Tails("CCC") = {<<MEMR, MEMR>>, <<MEMR, MEMR, STACKW, STACKW>>}
  /\ Interrupts!Tails("IN") = {<<MEMR, INPR>>} /\ Interrupts!Tails("OUT") = {<<MEMR, OUTW>>}
BY SameStatusWords DEF Interrupts!Tails

(* An instruction logs what its class does, an address having been read first. *)
LEMMA TailsInClass ==
  ASSUME NEW op
  PROVE  TailsOf(op) \subseteq Interrupts!Tails(ClassOf(op))
<1>0. /\ MEMR \in Statuses /\ MEMW \in Statuses /\ STACKR \in Statuses /\ STACKW \in Statuses
      /\ INPR \in Statuses /\ OUTW \in Statuses
  BY StatusTails
<1>1. /\ <<MEMR, MEMR>> \o << >> = <<MEMR, MEMR>>
      /\ <<MEMR, MEMR>> \o <<MEMW>> = <<MEMR, MEMR, MEMW>>
      /\ <<MEMR, MEMR>> \o <<MEMR>> = <<MEMR, MEMR, MEMR>>
      /\ <<MEMR, MEMR>> \o <<MEMW, MEMW>> = <<MEMR, MEMR, MEMW, MEMW>>
      /\ <<MEMR, MEMR>> \o <<MEMR, MEMR>> = <<MEMR, MEMR, MEMR, MEMR>>
      /\ <<MEMR, MEMR>> \o <<STACKW, STACKW>> = <<MEMR, MEMR, STACKW, STACKW>>
  <2>1. <<MEMR, MEMR>> \in Seq(Statuses)
    BY <1>0, Tuples
  <2>2. <<MEMR, MEMR>> \o << >> = <<MEMR, MEMR>>
    BY <2>1, ConcatEmptySeq
  <2>3. <<MEMR, MEMR>> \o <<MEMW>> = <<MEMR, MEMR, MEMW>>
    BY <1>0, Triples, Zenon
  <2>4. <<MEMR, MEMR>> \o <<MEMR>> = <<MEMR, MEMR, MEMR>>
    BY <1>0, Triples, Zenon
  <2>5. <<MEMR, MEMR>> \o <<MEMW, MEMW>> = <<MEMR, MEMR, MEMW, MEMW>>
    <3>1. MEMR \in Statuses /\ MEMW \in Statuses
      BY <1>0
    <3> QED BY <3>1, Quadruples, Zenon
  <2>6. <<MEMR, MEMR>> \o <<MEMR, MEMR>> = <<MEMR, MEMR, MEMR, MEMR>>
    <3>1. MEMR \in Statuses
      BY <1>0
    <3> QED BY <3>1, Quadruples, Zenon
  <2>7. <<MEMR, MEMR>> \o <<STACKW, STACKW>> = <<MEMR, MEMR, STACKW, STACKW>>
    <3>1. MEMR \in Statuses /\ STACKW \in Statuses
      BY <1>0
    <3> QED BY <3>1, Quadruples, Zenon
  <2> QED BY <2>2, <2>3, <2>4, <2>5, <2>6, <2>7, Zenon
<1>2. /\ <<STACKR, STACKR>> \o <<STACKW, STACKW>> = <<STACKR, STACKR, STACKW, STACKW>>
      /\ <<MEMR>> \o <<INPR>> = <<MEMR, INPR>> /\ <<MEMR>> \o <<OUTW>> = <<MEMR, OUTW>>
  <2>1. <<STACKR, STACKR>> \o <<STACKW, STACKW>> = <<STACKR, STACKR, STACKW, STACKW>>
    <3>1. STACKR \in Statuses /\ STACKW \in Statuses
      BY <1>0
    <3> QED BY <3>1, Quadruples, Zenon
  <2>2. <<MEMR>> \o <<INPR>> = <<MEMR, INPR>>
    BY <1>0, Pairs, Zenon
  <2>3. <<MEMR>> \o <<OUTW>> = <<MEMR, OUTW>>
    BY <1>0, Pairs, Zenon
  <2> QED BY <2>1, <2>2, <2>3, Zenon
<1>3. ASSUME op \in ADDR, NEW C, C = ClassOf(op),
             \A t \in TailsAt(op) : <<MEMR, MEMR>> \o t \in Interrupts!Tails(C)
      PROVE  TailsOf(op) \subseteq Interrupts!Tails(ClassOf(op))
  <2>1. TailsOf(op) = {<<MEMR, MEMR>> \o t : t \in TailsAt(op)}
    BY <1>3, Zenon DEF TailsOf
  <2> QED BY <1>3, <2>1, Zenon
<1>4. CASE op \in {\hC3, \hC2}
  <2>1. op \in ADDR /\ ClassOf(op) = "IMM2" /\ TailsAt(op) = {<< >>}
    BY <1>4 DEF ADDR, ClassOf, TailsAt
  <2> QED BY <1>1, <1>3, <2>1, ClassTails, Zenon
<1>5. CASE op = \h32
  <2>1. op \in ADDR /\ ClassOf(op) = "STA" /\ TailsAt(op) = {<<MEMW>>}
    BY <1>5 DEF ADDR, ClassOf, TailsAt
  <2> QED BY <1>1, <1>3, <2>1, ClassTails, Zenon
<1>6. CASE op = \h3A
  <2>1. op \in ADDR /\ ClassOf(op) = "LDA" /\ TailsAt(op) = {<<MEMR>>}
    BY <1>6 DEF ADDR, ClassOf, TailsAt
  <2> QED BY <1>1, <1>3, <2>1, ClassTails, Zenon
<1>7. CASE op = \h22
  <2>1. op \in ADDR /\ ClassOf(op) = "SHLD" /\ TailsAt(op) = {<<MEMW, MEMW>>}
    BY <1>7 DEF ADDR, ClassOf, TailsAt
  <2> QED BY <1>1, <1>3, <2>1, ClassTails, Zenon
<1>8. CASE op = \h2A
  <2>1. op \in ADDR /\ ClassOf(op) = "LHLD" /\ TailsAt(op) = {<<MEMR, MEMR>>}
    BY <1>8 DEF ADDR, ClassOf, TailsAt
  <2> QED BY <1>1, <1>3, <2>1, ClassTails, Zenon
<1>9. CASE op = \hCD
  <2>1. op \in ADDR /\ ClassOf(op) = "CALL" /\ TailsAt(op) = {<<STACKW, STACKW>>}
    BY <1>9 DEF ADDR, ClassOf, TailsAt
  <2> QED BY <1>1, <1>3, <2>1, ClassTails, Zenon
<1>10. CASE op = \hCC
  <2>1. op \in ADDR /\ ClassOf(op) = "CCC" /\ TailsAt(op) = {<< >>, <<STACKW, STACKW>>}
    BY <1>10 DEF ADDR, ClassOf, TailsAt
  <2> QED BY <1>1, <1>3, <2>1, ClassTails, Zenon
<1>11. CASE op \notin ADDR
  <2>1. TailsOf(op) = OtherTails(op)
    BY <1>11, Zenon DEF TailsOf
  <2>2. CASE op \in {\h3E, \h21, \h31, \h77, \h34}
    <3>1. op = \h3E => ClassOf(op) = "READ" /\ OtherTails(op) = {<<MEMR>>}
      BY DEF ClassOf, OtherTails
    <3>2. op \in {\h21, \h31} => ClassOf(op) = "IMM2" /\ OtherTails(op) = {<<MEMR, MEMR>>}
      BY DEF ClassOf, OtherTails
    <3>3. op = \h77 => ClassOf(op) = "WRITE" /\ OtherTails(op) = {<<MEMW>>}
      BY DEF ClassOf, OtherTails
    <3>4. op = \h34 => ClassOf(op) = "RMW" /\ OtherTails(op) = {<<MEMR, MEMW>>}
      BY DEF ClassOf, OtherTails
    <3>5. \/ ClassOf(op) = "READ" /\ OtherTails(op) = {<<MEMR>>}
          \/ ClassOf(op) = "IMM2" /\ OtherTails(op) = {<<MEMR, MEMR>>}
          \/ ClassOf(op) = "WRITE" /\ OtherTails(op) = {<<MEMW>>}
          \/ ClassOf(op) = "RMW" /\ OtherTails(op) = {<<MEMR, MEMW>>}
      BY <2>2, <3>1, <3>2, <3>3, <3>4
    <3> QED BY <2>1, <3>5, ClassTails, Zenon
  <2>3. CASE op \in {\hC9, \hC8, \hFF, \hF5, \hE1}
    <3>1. \/ ClassOf(op) = "RET" /\ OtherTails(op) = {<<STACKR, STACKR>>}
          \/ ClassOf(op) = "RCC" /\ OtherTails(op) = {<< >>, <<STACKR, STACKR>>}
          \/ ClassOf(op) = "RST" /\ OtherTails(op) = {<<STACKW, STACKW>>}
          \/ ClassOf(op) = "PUSH" /\ OtherTails(op) = {<<STACKW, STACKW>>}
          \/ ClassOf(op) = "POP" /\ OtherTails(op) = {<<STACKR, STACKR>>}
      BY <2>3 DEF ClassOf, OtherTails
    <3> QED BY <2>1, <3>1, ClassTails, Zenon
  <2>4. CASE op \in {\hE3, \hDB, \hD3}
    <3>1. \/ ClassOf(op) = "XTHL" /\ OtherTails(op) = {<<STACKR, STACKR>> \o <<STACKW, STACKW>>}
          \/ ClassOf(op) = "IN" /\ OtherTails(op) = {<<MEMR>> \o <<INPR>>}
          \/ ClassOf(op) = "OUT" /\ OtherTails(op) = {<<MEMR>> \o <<OUTW>>}
      BY <2>4 DEF ClassOf, OtherTails
    <3> QED BY <1>2, <2>1, <3>1, ClassTails, Zenon
  <2>5. CASE op \notin {\h3E, \h21, \h31, \h77, \h34, \hC9, \hC8, \hFF, \hF5, \hE1,
                        \hE3, \hDB, \hD3}
    <3>1. ClassOf(op) \in {"REG", "EI", "DI", "HLT"} /\ OtherTails(op) = {<< >>}
      BY <1>11, <2>5 DEF ClassOf, OtherTails, ADDR
    <3> QED BY <2>1, <3>1, ClassTails, Zenon
  <2> QED BY <2>2, <2>3, <2>4, <2>5
<1> QED BY <1>4, <1>5, <1>6, <1>7, <1>8, <1>9, <1>10, <1>11 DEF ADDR

(* What an instruction does to interrupt control, in the words of             *)
(* I8080Interrupts.                                                          *)
LEMMA SameAfter ==
  ASSUME NEW op, NEW i \in BOOLEAN, NEW h \in BOOLEAN
  PROVE  /\ InteThen(op, i) = Interrupts!InteAfter(ClassOf(op), i)
         /\ HaltedThen(op, h) = Interrupts!HaltedAfter(ClassOf(op), h)
<1>1. InteThen(op, i) = Interrupts!InteAfter(ClassOf(op), i)
  <2>1. CASE op = \hFB
    <3>1. ClassOf(op) = "EI"
      BY <2>1, ClassControls
    <3>2. InteThen(op, i) = TRUE
      BY <2>1 DEF InteThen
    <3>3. Interrupts!InteAfter(ClassOf(op), i) = TRUE
      BY <3>1, Zenon DEF Interrupts!InteAfter
    <3> QED BY <3>2, <3>3
  <2>2. CASE op = \hF3
    <3>1. ClassOf(op) = "DI" /\ ClassOf(op) # "EI" /\ op # \hFB
      BY <2>2, ClassControls
    <3>2. InteThen(op, i) = FALSE
      BY <2>2, <3>1 DEF InteThen
    <3>3. Interrupts!InteAfter(ClassOf(op), i) = FALSE
      BY <3>1, Zenon DEF Interrupts!InteAfter
    <3> QED BY <3>2, <3>3
  <2>3. CASE op # \hFB /\ op # \hF3
    BY <2>3, ClassControls DEF InteThen, Interrupts!InteAfter
  <2> QED BY <2>1, <2>2, <2>3
<1>2. HaltedThen(op, h) = Interrupts!HaltedAfter(ClassOf(op), h)
  <2>1. CASE op = \h76
    <3>1. ClassOf(op) = "HLT"
      BY <2>1, ClassControls
    <3> QED BY <2>1, <3>1 DEF HaltedThen, Interrupts!HaltedAfter
  <2>2. CASE op # \h76
    BY <2>2, ClassControls DEF HaltedThen, Interrupts!HaltedAfter
  <2> QED BY <2>1, <2>2
<1> QED BY <1>1, <1>2

LEMMA SameDelay ==
  ASSUME NEW op, NEW d
  PROVE  /\ DelayThen(op, d) = Interrupts!DelayAfter(ClassOf(op), d)
         /\ GraceThen(op, d) = Interrupts!GraceAfter(ClassOf(op), d)
<1>1. DelayThen(op, d) = Interrupts!DelayAfter(ClassOf(op), d)
  <2>1. CASE op = \hFB
    <3>1. ClassOf(op) = "EI"
      BY <2>1, ClassControls
    <3> QED BY <2>1, <3>1 DEF DelayThen, Interrupts!DelayAfter
  <2>2. CASE op = \hF3
    <3>1. ClassOf(op) = "DI" /\ ClassOf(op) # "EI" /\ op # \hFB
      BY <2>2, ClassControls
    <3> QED BY <2>2, <3>1 DEF DelayThen, Interrupts!DelayAfter
  <2>3. CASE op # \hFB /\ op # \hF3
    BY <2>3, ClassControls DEF DelayThen, Interrupts!DelayAfter
  <2> QED BY <2>1, <2>2, <2>3
<1>2. GraceThen(op, d) = Interrupts!GraceAfter(ClassOf(op), d)
  BY <1>1, Zenon DEF GraceThen, Interrupts!GraceAfter
<1> QED BY <1>1, <1>2

(* What a step leaves, with the tail of the class. *)
LEMMA SteppedInClass ==
  ASSUME NEW d, NEW op, NEW i, NEW h, NEW e, NEW p, NEW v, NEW first,
         SteppedTo(d, op, i, h, e, p, v, first)
  PROVE  /\ \E tail \in Interrupts!Tails(ClassOf(op)) : StatusOf(d) = <<first>> \o tail
         /\ d.inte = InteThen(op, i) /\ d.halted = HaltedThen(op, h)
         /\ d.int_delay = e /\ d.int_pending = p /\ d.int_vector = v
<1>1. PICK t \in TailsOf(op) : StatusOf(d) = <<first>> \o t
  BY DEF SteppedTo
<1>2. t \in Interrupts!Tails(ClassOf(op))
  BY TailsInClass
<1>3. /\ d.inte = InteThen(op, i) /\ d.halted = HaltedThen(op, h)
      /\ d.int_delay = e /\ d.int_pending = p /\ d.int_vector = v
  BY DEF SteppedTo
<1> QED BY <1>1, <1>2, <1>3, Zenon

(* A step of the CPU is a step of I8080Interrupts. *)
LEMMA CpuStepsImplement ==
  ASSUME CpuStepsTo(cpu, cpu'), cpu.inte \in BOOLEAN, cpu.halted \in BOOLEAN
  PROVE  Interrupts!CpuStep
<1> DEFINE c == cpu
           d == cpu'
<1>0. /\ StatusOf(cpu') = [i \in DOMAIN cpu'.mc |-> cpu'.mc[i].status]
      /\ Interrupts!CanAcknowledge <=> CanAcknowledge(cpu)
  BY DEF StatusOf, CanAcknowledge, Interrupts!CanAcknowledge
<1>2. CASE CanAcknowledge(cpu) /\
           SteppedTo(cpu', cpu.int_vector, FALSE, FALSE,
                     DelayThen(cpu.int_vector, cpu.int_delay), FALSE, cpu.int_vector,
                     IF cpu.halted THEN INTA_HALT ELSE INTA)
  <2> DEFINE C == ClassOf(cpu.int_vector)
             no == FALSE
             first == IF cpu.halted THEN INTA_HALT ELSE INTA
             e == DelayThen(cpu.int_vector, cpu.int_delay)
  <2>1. e = Interrupts!DelayAfter(C, cpu.int_delay)
    BY SameDelay
  <2>2. first = IF cpu.halted THEN Interrupts!INTA_HALT ELSE Interrupts!INTA
    BY SameStatusWords
  <2>3. /\ SteppedTo(cpu', cpu.int_vector, no, no, e, no, cpu.int_vector, first)
        /\ no \in BOOLEAN /\ no = FALSE
    BY <1>2
  <2> HIDE DEF e, first, no
  <2>4. /\ \E tail \in Interrupts!Tails(C) : StatusOf(cpu') = <<first>> \o tail
        /\ cpu'.inte = InteThen(cpu.int_vector, no)
        /\ cpu'.halted = HaltedThen(cpu.int_vector, no)
        /\ cpu'.int_delay = e /\ cpu'.int_pending = no /\ cpu'.int_vector = cpu.int_vector
    BY <2>3, SteppedInClass
  <2>7. /\ InteThen(cpu.int_vector, no) = Interrupts!InteAfter(C, no)
        /\ HaltedThen(cpu.int_vector, no) = Interrupts!HaltedAfter(C, no)
    BY <2>3, SameAfter
  <2>5. /\ \E tail \in Interrupts!Tails(C) :
             [k \in DOMAIN cpu'.mc |-> cpu'.mc[k].status]
               = <<IF cpu.halted THEN Interrupts!INTA_HALT ELSE Interrupts!INTA>> \o tail
        /\ cpu'.inte = Interrupts!InteAfter(C, FALSE)
        /\ cpu'.halted = Interrupts!HaltedAfter(C, FALSE)
        /\ cpu'.int_delay = Interrupts!DelayAfter(C, cpu.int_delay)
        /\ cpu'.int_pending = FALSE /\ ClassOf(cpu'.int_vector) = C
    BY <1>0, <2>1, <2>2, <2>3, <2>4, <2>7, Zenon
  <2>6. Interrupts!Acknowledge
    BY <1>0, <1>2, <2>5, Zenon DEF Interrupts!Acknowledge
  <2> QED BY <2>6 DEF Interrupts!CpuStep
<1>3. CASE /\ ~CanAcknowledge(cpu) /\ cpu.halted /\ StatusOf(cpu') = <<HALTA>>
           /\ cpu'.inte = cpu.inte /\ cpu'.halted = cpu.halted
           /\ cpu'.int_delay = cpu.int_delay
           /\ cpu'.int_pending = cpu.int_pending /\ cpu'.int_vector = cpu.int_vector
  <2>1. Interrupts!HaltCycle
    BY <1>0, <1>3, SameStatusWords DEF Interrupts!HaltCycle
  <2> QED BY <2>1 DEF Interrupts!CpuStep
<1>4. CASE /\ ~CanAcknowledge(cpu) /\ ~cpu.halted
           /\ \E op \in Byte :
                SteppedTo(cpu', op, cpu.inte, cpu.halted, GraceThen(op, cpu.int_delay),
                          cpu.int_pending, cpu.int_vector, FETCH)
  <2>1. PICK op \in Byte :
                SteppedTo(cpu', op, cpu.inte, cpu.halted, GraceThen(op, cpu.int_delay),
                          cpu.int_pending, cpu.int_vector, FETCH)
    BY <1>4
  <2> DEFINE C == ClassOf(op)
             e == GraceThen(op, cpu.int_delay)
  <2>2. e = Interrupts!GraceAfter(C, cpu.int_delay) /\ C \in Interrupts!Opcode
    BY SameDelay, ClassControls
  <2>3. SteppedTo(cpu', op, cpu.inte, cpu.halted, e, cpu.int_pending, cpu.int_vector, FETCH)
    BY <2>1
  <2> HIDE DEF e
  <2>4. /\ \E tail \in Interrupts!Tails(C) : StatusOf(cpu') = <<FETCH>> \o tail
        /\ cpu'.inte = InteThen(op, cpu.inte)
        /\ cpu'.halted = HaltedThen(op, cpu.halted)
        /\ cpu'.int_delay = e /\ cpu'.int_pending = cpu.int_pending
        /\ cpu'.int_vector = cpu.int_vector
    BY <2>3, SteppedInClass
  <2>6. /\ InteThen(op, cpu.inte) = Interrupts!InteAfter(C, cpu.inte)
        /\ HaltedThen(op, cpu.halted) = Interrupts!HaltedAfter(C, cpu.halted)
    BY SameAfter
  <2> HIDE DEF C
  <2>5. Interrupts!Instruction(C)
    <3>1. \E tail \in Interrupts!Tails(C) :
             [k \in DOMAIN cpu'.mc |-> cpu'.mc[k].status] = <<Interrupts!FETCH>> \o tail
      BY <1>0, <2>4, SameStatusWords, Zenon
    <3>2. ClassOf(cpu'.int_vector) = ClassOf(cpu.int_vector)
      BY <2>4
    <3> QED BY <1>0, <1>4, <2>2, <2>4, <2>6, <3>1, <3>2, Zenon DEF Interrupts!Instruction
  <2> QED BY <2>2, <2>5 DEF Interrupts!CpuStep
<1> QED BY <1>2, <1>3, <1>4 DEF CpuStepsTo

(* The other ways in which control changes: a reset, and a request.         *)
LEMMA ResetImplements ==
  ASSUME cpu' = ResetCpu
  PROVE  Interrupts!Reset
<1>1. ClassOf(0) = "REG"
  BY DEF ClassOf
<1>2. /\ ResetCpu.inte = FALSE /\ ResetCpu.halted = FALSE /\ ResetCpu.int_pending = FALSE
      /\ ResetCpu.int_vector = 0 /\ ResetCpu.int_delay = 0 /\ ResetCpu.mc = << >>
  BY DEF ResetCpu
<1>3. [i \in DOMAIN ResetCpu.mc |-> ResetCpu.mc[i].status] = << >>
  BY <1>2
<1> QED BY <1>1, <1>2, <1>3 DEF Interrupts!Reset

LEMMA RequestImplements ==
  ASSUME cpu' = [cpu EXCEPT !.int_pending = TRUE, !.int_vector = \hFF], cpu \in Cpus
  PROVE  Interrupts!Interrupt("RST")
<1>1. ClassOf(\hFF) = "RST"
  BY DEF ClassOf
<1> QED BY <1>1 DEF Interrupts!Interrupt, Cpus
===============================================================================
