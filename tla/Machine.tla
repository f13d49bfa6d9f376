------------------------------- MODULE Machine -------------------------------
(***************************************************************************)
(* The УМК-80 of core/src/machine.c running the 8080 of core/src/i8080.c:  *)
(* memory decoding, keyboard, parallel port, panel and CPU, as operators   *)
(* on a record m that plays the part of umk_machine_t.  Module UmkMachine  *)
(* turns the calls of the program into actions.                            *)
(*                                                                         *)
(* One opcode stands for every way an instruction drives the bus, the      *)
(* flags and the interrupt logic; registers B, C, D, E and every flag but  *)
(* Z are left out (the conditions differ only in the flag they test).  The *)
(* display keeps only the T state it is integrated up to.                  *)
(***************************************************************************)
EXTENDS Integers, Sequences, FiniteSets, SequencesExt

CONSTANTS
  RamBase,  \* UMK_RAM_BASE, also the ROM size
  RamMax    \* UMK_RAM_MAX, the decoded window

ASSUME MemoryAssumption ==
  /\ {RamBase, RamMax} \subseteq Nat \ {0}
  /\ RamBase + RamMax <= 65536

Byte    == 0 .. 255
Address == 0 .. 65535

FETCH     == \hA2
MEMR      == \h82
MEMW      == \h00
STACKR    == \h86
STACKW    == \h04
INPR      == \h42
OUTW      == \h10
INTA      == \h23
HALTA     == \h8A
INTA_HALT == \h2B

PORT_A == \hF8  PORT_B == \hF9  PORT_C == \hFA  PORT_CTRL == \hFB  PORT_DBG == \hFC

(* Bit b of x, and x with bit b set or cleared. *)
Bit(x, b) == (x \div 2^b) % 2 = 1
WithBit(x, b, on) == IF Bit(x, b) = on THEN x ELSE IF on THEN x + 2^b ELSE x - 2^b

-----------------------------------------------------------------------------
(* Memory: ROM below RamBase, RAM repeated over its window, nothing above.   *)
(* The RAM fitted, ram_size, is the domain of m.ram.                         *)
InRom(addr) == addr < RamBase
InRam(addr) == addr \in RamBase .. RamBase + RamMax - 1
RamIndex(m, addr) == (addr - RamBase) % Cardinality(DOMAIN m.ram)

umk_peek(m, addr) ==
  IF InRom(addr) THEN m.rom[addr]
  ELSE IF InRam(addr) THEN m.ram[RamIndex(m, addr)]
  ELSE \hFF

JournalSize == 8

(* During a dry run a write first saves the byte it replaces, if there is room. *)
Journal(m, idx) ==
  IF m.trial.on /\ Len(m.trial.log) < JournalSize
  THEN [m EXCEPT !.trial.log = Append(@, [idx |-> idx, old |-> m.ram[idx]])]
  ELSE m

umk_poke(m, addr, val) ==
  IF InRam(addr)
  THEN [Journal(m, RamIndex(m, addr)) EXCEPT !.ram[RamIndex(m, addr)] = val]
  ELSE m

-----------------------------------------------------------------------------
(* Keyboard and КР580ВВ55А. *)
RowMask == <<4, 16, 32, 64>>

(* A pressed key pulls its row low while port A drives its column. *)
Pulled(m, row) ==
  IF \E k \in m.kbd : k[2] = row /\ Bit(m.ppi.out_a, k[1]) THEN RowMask[row + 1] ELSE 0

keyboard_scan(m) == \hFF - Pulled(m, 0) - Pulled(m, 1) - Pulled(m, 2) - Pulled(m, 3)

ppi_write_control(p, val) ==
  IF Bit(val, 7)
  THEN [ctrl |-> val, out_a |-> 0, out_b |-> 0, out_c |-> 0,
        a_is_out |-> ~Bit(val, 4), c_hi_is_out |-> ~Bit(val, 3),
        b_is_out |-> ~Bit(val, 1), c_lo_is_out |-> ~Bit(val, 0)]
  ELSE [p EXCEPT !.out_c = WithBit(@, (val \div 2) % 8, Bit(val, 0))]

PowerOnPpi ==
  ppi_write_control([ctrl |-> 0, out_a |-> 0, out_b |-> 0, out_c |-> 0,
                     a_is_out |-> FALSE, b_is_out |-> FALSE,
                     c_lo_is_out |-> FALSE, c_hi_is_out |-> FALSE], \h9B)

display_advance(m, to) ==
  IF to <= m.integrated_to THEN m ELSE [m EXCEPT !.integrated_to = to]

bus_in(m, port) ==
  CASE port = PORT_A -> IF m.ppi.a_is_out THEN m.ppi.out_a ELSE \hFF
    [] port = PORT_B -> IF m.ppi.b_is_out THEN m.ppi.out_b ELSE \hFF
    [] port = PORT_C -> keyboard_scan(m)
    [] port = PORT_DBG -> m.step.dbg_port
    [] OTHER -> \hFF

(* The port changes from this T state of the OUT instruction onwards. *)
OUT_WRITE_OFFSET == 7

bus_out(m, port, val) ==
  LET shown == display_advance(m, m.step_start_cycles + OUT_WRITE_OFFSET)
      low   == IF m.ppi.c_lo_is_out THEN val % 16 ELSE m.ppi.out_c % 16
      high  == IF m.ppi.c_hi_is_out THEN val \div 16 ELSE m.ppi.out_c \div 16
  IN  CASE port = PORT_A -> [shown EXCEPT !.ppi.out_a = IF m.ppi.a_is_out THEN val ELSE @]
        [] port = PORT_B -> [shown EXCEPT !.ppi.out_b = IF m.ppi.b_is_out THEN val ELSE @]
        [] port = PORT_C -> [m EXCEPT !.ppi.out_c = 16 * high + low]
        [] port = PORT_CTRL -> [shown EXCEPT !.ppi = ppi_write_control(@, val)]
        [] port = PORT_DBG -> [m EXCEPT !.step.dbg_port = val]
        [] OTHER -> [m EXCEPT !.unmapped_io_writes = @ + 1]

-----------------------------------------------------------------------------
(* The CPU's bus cycles: each is logged in the trace, which has six entries. *)
TraceSize == 6
Word(n) == n % 65536

mc_log(m, status, addr, data) ==
  IF Len(m.cpu.mc) < TraceSize
  THEN [m EXCEPT !.cpu.mc = Append(@, [status |-> status, addr |-> addr, data |-> data])]
  ELSE m

bus_rd(m, addr, status) == mc_log(m, status, addr, umk_peek(m, addr))
bus_wr(m, addr, val, status) == mc_log(umk_poke(m, addr, val), status, addr, val)
in_cycle(m, port) == mc_log(m, INPR, 257 * port, bus_in(m, port))
out_cycle(m, port, val) == mc_log(bus_out(m, port, val), OUTW, 257 * port, val)

(* Values at pc and at sp, and the machine once they have been read. *)
Imm8(m)  == umk_peek(m, m.cpu.pc)
Imm16(m) == umk_peek(m, m.cpu.pc) + 256 * umk_peek(m, Word(m.cpu.pc + 1))
Top16(m) == umk_peek(m, m.cpu.sp) + 256 * umk_peek(m, Word(m.cpu.sp + 1))

fetch8(m)  == [bus_rd(m, m.cpu.pc, MEMR) EXCEPT !.cpu.pc = Word(@ + 1)]
fetch16(m) == fetch8(fetch8(m))

push16(m, v) ==
  LET high == bus_wr(m, Word(m.cpu.sp - 1), v \div 256, STACKW)
      low  == bus_wr(high, Word(m.cpu.sp - 2), v % 256, STACKW)
  IN  [low EXCEPT !.cpu.sp = Word(@ - 2)]

pop16(m) ==
  LET low  == bus_rd(m, m.cpu.sp, STACKR)
      high == bus_rd(low, Word(m.cpu.sp + 1), STACKR)
  IN  [high EXCEPT !.cpu.sp = Word(@ + 2)]

Goto(m, addr) == [m EXCEPT !.cpu.pc = addr]
Call(m, addr) == Goto(push16(m, m.cpu.pc), addr)

(* A and the flags as PUSH PSW sees them: bit 1 always reads as 1. *)
PSW(c) == 256 * c.a + (IF c.z THEN \h42 ELSE \h02)

-----------------------------------------------------------------------------
(* execute, one opcode per class of module I8080Interrupts; every opcode not  *)
(* listed is taken for one that changes only registers left out here.        *)
SetZ(m, v) == [m EXCEPT !.cpu.z = (v = 0)]
Decremented(v) == (v + 255) % 256
Incremented(v) == (v + 1) % 256

(* The opcodes with an address; m has read it already. *)
ADDR == {\h32, \h3A, \h22, \h2A, \hC3, \hC2, \hCD, \hCC}

execute_at(m, op, addr) ==
  CASE op = \h32 -> bus_wr(m, addr, m.cpu.a, MEMW)                       \* STA
    [] op = \h3A -> [bus_rd(m, addr, MEMR) EXCEPT !.cpu.a = umk_peek(m, addr)] \* LDA
    [] op = \h22 -> bus_wr(bus_wr(m, addr, m.cpu.hl % 256, MEMW),        \* SHLD
                           Word(addr + 1), m.cpu.hl \div 256, MEMW)
    [] op = \h2A -> [bus_rd(bus_rd(m, addr, MEMR), Word(addr + 1), MEMR) \* LHLD
                      EXCEPT !.cpu.hl = umk_peek(m, addr) + 256 * umk_peek(m, Word(addr + 1))]
    [] op = \hC3 -> Goto(m, addr)                                        \* JMP
    [] op = \hC2 -> IF m.cpu.z THEN m ELSE Goto(m, addr)                 \* JNZ
    [] op = \hCD -> Call(m, addr)                                        \* CALL
    [] op = \hCC -> IF m.cpu.z THEN Call(m, addr) ELSE m                 \* CZ

execute(m, op) ==
  CASE op \in ADDR -> execute_at(fetch16(m), op, Imm16(m))
    [] op = \h00 -> m                                                    \* NOP
    [] op = \h3D -> SetZ([m EXCEPT !.cpu.a = Decremented(@)],            \* DCR A
                         Decremented(m.cpu.a))
    [] op = \h3E -> [fetch8(m) EXCEPT !.cpu.a = Imm8(m)]                 \* MVI A
    [] op = \h21 -> [fetch16(m) EXCEPT !.cpu.hl = Imm16(m)]              \* LXI H
    [] op = \h31 -> [fetch16(m) EXCEPT !.cpu.sp = Imm16(m)]              \* LXI SP
    [] op = \h77 -> bus_wr(m, m.cpu.hl, m.cpu.a, MEMW)                   \* MOV M,A
    [] op = \h34 -> LET v == Incremented(umk_peek(m, m.cpu.hl))          \* INR M
                    IN  SetZ(bus_wr(bus_rd(m, m.cpu.hl, MEMR), m.cpu.hl, v, MEMW), v)
    [] op = \hC9 -> Goto(pop16(m), Top16(m))                             \* RET
    [] op = \hC8 -> IF m.cpu.z THEN Goto(pop16(m), Top16(m)) ELSE m      \* RZ
    [] op = \hFF -> Call(m, \h38)                                        \* RST 7
    [] op = \hF5 -> push16(m, PSW(m.cpu))                                \* PUSH PSW
    [] op = \hE1 -> [pop16(m) EXCEPT !.cpu.hl = Top16(m)]                \* POP H
    [] op = \hE3 -> [push16(pop16(m), m.cpu.hl) EXCEPT !.cpu.hl = Top16(m)] \* XTHL
    [] op = \hDB -> [in_cycle(fetch8(m), Imm8(m)) EXCEPT                 \* IN
                      !.cpu.a = bus_in(m, Imm8(m))]
    [] op = \hD3 -> out_cycle(fetch8(m), Imm8(m), m.cpu.a)               \* OUT
    [] op = \hF3 -> [m EXCEPT !.cpu = [@ EXCEPT !.inte = FALSE, !.int_delay = 0]] \* DI
    [] op = \hFB -> [m EXCEPT !.cpu = [@ EXCEPT !.inte = TRUE, !.int_delay = 1]]  \* EI
    [] op = \h76 -> [m EXCEPT !.cpu.halted = TRUE]                       \* HLT
    [] OTHER -> m

(* T states; a conditional call or return costs more when it is taken. *)
CYCLES(m, op) ==
  CASE op = \h3D -> 5
    [] op \in {\h3E, \h77, \h76} -> 7
    [] op \in {\h21, \h31, \h34, \hC3, \hC2, \hC9, \hE1, \hDB, \hD3} -> 10
    [] op \in {\hFF, \hF5} -> 11
    [] op \in {\h32, \h3A} -> 13
    [] op \in {\h22, \h2A} -> 16
    [] op = \hCD -> 17
    [] op = \hE3 -> 18
    [] op = \hCC -> IF m.cpu.z THEN 17 ELSE 11
    [] op = \hC8 -> IF m.cpu.z THEN 11 ELSE 5
    [] OTHER -> 4

Spend(m, t) == [m EXCEPT !.cpu.cycles = @ + t]

CanAcknowledge(c) == c.int_pending /\ c.inte /\ c.int_delay = 0

Finish(m, op) == Spend(execute(m, op), CYCLES(m, op))

(* The three branches of i8080_step, on a machine whose trace is empty. *)
acknowledge(m) ==
  LET status == IF m.cpu.halted THEN INTA_HALT ELSE INTA
      taken  == [m EXCEPT !.cpu = [@ EXCEPT !.int_pending = FALSE, !.inte = FALSE,
                                            !.halted = FALSE]]
  IN  Finish(mc_log(taken, status, m.cpu.pc, m.cpu.int_vector), m.cpu.int_vector)

halt_cycle_Free(m) ==   \* mutant: a halt cycle takes no time
  mc_log(m, HALTA, m.cpu.pc, 0)

halt_cycle(m) == Spend(mc_log(m, HALTA, m.cpu.pc, 0), 4)

(* The instruction m has just executed consumes the grace of an EI before it, *)
(* unless it changed the delay itself.                                       *)
Graced(m, before) ==
  IF before > 0 /\ m.cpu.int_delay = before
  THEN [m EXCEPT !.cpu.int_delay = @ - 1] ELSE m

fetch_opcode(m) == [bus_rd(m, m.cpu.pc, FETCH) EXCEPT !.cpu.pc = Word(@ + 1)]

instruction_NoGrace(m) ==    \* mutant: the grace of EI is never consumed
  Finish(fetch_opcode(m), umk_peek(m, m.cpu.pc))

instruction(m) ==
  Graced(Finish(fetch_opcode(m), umk_peek(m, m.cpu.pc)), m.cpu.int_delay)

CpuStep(m) ==
  IF CanAcknowledge(m.cpu) THEN acknowledge(m)
  ELSE IF m.cpu.halted THEN halt_cycle(m)
  ELSE instruction(m)

i8080_step_TraceKept(m) == CpuStep(m)   \* mutant: mc_count is not zeroed first

i8080_step(m) == CpuStep([m EXCEPT !.cpu.mc = << >>])

Integrated(m) == display_advance(m, m.cpu.cycles)

exec_one(m) == Integrated(i8080_step([m EXCEPT !.step_start_cycles = m.cpu.cycles]))

(* i8080_reset *)
ResetCpu ==
  [a |-> 0, z |-> FALSE, hl |-> 0, sp |-> 0, pc |-> 0,
   inte |-> FALSE, halted |-> FALSE, int_pending |-> FALSE, int_vector |-> 0,
   int_delay |-> 0, cycles |-> 0, mc |-> << >>]
=============================================================================
