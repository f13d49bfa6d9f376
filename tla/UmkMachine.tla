------------------------------ MODULE UmkMachine ------------------------------
(***************************************************************************)
(* The calls that the front panel and the debugger make on the machine     *)
(* (core/src/machine.c), one action each.  Everything runs on one thread,  *)
(* so a call is atomic; what interleaves is the order in which buttons,    *)
(* keys and time slices reach the machine.                                 *)
(***************************************************************************)
EXTENDS Machine

CONSTANTS
  Programs,    \* ROM images to run
  Keys,        \* the <<column, row>> pairs that may be pressed
  RamSizes,    \* sizes of the RAM fitted: the whole window, half on revision 1
  Slices,      \* T states asked of one umk_run_cycles call
  MaxCycles,   \* bound on the T states run between two resets
  MaxResets    \* bound on the presses of СБ, which keep the contents of RAM

ASSUME UmkAssumption ==
  /\ Programs \subseteq Seq(Byte)
  /\ Keys \subseteq (0 .. 5) \X (0 .. 3)
  /\ RamSizes \subseteq 1 .. RamMax
  /\ Slices \subseteq Nat \ {0}
  /\ {MaxCycles, MaxResets} \subseteq Nat

VARIABLES
  rom, ram,             \* memory
  cpu,                  \* i8080_t, with its machine-cycle trace cpu.mc
  ppi,                  \* umk_ppi_t
  integrated_to,        \* of umk_display_t: T state the display has reached
  panel,                \* address, data and status LEDs
  step,                 \* umk_step_t; step.mc is the dry run's trace, and its
                        \* length is mc_total
  kbd,                  \* keys pressed
  step_start_cycles,    \* when the instruction in progress started
  unmapped_io_writes,
  trial,                \* dry-run flag and write journal
  resets                \* presses of СБ so far, only to bound them

vars == <<rom, ram, cpu, ppi, integrated_to, panel, step, kbd,
          step_start_cycles, unmapped_io_writes, trial, resets>>

(* The state as the structure that the operators of Machine work on. *)
Now ==
  [rom |-> rom, ram |-> ram, cpu |-> cpu, ppi |-> ppi,
   integrated_to |-> integrated_to, panel |-> panel, step |-> step, kbd |-> kbd,
   step_start_cycles |-> step_start_cycles,
   unmapped_io_writes |-> unmapped_io_writes, trial |-> trial]

Becomes(m) ==
  /\ rom' = m.rom /\ ram' = m.ram /\ cpu' = m.cpu /\ ppi' = m.ppi
  /\ integrated_to' = m.integrated_to /\ panel' = m.panel
  /\ step' = m.step /\ kbd' = m.kbd
  /\ step_start_cycles' = m.step_start_cycles
  /\ unmapped_io_writes' = m.unmapped_io_writes /\ trial' = m.trial

NoTrial == [on |-> FALSE, log |-> << >>]
DarkPanel == [address |-> 0, data |-> 0, status |-> 0]

(* A machine at power-on, with `size` bytes of RAM and a blank ROM. *)
umk_init(size) ==
  [rom |-> [a \in 0 .. RamBase - 1 |-> 0], ram |-> [i \in 0 .. size - 1 |-> 0],
   cpu |-> ResetCpu, ppi |-> PowerOnPpi, integrated_to |-> 0, panel |-> DarkPanel,
   step |-> [latch_step |-> FALSE, latch_cycle |-> FALSE, waiting |-> FALSE,
             dbg_port |-> 0, mc_index |-> 0, mc |-> << >>],
   kbd |-> {}, step_start_cycles |-> 0, unmapped_io_writes |-> 0, trial |-> NoTrial]

(* An image that does not fit is refused. *)
umk_load_rom(m, offset, data) ==
  IF offset + Len(data) > RamBase THEN m
  ELSE [m EXCEPT !.rom = [a \in DOMAIN @ |-> IF a - offset + 1 \in DOMAIN data
                                             THEN data[a - offset + 1] ELSE @[a]]]

(* The machine as one of the programs left it at power-on. *)
PowerOn(m) ==
  /\ rom = m.rom /\ ram = m.ram /\ cpu = m.cpu /\ ppi = m.ppi
  /\ integrated_to = m.integrated_to /\ panel = m.panel
  /\ step = m.step /\ kbd = m.kbd
  /\ step_start_cycles = m.step_start_cycles
  /\ unmapped_io_writes = m.unmapped_io_writes /\ trial = m.trial
  /\ resets = 0

Init ==
  \E image \in Programs, size \in RamSizes :
    PowerOn(umk_load_rom(umk_init(size), 0, image))

-----------------------------------------------------------------------------
Show(m, cycle) ==
  [m EXCEPT !.panel = [address |-> cycle.addr, data |-> cycle.data,
                       status |-> cycle.status]]

panel_update(m) == IF m.cpu.mc = << >> THEN m ELSE Show(m, Last(m.cpu.mc))

(* Runs the instruction with the journal on. *)
dry_run(m) == exec_one([m EXCEPT !.trial = [on |-> TRUE, log |-> << >>]])

(* RAM restored from the journal, last write first: a cell gets back what its *)
(* first entry saved.                                                        *)
Entries(log, i) == {k \in DOMAIN log : log[k].idx = i}
FirstEntry(log, i) == CHOOSE k \in Entries(log, i) : \A j \in Entries(log, i) : k <= j

Restored(ram0, log) ==
  [i \in DOMAIN ram0 |-> IF Entries(log, i) = {} THEN ram0[i] ELSE log[FirstEntry(log, i)].old]

(* The machine m after a dry run that ended in `ran`: the trace is kept, RAM  *)
(* restored, the others from copies.                                         *)
Undone(m, ran) ==
  [ran EXCEPT !.step = [@ EXCEPT !.mc = ran.cpu.mc, !.dbg_port = m.step.dbg_port],
              !.ram = Restored(ran.ram, ran.trial.log),
              !.trial = NoTrial,
              !.cpu = m.cpu,
              !.ppi = m.ppi,
              !.integrated_to = m.integrated_to,
              !.panel = m.panel,
              !.step_start_cycles = m.step_start_cycles,
              !.unmapped_io_writes = m.unmapped_io_writes]

(* Mutants: the trial flag stays on, the display or the debug port keeps      *)
(* what the dry run did to it.                                               *)
StillOn(m, ran)     == [Undone(m, ran) EXCEPT !.trial.on = TRUE]
DisplayKept(m, ran) == [Undone(m, ran) EXCEPT !.integrated_to = ran.integrated_to]
PortKept(m, ran)    == [Undone(m, ran) EXCEPT !.step.dbg_port = ran.step.dbg_port]
step_probe_StillOn(m)     == StillOn(m, dry_run(m))
step_probe_DisplayKept(m) == DisplayKept(m, dry_run(m))
step_probe_PortKept(m)    == PortKept(m, dry_run(m))

step_probe(m) == Undone(m, dry_run(m))

umk_step_instruction(m) ==
  panel_update([exec_one(m) EXCEPT !.step.mc_index = 0])

(* One machine cycle, once the sequence in step.mc is known: the last one     *)
(* executes the instruction, an earlier one only refreshes the panel.        *)
NextCycle(m) ==
  IF m.step.mc_index + 1 >= Len(m.step.mc)
  THEN [panel_update(exec_one(m)) EXCEPT !.step.mc_index = 0]
  ELSE [Show(m, m.step.mc[m.step.mc_index + 1]) EXCEPT !.step.mc_index = @ + 1]

umk_step_machine_cycle(m) ==
  NextCycle(IF m.step.mc_index = 0 THEN step_probe(m) ELSE m)

umk_press_step(m) ==
  IF ~m.step.latch_step THEN m
  ELSE IF m.step.latch_cycle THEN umk_step_machine_cycle(m)
  ELSE umk_step_instruction(m)

(* The loop of umk_run_cycles: an instruction takes 4 T states or more, so   *)
(* `cycles` turns are enough.                                                *)
Turn(m, cycles, p) == IF p.cpu.cycles - m.cpu.cycles < cycles THEN exec_one(p) ELSE p

Turns(m, cycles) ==
  LET turn[n \in 0 .. cycles] == IF n = 0 THEN m ELSE Turn(m, cycles, turn[n - 1]) IN turn

umk_run_cycles(m, cycles) ==
  IF m.step.latch_step THEN m ELSE panel_update(Turns(m, cycles)[cycles])

umk_set_switch_KeepsIndex(m, sw, latched) ==   \* mutant: mc_index survives
  IF sw = "STEP"
  THEN [m EXCEPT !.step = [@ EXCEPT !.latch_step = latched, !.waiting = latched]]
  ELSE [m EXCEPT !.step.latch_cycle = latched]

umk_set_switch(m, sw, latched) ==
  IF sw = "STEP"
  THEN [m EXCEPT !.step = [@ EXCEPT !.latch_step = latched, !.waiting = latched,
                                    !.mc_index = IF latched THEN m.step.mc_index ELSE 0]]
  ELSE [m EXCEPT !.step = [@ EXCEPT !.latch_cycle = latched, !.mc_index = 0]]

umk_reset_KeepsIndex(m) ==   \* mutant: СБ does not abandon the sequence
  [m EXCEPT !.cpu = ResetCpu,
            !.ppi = ppi_write_control(@, \h9B),
            !.step.waiting = m.step.latch_step,
            !.step_start_cycles = 0,
            !.integrated_to = ResetCpu.cycles,
            !.panel = DarkPanel]

umk_reset_PowerOn(m) ==   \* mutant: СБ starts from umk_init
  umk_init(Cardinality(DOMAIN m.ram))

umk_reset(m) ==
  [m EXCEPT !.cpu = ResetCpu,
            !.ppi = ppi_write_control(@, \h9B),
            !.step = [@ EXCEPT !.waiting = m.step.latch_step, !.mc_index = 0],
            !.step_start_cycles = 0,
            !.integrated_to = ResetCpu.cycles,
            !.panel = DarkPanel]

umk_set_key(m, k, down) == [m EXCEPT !.kbd = IF down THEN @ \cup {k} ELSE @ \ {k}]

umk_interrupt(m) ==
  [m EXCEPT !.cpu = [@ EXCEPT !.int_pending = TRUE, !.int_vector = \hFF]]

-----------------------------------------------------------------------------
WithinBound == cpu.cycles < MaxCycles

RunCycles == WithinBound /\ UNCHANGED resets /\ \E n \in Slices : Becomes(umk_run_cycles(Now, n))
PressStep == WithinBound /\ UNCHANGED resets /\ Becomes(umk_press_step(Now))
SetSwitch == \E sw \in {"STEP", "CYCLE"}, on \in BOOLEAN :
                Becomes(umk_set_switch(Now, sw, on)) /\ UNCHANGED resets
Reset     == resets < MaxResets /\ resets' = resets + 1 /\ Becomes(umk_reset(Now))
Interrupt == Becomes(umk_interrupt(Now)) /\ UNCHANGED resets
SetKey    == \E k \in Keys, down \in BOOLEAN :
                Becomes(umk_set_key(Now, k, down)) /\ UNCHANGED resets

(* The front panel: time slices, buttons, switches and the keyboard. *)
PanelNext == RunCycles \/ PressStep \/ SetSwitch \/ Reset \/ Interrupt \/ SetKey

PanelSpec == Init /\ [][PanelNext]_vars

-----------------------------------------------------------------------------
Cycle == [status : {FETCH, MEMR, MEMW, STACKR, STACKW, INPR, OUTW, INTA, HALTA, INTA_HALT},
          addr : Address, data : Byte]

TypeOK ==
  /\ rom \in [0 .. RamBase - 1 -> Byte]
  /\ \E size \in RamSizes : ram \in [0 .. size - 1 -> Byte]
  /\ cpu \in [a : Byte, z : BOOLEAN, hl : Address, sp : Address, pc : Address,
              inte : BOOLEAN, halted : BOOLEAN, int_pending : BOOLEAN,
              int_vector : Byte, int_delay : {0, 1}, cycles : Nat, mc : Seq(Cycle)]
  /\ ppi \in [ctrl : Byte, out_a : Byte, out_b : Byte, out_c : Byte,
              a_is_out : BOOLEAN, b_is_out : BOOLEAN,
              c_lo_is_out : BOOLEAN, c_hi_is_out : BOOLEAN]
  /\ integrated_to \in Nat
  /\ panel \in [address : Address, data : Byte, status : Byte]
  /\ step \in [latch_step : BOOLEAN, latch_cycle : BOOLEAN, waiting : BOOLEAN,
               dbg_port : Byte, mc_index : 0 .. TraceSize, mc : Seq(Cycle)]
  /\ kbd \subseteq Keys
  /\ step_start_cycles \in Nat
  /\ unmapped_io_writes \in Nat
  /\ trial = NoTrial
  /\ resets \in 0 .. MaxResets

(* Between calls the display is integrated exactly up to the CPU's clock,    *)
(* through resets, dry runs and the port writes in the middle of an OUT.     *)
DisplayInSync == integrated_to = cpu.cycles

(* A dry run of whatever comes next never outgrows its journal (one entry    *)
(* per machine cycle is enough, umk80.h) nor the five-cycle trace.           *)
FitsTrace(ran) ==
  /\ Len(ran.trial.log) <= Len(ran.cpu.mc)
  /\ Len(ran.cpu.mc) \in 1 .. 5

DryRunFits == FitsTrace(dry_run(Now))

(* A press of ШГ executes one whole instruction or changes nothing but the   *)
(* panel and the position in the sequence: the dry run leaves no trace.      *)
NothingExecuted ==
  /\ UNCHANGED <<rom, ram, cpu, ppi, integrated_to, kbd, step_start_cycles,
                 unmapped_io_writes, trial>>
  /\ step'.dbg_port = step.dbg_port

Executed(done) ==
  /\ <<ram', cpu', ppi', integrated_to', unmapped_io_writes'>> =
     <<done.ram, done.cpu, done.ppi, done.integrated_to, done.unmapped_io_writes>>
  /\ step'.dbg_port = done.step.dbg_port
  /\ step'.mc_index = 0
  /\ UNCHANGED <<rom, kbd, trial>>

OneExecuted == Executed(exec_one(Now))

PressIsAllOrNothing == [][PressStep => NothingExecuted \/ OneExecuted]_vars

(* The dry run's trace agrees, as far as it has been shown, with what the    *)
(* last press is going to execute.                                           *)
StartsAsShown(next) ==
  \A i \in 1 .. step.mc_index : i <= Len(next) /\ next[i] = step.mc[i]

ShownIsWhatComesNext == StartsAsShown(exec_one(Now).cpu.mc)

(* The cycles shown so far are those of the instruction that the last press  *)
(* executes, unless a request arrived after the first press and may be       *)
(* acknowledged.                                                             *)
InterruptedSequence == step.mc_index > 0 /\ step.mc[1].status = FETCH /\ CanAcknowledge(cpu)
ShownUnlessInterrupted == InterruptedSequence \/ ShownIsWhatComesNext

(* A sequence of machine cycles is in progress only with both switches       *)
(* latched, and it has a cycle left to show; `waiting` follows РБ/ШГ.        *)
SequenceInProgress ==
  /\ step.mc_index > 0 => /\ step.latch_step /\ step.latch_cycle
                          /\ step.mc_index < Len(step.mc)
  /\ step.waiting = step.latch_step

(* UNKNOWNS.md: bit 0 of port 0FCh "arms single-step mode", so РБ/ШГ "only   *)
(* takes effect while user code is running": ШГ steps only an armed machine. *)
StepNeedsArming ==
  [][PressStep /\ cpu' # cpu => Bit(step.dbg_port, 0)]_vars

-----------------------------------------------------------------------------
(* The class of I8080Interrupts that an opcode belongs to. *)
ClassOf(op) ==
  CASE op \in {\h21, \h31, \hC3, \hC2} -> "IMM2"
    [] op = \h3E -> "READ"   [] op = \h77 -> "WRITE"  [] op = \h34 -> "RMW"
    [] op = \h32 -> "STA"    [] op = \h3A -> "LDA"    [] op = \h22 -> "SHLD"
    [] op = \h2A -> "LHLD"   [] op = \hF5 -> "PUSH"   [] op = \hFF -> "RST"
    [] op = \hE1 -> "POP"    [] op = \hC9 -> "RET"    [] op = \hC8 -> "RCC"
    [] op = \hE3 -> "XTHL"   [] op = \hCD -> "CALL"   [] op = \hCC -> "CCC"
    [] op = \hDB -> "IN"     [] op = \hD3 -> "OUT"    [] op = \hFB -> "EI"
    [] op = \hF3 -> "DI"     [] op = \h76 -> "HLT"
    [] OTHER -> "REG"

Interrupts == INSTANCE I8080Interrupts WITH
  Vectors     <- {"RST"},
  inte        <- cpu.inte,
  halted      <- cpu.halted,
  int_pending <- cpu.int_pending,
  int_vector  <- ClassOf(cpu.int_vector),
  int_delay   <- cpu.int_delay,
  mc          <- [i \in DOMAIN cpu.mc |-> cpu.mc[i].status]
=============================================================================
