# Verification of the УМК-80 emulator

TLA+ models of the УМК-80 emulator (`src/`), the TLC runs that check them and
the TLAPS proofs about them. Paths are relative to the repository root.

* [The system](#the-system) – parts, state, operations, what is hard
* [The modules](#the-modules) – what each models and how it corresponds to the code
* [The runs](#the-runs) – what each checks, its bounds, the fairness assumed
* [The proofs](#the-proofs)
* [Findings](#findings)
* [What is not modelled](#what-is-not-modelled)
* [Plan](#plan)

## The system

Everything runs on one thread. A front end or a debugger calls the machine, the
machine steps the CPU, the CPU calls back into the machine for every bus cycle.
So a call is atomic; what interleaves is the *order* of calls (time slices,
buttons, switches, keys, memory edits), and what is hard is the state that one
call leaves for a later one.

| Part | Source | State | Operations |
|---|---|---|---|
| 8080 CPU | `core/src/i8080.c` | registers, INTE, HLT, one request latch, the EI delay, trace of the last instruction's machine cycles, T-state clock | `i8080_reset`, `i8080_step`, `i8080_interrupt` |
| Memory, keyboard, port, bus | `core/src/machine.c` | ROM, RAM (mirrored on revision 1), pressed keys, КР580ВВ55А latches and mode | bus callbacks, `umk_peek`, `umk_poke`, `umk_set_key` |
| Single-step logic, panel | `core/src/machine.c` | РБ/ШГ and КМ/ЦК, the dry run's sequence and the index into it, write journal, LEDs | `umk_press_step`, `umk_step_machine_cycle`, `umk_step_instruction`, `umk_run_cycles`, `umk_set_switch`, `umk_reset`, `umk_interrupt` |
| Display integrator | `core/src/machine.c` | energy per cell, per digit, total; T states since the last decay; T state integrated up to | `display_advance`, clear, digit order, persistence, readings |
| State save/load | `core/src/machine.c`, `cli/umkcli.c` | state files | structure copy with magic and version |
| Debugger | `cli/umkcli.c` | the machine, breakpoints, HEX and state files | options, about thirty commands, a run loop |
| Front end | `frontend/*.c` | event queue, held keys, captured mouse widget, LED latches | event loop with time slices, panel drawing |
| Monitor ROM | `rom/monitor.asm` | the original firmware's RAM cells: saved registers, breakpoints | directives, EXIT, the RST 7 service RESTART, keyboard routine CI |
| Assembler | `tools/umkasm.c` | symbol table, location counter, image | passes, emission, writing, verification |
| Other tools | `tools/umkrom.c`, `tools/umkdis.c` | – | ROM checker, disassembler |

What makes each part correct, and where that is hard to see by testing:

* **CPU.** A request is never lost, is served at the right moment, and always
  wakes a halted CPU. The moment depends on `int_delay`, which EI, DI, the
  instruction after EI and the acknowledge all touch. Arithmetic is done on
  bits, with three different formulas for AC, and DAA looks ahead at a carry it
  has not made yet.
* **Single step.** In machine-cycle mode the first ШГ *runs the whole
  instruction and rolls it back* to learn its cycles; later presses show them
  from a copy; the last one executes. The rollback must forget nothing, and
  the copy must still describe the instruction that is finally executed,
  whatever was called in between.
* **Display.** Three kinds of accumulator are rounded separately while readings
  are ratios between them; the display's clock and the CPU's are two counters
  that reset, dry run and mid-instruction port writes all move; accumulators
  are 32 bits wide and charged for hours.
* **Debugger.** Commands at moments the machine does not expect them: in the
  middle of a sequence, with РБ/ШГ latched, on a halted machine. Files that are
  cut, mirrored, past the last address or bad in the middle.
* **Front end.** Queues that drop, releases that are never delivered.
* **Monitor.** A request at any instruction of routines that save and restore
  a user program's state, while breakpoints are being planted or taken out.
* **Assembler.** Symbols that depend on addresses that depend on symbols: what
  is written must be a solution, and what has one must be found.

`PROJECT.json` lists the hazards with their lines and the properties that cover
them.

## The modules

```
I8080Interrupts ──EXTENDS── InterruptLatency ──── MCLatency, I8080Proofs
   ▲
   │ refinement (ImplementsInterrupts)
Umkcli ──EXTENDS── UmkMachine ──EXTENDS── Machine
   ├── MCUmkcli ──────┼── MCMachine
   └── UmkcliProofs ──┴── UmkMachineProofs
FrontPanel  (its calls are actions of UmkMachine) ── MCFrontPanel, FrontPanelProofs
Display ── MCDisplay, DisplayProofs
Alu ── MCAlu, AluProofs
Monitor ── MCMonitor, MonitorProofs
Umkasm ── MCUmkasm, UmkasmProofs
```

**`I8080Interrupts`** is the control part of `i8080_step`: its three branches
are the actions `Acknowledge`, `HaltCycle` and `Instruction(op)`, next to
`Reset` and `Interrupt(v)`. An opcode is the *class* that fixes which bus cycles
`execute` makes (`Tails`) and what it does to INTE, HLT and the delay; the
opcode that is fetched is arbitrary, so the module covers every program. It has
no unbounded data and is checked completely. It is the abstract specification
of the CPU for the modules above it.

**`InterruptLatency`** adds two history variables: the parity of the current
run of EIs, and how many instructions a request has waited since it first found
INTE set. They never constrain the behaviour (theorem `HistoryRefines`).

**`Machine`** holds the machine as operators on a record `m` that plays
`umk_machine_t`, with one operator per C function and the C names: `umk_peek`,
`umk_poke` with the journal, `keyboard_scan`, `ppi_write_control`, `bus_in`,
`bus_out`, `mc_log`, `execute`, `i8080_step`, `exec_one`. One real opcode
stands for each class, with its registers, memory effects, bus cycles in order
and T states; registers B–E and the flags other than Z are left to `Alu`. Values
keep their width (bytes, 16-bit addresses that wrap at 65536).

**`UmkMachine`** turns the panel's calls into actions on that record
(`PanelSpec`: `RunCycles`, `PressStep`, `SetSwitch`, `Reset`, `Interrupt`,
`SetKey`). `step.mc` with its length stands for `step.mc[]` and `mc_total`;
`cpu.mc` for `mc[]` and `mc_count`; `trial` for the dry-run flag and the
journal. A dry run is one operator, as it is one C function, so its intermediate
state is visible only through what it fails to undo.

**`Umkcli`** is the debugger on that machine: `Option` reads the command line,
every command is an action, grouped by what it does to a sequence in progress
(`Control` restarts or ends it, `Edit` changes the machine behind it), and
`run`/`go` start a loop with one step per instruction (`RunInstruction`,
`RunOver`), because that is where breakpoints and the budget are looked at. A
HEX file is a sequence of records with a flag for the sum; a state file is the
record of the machine. `CliSpec` implements `I8080Interrupts!Spec` under a
mapping that keeps the status words of the trace and the class of the vector;
`key` is several CPU steps in one call and `state load` goes elsewhere, so these
two are excepted, in the formula.

**`Alu`** is every operation of `i8080.c` on A and the flags as operators with
the C names, on bits as the code has them, and the reference on integers next to
the properties. Its state is A, the flags byte and `decimal`, a history: the
decimal sums that A and its carry stand for after an addition of BCD numbers. `&`, `|`
and `^` are written bit by bit (`OfBits`), a carry out of a bit as the exclusive or
of sum and operands at the bit above, as the code takes it.

**`Display`** is `display_advance` with what drives it: instructions of any
length from a set, an OUT to port A, B or control (integrated in two parts,
before and after the seventh T state), mode words, СБ, clearing and digit
order. Ports are sets of digits and segments. The decay loop is a single
conditional, because each call integrates no more than one instruction, at most 18 T states,
while a decay step is `tau >> 6` = 625 (`IntervalAssumption`). `lit` and `unlit`
are histories used only to say what a *clean* digit is.

**`FrontPanel`** is what stands between the operator's fingers and those calls,
on Win32, the primary target. `KeyDown`, `KeyRepeat`, `KeyUp`, `AltDown`, `AltUp`,
`MouseDown`, `MouseUp`, `SwitchAway`, `SwitchBack` and `Close` are external: they
send the messages Windows sends. Which message a key sends is settled when it moves:
with Alt held, or for F10, it is a WM_SYSKEY* message, which `wndproc` leaves to
`DefWindowProc`. So a key pressed plain and let go under Alt stays in the matrix;
`heard` and `left` are the histories of that (keys whose press was a WM_KEYDOWN,
and keys of the panel let go by a WM_SYSKEYUP only). `PollEvent` is one `plat_poll`
that dispatches all waiting messages through `wndproc` into the ring `g_evq`, takes
one event out, and has it handled by main's `switch` (`handle`, `host_key`,
`key_action`); `PollEmpty` is the `plat_poll` that finds none, `TimeSlice` the rest
of a turn of the loop. `EnterModalLoop` is a `plat_poll` in which `DefWindowProc`
runs a loop of its own (the menu that Alt or F10 opens, the move or the size of the
window): main waits, clicks do not reach the window, and keys and releases may not
either, until `LeaveModalLoop`. Of the machine it keeps what a widget changes: `kbd`,
the latches, and the history `owed`, the buttons and switches that were pressed once
more or once less often than the machine was called. `lost` records that a
message was dropped by a full ring, or did not go to this window. A key is its
widget: `map_vk`, `KEYMAP` and the geometry of `panel_hit` are the constant
`Legend` and the widget a mouse message carries.

**`Monitor`** is the firmware as far as it runs and stops a user program. ПР and
СБ fall between any two of its instructions, so a step ends wherever memory that
others read has changed: the record of a breakpoint, its byte and the RST 7 in
the program are three steps (`SaveAddress`, `SaveByte`, `Plant`), the two
cells are restored in two. `at` names the label where the monitor is; `pc`
tells the service of RST 7 what was interrupted. The user program is any
program: it goes anywhere in itself, and switches INTE on and off. `lost`
is a history of events the monitor does not foresee, `resume` of where the program was.

**`Umkasm`** is the assembler with one step per source line and pass: the symbol
passes (`AssembleLine`), what is decided after each (`EndPass`), the emission
(`EmitLine`), the file (`Write`) and `--verify` (`Verify`). A line is a record of
what the parser finds in it, an expression a sequence of terms; the sizes, the order of
definition and use, and every error are kept. `at` is a history: where the last
symbol pass put each line.

## The runs

| Run | Specification | What it shows |
|---|---|---|
| `interrupts` | `InterruptLatency`, fair | types; a halted CPU can always be woken; grace only while INTE; the delay is the parity of the run of EIs; no request waits more than one instruction with INTE set or is lost; a request that finds INTE set is served or INTE is cleared; a halted CPU with INTE wakes |
| `latency_ei_ei` | `InterruptLatency` | *violation*: the second of two EIs gives no grace |
| `panel` | `PanelSpec` | a press executes one whole instruction or nothing; a sequence is in progress only with both switches latched; the cycles shown are those executed unless ПР intervened |
| `panel_interrupted` | `PanelSpec` | *violation*: ПР in mid-sequence replaces the instruction shown |
| `panel_arming` | `PanelSpec` | *violation*: ШГ steps a machine that port 0FCh never armed |
| `debugger` | `CliSpec` | types; the display is in step with the CPU; the dry run fits its journal and trace; a sequence goes stale only by an edit or a request, through saved states too; breakpoints are honoured and every run ends; HEX files restore what they saved, and bad ones stop where they are bad; `key` makes the program run with the key down and then up for `KEY_HOLD` each, or changes nothing; `--rom` is lost only to a later `--rev1`; refinement of `I8080Interrupts` |
| `frontpanel` | `FrontPanel`, fair | a key is left down without a finger on it only if a message was lost or it was let go while Alt was held; every press of a button or a switch acts exactly once; a key that is let go without Alt goes up although other input keeps arriving, unless Windows keeps main in a modal loop |
| `frontpanel_f10` | `FrontPanel` | *violation*: F10 does not move КМ/ЦК |
| `display` | `Display` | energies stay ordered; clean digits are exact; the total is bounded |
| `alu` | `Alu` | the flags byte keeps its fixed bits; sums, differences, comparisons, INR and DCR agree with the integers in A and every flag; what undoes, undoes; DAA gives decimal sums |
| `monitor` | `Monitor` | a user program can be put together again and goes on where it stopped, except after the events listed below |
| `assembler` | `Umkasm` | types; what is written agrees with the final symbols, line by line and byte by byte; what has a solution is refused only for an error or a limit; the emission moves nothing |

**What `monitor` shows about the firmware.** The two invariants name what spoils
them, and hold whatever else happens. A user program cannot be put together
again after СБ or a jump to BOOT with breakpoints planted (BOOT empties TLOC), a
new СТ over records still in use, one address given twice (the second
record saves the RST 7 of the first), and ПР between the two halves of a record
(the next stop writes an old byte). It goes on somewhere else after ПР in EXIT,
which is in RAM and is taken for the user program, so that СТ then jumps
into EXIT for ever; after ПР in the service of a breakpoint met with INTE set; and after ПР less
than a page before a breakpoint, because RESTART tests only the upper byte of
the difference and takes it for the breakpoint (`monitor.asm:367-382`). None of these is
listed as a finding: the firmware's text promises nothing about them.

**Bounds.** `interrupts` has none: every opcode class, every vector, every state.

`MCMachine` has 64 bytes of ROM, an 8-byte RAM seen twice (so writes go through
the mirror, as on revision 1), and six short programs that between them execute
each modelled opcode, both outcomes of each condition, port directions set and
unset, EI/HLT idling and an interrupt service routine. `MaxCycles` = 60 or 80 T
states between resets is six to twenty instructions, enough for each program to
reach its end or go round its loop and for ПР to be served and return; a new
instruction may start below the bound only, every call runs to its end.
`Slices` = {1, 25} gives time slices of one instruction and of several.
`MaxResets` = 1 lets СБ fall anywhere with RAM already changed. One key on
column 0 is enough for a scan that reads a different byte while it is down.

`debugger` divides the commands among sessions (`MCUmkcli`): every order of
stepping commands on every program; runs with breakpoints in an idle loop and
across a call; states saved and loaded in mid-sequence; registers; files; keys
under РБ/ШГ; and options in every order. A session combines the commands
that meet in the state they change (a sequence in progress, the breakpoints, a
file); others meet only in the machine. RAM is 16 bytes, or 8 seen twice after `--rev1`.
`MAX_BP` = 2 fills the table with duplicates. `RecordSize` = 4 with ranges of 5,
7, 8 and 16 bytes gives cut records, ranges from ROM into RAM and past FFFF.
`Budgets` = {0, 30} ends a run before its first instruction and in a loop;
`KEY_HOLD` = 40 T states is a turn of the scanning loop. `SaveCycles` = {10, 20} bounds
the moments at which a state is saved, to one within a sequence and one after it.

`alu` starts from the reset CPU and reaches every value of A and the flags;
operands are the twelve bytes at the edges of a nibble, of the byte, of the sign
and of a BCD digit.

`display` has two digits of two segments, so that one is selected alone or with
the other, and a scale of 3, divisor of 4 and decay step of 10, so that within
`MaxCycles` = 48 T states several decay steps fall on either side of an OUT's
write and round differently.

`frontpanel` divides the widgets between two sessions (`MCFrontPanel`), because
fingers, Alt, focus and modal loops multiply the states while widgets meet only in the
queues: in one the operator has a key, reached by a host key and the mouse; in the
other the switch РБ/ШГ, reached by F9 and the mouse, and a button for the mouse. Each session is
the whole front end under a restricted operator. The ring has three
slots, which hold two events: with two messages waiting it wraps, carries events over to
the next `plat_poll` and overflows. The operator stops once a message is lost
or the program leaves its loop; every property is about the time before.
`frontpanel` leaves F10 out, `frontpanel_f10` has nothing else.

`monitor` has bytes of four values and a program of four cells on two pages, so
that a request comes before, at and after a breakpoint of its own page and of
the next. `FewEvents` stops after an event that spoils both invariants, and
after two of the others.

`assembler` takes every source of up to three lines out of sixteen kinds, and
chains of EQUs and rows of labels for the limits. The image has eight bytes, the
table four symbols, and `MaxPasses` = 4: a chain of three names settles in it, a
chain of four in the worst order does not although the table holds it, four labels
that do not depend on each other do, and a fifth overflows the table.

Deadlock is checked except in `frontpanel`, `frontpanel_f10`, `debugger` and
`assembler`: the front end stops when its window is closed, the debugger after `quit` (and
at `MaxCycles`), the assembler when it has done. Elsewhere a request, a switch
or СБ is always possible.

**Fairness.** `InterruptLatency` has weak fairness of the CPU's step and of nothing
else. `umk_run_cycles` is called on every turn of the front end's loop
(`frontend/main.c`) and by the debugger's `run`, and it steps the CPU until
its budget is spent. While РБ/ШГ is latched it steps nothing and fairness then
stands for an operator who goes on pressing ШГ. No request, reset or opcode is
assumed fair: a request may never come, and the properties must not need one. A
HLT jammed at INTA would halt the CPU again: `WakesFromHalt` says so.

`CliSpec` has weak fairness of the run loop, `RunInstruction ∨ RunOver`: nothing
in it waits. It is written without ENABLED, which TLC evaluates very slowly on
actions made of machine operators, as `LoopFairness`: a run that stays on
for ever takes steps for ever (`run.odd` makes each of them visible). Commands
are not fair; the user may stop typing.

`FrontPanel` has weak fairness of the event loop (`Main`): outside a modal loop of
`DefWindowProc`, `plat_poll`, `umk_run_cycles` and the sleep all return, and the loop
waits for nothing. Nothing says that a modal loop ends, so `LeaveModalLoop` is
not fair and `Released` excepts one. Fingers are not fair, and may keep messages coming
for ever.

## The proofs

`I8080Proofs` (TLAPS, for every set of vectors):

* `IInv` = types ∧ `HaltedCanWake` ∧ `GraceOnlyWhileEnabled`. Neither of the two
  is inductive without the range of `int_delay`; `HaltedCanWake` rests on the
  instruction that sets HLT being the one that consumes the grace, which `DelayType`
  states. From it: `TypeCorrect`, `HaltedAlwaysCanWake`, `GraceNeedsEnable`.
* `RequestsNeverLost`, an action property, needs no strengthening beyond types.
* `HInv` adds that a request that has waited one instruction can be acknowledged
  at the next step; it is what makes `waited <= 1` inductive. From it
  `GraceIsParity` and `LatencyBound`. `HistoryRefines` proves that the
  specification with history implements the one without.

`DisplayProofs` (every number of digits, scale, divisor, persistence and set of
port values):

* The invariant `Valid(d)` is stated about a display record, not about the
  variables, because an OUT integrates twice: `AdvanceValid` says one
  integration keeps it and moves the clock to where it was asked, and the OUT
  actions use it twice. Its arithmetic is in the lemmas on the decay: it never
  inverts an order (`DecayedMonotone`), and one decay step gives back at least
  what a step's charge added once the total is at its bound
  (`DecayRestoresBound`).
* `TotalBounded` is not inductive for accumulators that wrap, and *not wrapping*
  needs the bound; `Valid` carries both, and the order makes the bound on the
  total one for all accumulators (`NoWrap`).
* From it: `TypeCorrect`, `EnergyAlwaysOrdered`, `CleanDigitAlwaysExact`,
  `TotalAlwaysBounded`.

`UmkasmProofs` (every source, size of image up to `IMAGE_MAX`, number of symbols and
passes, and reference):

* `WrittenIsConsistent` is about the file, and so about a moment long after the
  last symbol pass. `IInv` carries it there: `Shape`; `PassInv`, in a symbol
  pass in which nothing has changed so far, every line done so far is *quiet*
  (it would define again only what the table holds) and the location counter
  is where the lines before it put it; `EmitInv`, in the emission that is so of all
  lines, no line done so far has an error unless `errors` is set, and each byte of the
  image is that of the last line done so far that covers it; `FileInv`, the
  file has all that. `PassInv` is needed because a pass that changed something
  says nothing, and the next starts again with an empty claim.
* From it `WrittenAlwaysConsistent`, and with `EmitLineQuiet`
  `EmissionNeverMoves`. `AssemblerTypes` needs `pass < MaxPasses` in a symbol
  pass, and that a sum of terms (a recursive function) is an integer.
* `RefusalsHaveReasons` is that the passes settle. `SettleInv` says, of every
  ranking of the names by what they depend on: in pass p a name of rank at most
  p, and one of rank p + 1 whose definition is behind, is *right* (the table has
  the value its definition has under that same table); the location counter is
  where the table puts the line if no ORG or DS before it uses a name of higher
  rank; and from pass N on nothing changes, if no rank is above N. `Loc(s)` is
  where a table puts each line. What makes it inductive: a name stays right when
  only names of higher rank change, because its value depends on those it uses
  (`RightStays`, from `OperandAgree` and `LocAgree`, an induction over the
  lines: the length of what a line emits depends on no symbol); and `Kept`, an
  EQU that once defined its name never becomes unresolved, since no symbol is ever removed.
  A ranking within `MaxDepth` = `MaxPasses` − 1 is one that
  has no longer chain of names than that; how many names there are does not matter.
  The bound is tight: a chain of N EQUs in the worst order takes N + 1 passes.

`MonitorProofs` (every size of a page, every program that fits in memory):

* `ProgramRecoverable` speaks of two variables that no step changes together, so
  it needs the state of the loop G03 in between: `IInv` is `Typed` (with the
  address that is being recorded), `Cells` (a cell is the user's own or has
  a record with its byte) and `Records` (every record in use has the right
  byte, but for the one being written). `Records` is what RESTART needs to put
  bytes back, and what `Cells` alone does not give. From it `AlwaysRecoverable`.
* `Whereabouts` says where `pc` and `PCLOC` are in each part of the monitor, and
  the three ways into the service of RST 7: from the monitor, from the program by a
  request, from a breakpoint. That a breakpoint is recognised rests on
  `Cells`; that a request is not taken for one, on `ComparedWithPage`, the
  arithmetic of the comparison. From it `AlwaysResumes`.

The first part of `UmkMachineProofs` (every program, memory and size of RAM) holds
the lemmas about the operators of `Machine`, up to one instruction of the CPU, `exec_one`. They are
about records, not variables, because a dry run executes an instruction on a
machine that no variable ever holds. `Bus(m, n, t)` says that n is m after the
bus cycles with the status words t: logged in order, journalled one entry to a
write at most, the display no further than the clock. Each operation of the bus
has a `Bus` lemma, `BusThen` composes two, and so each instruction gets one
(`ExecutedAt` and the `Ordinary…` lemmas): its tail is in `TailsOf`, which bounds the trace by
five cycles and the journal by the trace. What the code writes as a loop (the
journal undone, the turns of `umk_run_cycles`, the bytes of a file) is a
recursive function in the model, and its lemmas go by least counterexamples
(`Upwards`, `Iterated`), since no prover here takes an induction theorem.

The rest is about `PanelSpec` (every set of programs, keys, sizes of RAM and
slices):

* It begins with a non-interference argument. Two machines that agree in memory,
  port, clock and registers execute the same instruction in the same way, whatever
  their switches, LEDs, traces and journals (`ExecFollows`); if their keys differ,
  only what an IN reads may differ, and that is the last machine cycle.
* `CallInv` = `Sound(Now)` ∧ `Latched(Now)`. `Sound` is the types, no dry run in
  progress, and clocks that agree; it gives `TypesHold`, `DisplayStaysInSync` and
  `DryRunsFit`. `Latched` is what the switches say of the sequence
  (`SequencesInProgress`).
* `PressesAreAllOrNothing`: the journal restores RAM (`RestoresRam`): each cell
  gets back what the first entry for it saved, which needs the entries in the
  order they were made, and mirrored addresses mapped to one cell. `exec_one`
  after the rollback does what it would have done without (`ExecFollows`: the
  two machines differ in the sequence only).
* `SequencesAreShown` needs more than the invariant TLC checks. `ShownInv` says
  that the sequence equals what would be executed now *except in its last
  cycle* (`Foretold`), because a key may change what an IN reads there, unless a
  request may be acknowledged in the middle of a sequence that began with FETCH
  (`Interrupted`); and that a request that is waiting asks for RST 7, so that a
  second one changes nothing. The last cycle is never shown before it is
  executed, so this is enough.
* `CpuStepsImplement`: a step of the CPU on real opcodes is a step of
  `I8080Interrupts` on their classes. `ExecControls` says what `exec_one` leaves
  in INTE, HLT, the delay and the request, `TailsInClass` that an opcode logs
  what its class may log.

`UmkcliProofs` (`CliSpec`; every session, file, budget and size of the tables):

* `CliInv` is `Good` of the machine *and of the machine in a state file*, each with
  its own `edited`: sound, no key down, a pending request still asks for RST 7,
  and the sequence foretold unless edited. `Good` of the file is what makes a
  state load keep everything. Commands fall into two kinds, as in the model: those that
  keep a true sequence true (`Steers`), and those that keep the place in it
  (`Edits`). From it `CommandsKeepTypes`, `CommandsKeepDisplayInSync`,
  `CommandsKeepDryRunsFit`, `SequencesAreShownUnlessEdited`, and
  `KeysAreTapsOrNothing`.
* `KeysAreTapsOrNothing` says which machines a key may leave: `Held(m, ks)` is m run
  with exactly the keys ks down, up to the first instruction that completes
  `KEY_HOLD` T states. That `umk_run_cycles` is that run (`RunHeld`) needs that a turn
  of its loop takes four T states or more, that the keys in the matrix do not
  change during it, and that nothing runs while РБ/ШГ is latched.
* `BpInv`: the table holds exactly the addresses wanted, however many copies, and
  so a run ends where `RunsStopAtBreakpoints` says: after an instruction, never on
  the address it starts at. `RomInv`: ROM and RAM are what the options *read so
  far* make of them, and no state file exists while options are left
  (`RomsAreKept`).
* `FilesStopAtTheBadRecord` and `HexFilesRestore` say what a nest of two loops over
  data, some of it mirrored, leaves in every cell: what the last byte to land in it
  wrote, or what was there if none did (`LoadSteps` for a write to RAM, `RecordLast`
  for a record, `HexLast` for a file). The first theorem needs nothing else. For
  the second, the records `savehex` makes cover the range and nothing but it,
  each with the byte of its address (`SavedRecords`, `ChunkBounds`), so the last
  byte to land in a cell is the one that was read from it. `HexInv` says where the
  file and the RAM kept beside it come from: one machine, with the RAM that is
  fitted now. It rests on `HexAssumption`, which the proof asked for: of a range past
  FFFF, one record goes round to 0000 both when it is written and when it is loaded,
  and the one after it has an address the loader cannot read. Their bytes reach no
  cell of RAM only because records are short next to the ROM (2 · 16 ≤ 2048 in the code).
* `CommandsImplementInterrupts` is the refinement: `PowerOnImplements` for the
  initial states, `CommandsMove` for the steps: each command makes one CPU step
  (`CpuStepsTo`), resets, requests, or leaves interrupt control alone.

`AluProofs` (every set of operands and of words on the stack):

* A byte is the sum of its bits, and the bits of such a sum are the bits put in
  (`BitsOf`, `BitsOfSum`), so `&`, `|` and `^` are bytes with known bits. The flags
  byte is one of 32 (`Flags`); what each operation leaves in it is a lemma of
  its own (`ResultIs` for S, Z, P; `AddIs`, `SubtractIs`, `IncrementIs`,
  `DecrementIs`, `LogicIs`, `DaaIs`). That the folded exclusive or is the parity of
  the number of ones is `ParityIsEvenOnes`; that it yields the carry out of
  a bit, `CarriesOut`.
* `ArithmeticIsExact` and `OppositesUndo` speak of every operand in every state, and
  need of the state only that A is a byte and the flags are legal: this is what
  POP PSW, which writes the whole flags byte, must not break (`MaskedIsLegal`). From
  the same `FlagsStayLegal`.
* `DaaGivesDecimals` spans two instructions, so it needs to know what lies
  between them: `SumOfDigits` says that while a decimal sum waits for DAA, A *and
  the flags*, AC among them, are those of an addition of two BCD numbers. Its
  arithmetic is `DigitSum`: the two corrections, the upper one decided before the lower
  one is made, give the digits and the carry of the decimal sum.

`FrontPanelProofs` (every set of widgets, legend and size of the ring): `PanelInv` is
a promise about the future. The properties speak of moments when nothing waits,
and no invariant of the machine alone carries them there. `Promised` says that
the events of the ring, then the messages of the queue, applied in order to the
key matrix, the widget the mouse holds and the calls owed (`Effect`, `Yields`), come to what
the fingers ask for now (`Settled`). A finger that moves appends a message
and changes what is asked for (`Posted`, or `Unseen` if the window does not see it),
`plat_poll` moves messages into the ring (`PumpedIs`), where each is put behind the others
or lost (`Pushed`), and main applies the first (`TakenIs`, `HandledIs`). `Holds`
relates the ring, with its wrap, to a sequence. What the fingers ask for (`Settled`) counts
only presses that were heard, and a release under Alt (`left`) as none at all, so Alt
and a modal loop move nothing that is promised (`AltKeeps`, `ModalKeeps`). From it
`PanelTypes`, `KeysAreStuckOnlyAfterLoss` and `EveryPressIsOneCall`; the last excepts
actuators that F10 works, which is finding 4.

`CallInv`, `ShownInv`, `CliInv`, `BpInv`, `RomInv`, `HexInv`, `PanelInv` and the
`IInv` of `AluProofs` were checked by TLC on the instances of `panel`, `debugger`,
`frontpanel` (the last one with F10, too) and `alu` before they were proved.

Assumptions: `UmkAssumption`, `CliAssumption`, `SessionAssumption` (types of the
constants), `MemoryAssumption` (there is room for ROM and RAM in 64 KiB),
`OptionAssumption` (both sizes of RAM can be fitted), `HexAssumption`
(two records are no longer than the ROM: 32 ≤ 2048); `LayoutAssumption` (the program is in RAM, outside the last page,
and the copy of EXIT outside it); `SourceAssumption`, `LimitAssumption`,
`ImageAssumption` (the image is no larger than the arrays that hold it, which `main` does not check); `VectorsAssumption`; `PanelAssumption` (kinds of widgets are disjoint, the ring has two
slots or more); `OperandAssumption`, `StackAssumption` (bytes and 16-bit words); `SizeAssumption`; `IntervalAssumption` (no
instruction is longer than a decay step: 18 ≤ 625); `WordAssumption` (256·(64·625
+ 2·625) < 2³², true of the code for any persistence under about 16 million
T states). `DisplayProofs` does not use `MaxCycles` except as a guard.

Only model-checked: the liveness properties `RequestServed`, `WakesFromHalt`, `RunEnds`
and `Released` (fairness and ENABLED are out of the prover's reach). Every other
property of a passing run is also a theorem.

## Findings

1. **Two EIs in a row** (`latency_ei_ei`). `i8080_step` consumes the grace when
   the delay is the same before and after the instruction, taking that to mean
   that the instruction was not an EI. A second EI re-arms it to the
   same value 1, so a request is recognised right after it. The delay is the
   *parity* of the run of EIs (`GraceIsParity`); latency stays bounded by one.
2. **ПР in the middle of a sequence** (`panel_interrupted`). The presses show an
   instruction's cycles and the last one executes RST 7 instead.
   `ShownUnlessInterrupted` shows that this is the panel's only way to get a
   mismatch.
3. **Arming** (`panel_arming`). `UNKNOWNS.md` derives from the schematic that
   bit 0 of port 0FCh arms single-step mode; the code stores it and never
   reads it back except by IN.
4. **F10** (`frontpanel_f10`). Windows reports F10 as a *system* key;
   `wndproc` handles WM_KEYDOWN only. SDL2 makes no such difference.

Time slices, `key`, `poke`, `reg`, `go` and the loading of files do not abandon a
sequence of machine cycles in progress: the next `cycle` shows what is left of an
instruction that is over and executes another one. No document says they do;
`ShownUnlessEdited` makes them the only way, next to ПР, to a stale sequence.

## What is not modelled

* **The rest of the instruction set**: DAD, the registers B–E, and the tables of
  lengths and T states beyond the opcodes of `Machine`: constants, which a model
  could only repeat.
* **`umk_display_set_persistence`, `umk_release_all_keys`**: nothing in the
  repository calls them. (The former zeroes `decay_acc` without decaying, so
  calling it every frame would stop the decay.)
* **Supply-fault LEDs**: no intermediate state, no interaction.
* **8-bit readings of the display**: integer divisions of the modelled energies;
  `EnergyOrdered` is what keeps them in range.
* **Debugger**: commands that only show something, `save`, the splitting of
  lines into words. A count is the command repeated, `-c`, `--script` and the
  prompt are where commands come from. A HEX record that cannot be parsed is a
  bad record with no data; a state file that is short or of another version is
  no file.
* **Panel drawing, fonts, windowless mode**: pure output.
* **The SDL2 layer**: its `plat_poll` reads SDL's queue directly, so there is no
  ring; the rest is `FrontPanel` without `ev_push`. The size of the window.
* **Monitor**: the keyboard routine CI, whose hazards are matters of time (a
  bounce, a key released within the debounce delay) of which no model here has
  any; the display; the directives on memory; the registers and stacks that
  RESTART saves; a user program that contains FF or is in the last page of
  memory (`LayoutAssumption`), and one that overwrites the monitor's cells. The
  two bytes of a breakpoint's address are written in one step.
* **Assembler**: the splitting of a line (where a colon in a literal
  makes a label), the formats of numbers, parentheses (expressions are flattened),
  names of 32 characters and more, a `--size` above
  `IMAGE_MAX` = 65536 (it is not checked, and `emit` would write past its arrays), the cut at `MAX_LINES` and `MAX_LINE`, a source that cannot
  be opened.
* **Disassembler, ROM checker, packaging**: sequential, no state.

## Plan

1. Done: CPU interrupts (`I8080Interrupts`, `InterruptLatency`, proofs), the
   machine and its single-step logic (`Machine`, `UmkMachine`), the display
   (`Display`, proofs), the front end (`FrontPanel`, proofs), the debugger (`Umkcli`),
   the arithmetic (`Alu`, proofs), the firmware's breakpoints (`Monitor`, proofs), the
   assembler (`Umkasm`, proofs).
2. Done: the theorems about the machine, its panel, the debugger and its files, the
   front end and the assembler, and the refinement of `I8080Interrupts`. What
   is left to TLC is liveness.
3. `Multiplex`: a program that scans the display, composed of `Display` and a
   schedule of OUTs: when the window is free of ghosting.
4. CI of the monitor, with a model of time.
