-------------------------------- MODULE Umkcli --------------------------------
(***************************************************************************)
(* The command-line debugger, cli/umkcli.c: its options, then one command  *)
(* after another on the machine of UmkMachine.  `run` is a loop of its own *)
(* and takes one step per instruction; every other command is one step.    *)
(* A count (`step 5`, `keys 1,2`) is the command repeated, and commands    *)
(* that only show something are left out.                                  *)
(***************************************************************************)
EXTENDS UmkMachine

CONSTANTS
  Sessions,     \* what a session is given: an image, arguments, the commands used
  MAX_BP,       \* size of the table of breakpoints: 32 in the code
  Breakpoints,  \* addresses named by `bp`
  Budgets,      \* T states given to `run` and `go`
  KEY_HOLD,     \* T states a key is held, and then released: 120000 in the code
  Targets,      \* values given to `go` and `reg`
  Pokes,        \* <<address, bytes>> written by `poke`, `load` and `rom`
  HexFiles,     \* Intel HEX files found on the disk
  Ranges,       \* <<address, length>> given to `savehex`
  RecordSize,   \* bytes in a record of `savehex`: 16 in the code
  SaveCycles    \* bound: the T states at which `state save` is tried

Record == [addr : Nat, data : Seq(Byte), type : {0, 2}, sum_ok : BOOLEAN]

ASSUME SessionAssumption ==
  Sessions \subseteq [image : Seq(Byte), commands : SUBSET STRING,
                      args : Seq({"--rom", "--rom missing", "--rev1"})]
ASSUME CliAssumption ==
  /\ {MAX_BP, RecordSize, KEY_HOLD} \subseteq Nat \ {0} /\ Budgets \subseteq Nat
  /\ Breakpoints \cup Targets \subseteq Address
  /\ Pokes \subseteq Address \X Seq(Byte) /\ Ranges \subseteq Address \X Nat
  /\ HexFiles \subseteq Seq(Record)
(* A record that runs past FFFF, or the one after it, ends in ROM. *)
ASSUME HexAssumption == 2 * RecordSize <= RamBase

VARIABLES
  session, args,     \* the session, and the arguments not yet read
  breakpoints,       \* breakpoints[0 .. nbp - 1]
  run,               \* do_run: whether it is on, the T state it ends at, and
                     \* whether its count of steps is odd
  hex,               \* files written by `savehex`: none or the last one
  state,             \* files written by `state save`: none or the last one
  quit_requested,
  wanted,            \* history: the breakpoints set and not removed since
  saved,             \* history: for `hex`, the range and the RAM it was taken from
  edited             \* history: memory, pc or time changed behind the sequence

cli  == <<session, args, breakpoints, run, hex, state, quit_requested, wanted, saved>>
cvars == <<vars, cli, edited>>

NotRunning == [on |-> FALSE, until |-> 0, odd |-> FALSE]

CliInit ==
  /\ PowerOn(umk_init(RamMax))
  /\ session \in Sessions /\ args = session.args
  /\ breakpoints = << >> /\ wanted = {}
  /\ run = NotRunning
  /\ hex = {} /\ saved = {} /\ state = {}
  /\ quit_requested = FALSE
  /\ edited = FALSE

-----------------------------------------------------------------------------
(* The machine once the first n bytes of data are in memory, for every n. *)
Loaded(m, addr, data) ==
  LET loaded[n \in 0 .. Len(data)] ==
        IF n = 0 THEN m ELSE umk_poke(loaded[n - 1], Word(addr + n - 1), data[n])
  IN  loaded

umk_load_ram(m, addr, data) == Loaded(m, addr, data)[Len(data)]

load_bin(m, addr, data, into_rom) ==
  IF into_rom THEN umk_load_rom(m, addr, data) ELSE umk_load_ram(m, addr, data)

(* The options of main, in the order of the command line. *)
RamRev1 == RamMax \div 2

ASSUME OptionAssumption == {RamMax, RamRev1} \subseteq RamSizes

Option ==
  /\ args # << >> /\ args' = Tail(args)
  /\ \/ /\ Head(args) = "--rom"
        /\ Becomes(umk_reset(load_bin(Now, 0, session.image, TRUE)))
     \/ Head(args) = "--rom missing" /\ Becomes(umk_reset(Now))
     \/ Head(args) = "--rev1" /\ Becomes(umk_init(RamRev1))
  /\ UNCHANGED <<resets, session, breakpoints, run, hex, state, quit_requested,
                 wanted, saved, edited>>

(* A command of this session, while no other one is at work. *)
Command(c) == args = << >> /\ ~quit_requested /\ ~run.on /\ c \in session.commands

(* Commands that do what a control of the panel does, and the two that step  *)
(* whatever the switches say.  They leave no stale sequence behind.          *)
Control ==
  /\ \/ Command("step") /\ WithinBound /\ Becomes(umk_step_instruction(Now)) /\ UNCHANGED resets
     \/ Command("cycle") /\ WithinBound /\ Becomes(umk_step_machine_cycle(Now)) /\ UNCHANGED resets
     \/ Command("shg") /\ PressStep
     \/ Command("sw") /\ SetSwitch
     \/ Command("reset") /\ Reset
     \/ Command("int") /\ Interrupt
  /\ edited' = (edited /\ step'.mc_index # 0)
  /\ UNCHANGED cli

(* Commands that change memory, pc or the clock behind the panel's back. *)
press_key_Held(m, k) == umk_run_cycles(umk_set_key(m, k, TRUE), KEY_HOLD)

press_key_LetGoFirst(m, k) ==   \* mutant: the key is let go before the machine runs
  umk_run_cycles(umk_run_cycles(umk_set_key(umk_set_key(m, k, TRUE), k, FALSE), KEY_HOLD),
                 KEY_HOLD)

press_key(m, k) == umk_run_cycles(umk_set_key(press_key_Held(m, k), k, FALSE), KEY_HOLD)

Key(k) == Command("key") /\ WithinBound /\ Becomes(press_key(Now, k))

PressKey == \E k \in Keys : Key(k)

SetPc(addr) == Becomes([Now EXCEPT !.cpu.pc = addr])

(* set_reg: any register, of which the machine has these. *)
SetRegister(v) ==
  \/ SetPc(v)
  \/ Becomes([Now EXCEPT !.cpu.sp = v])
  \/ Becomes([Now EXCEPT !.cpu.a = v % 256])
  \/ Becomes([Now EXCEPT !.cpu.hl = 256 * (v % 256) + (@ % 256)])
  \/ Becomes([Now EXCEPT !.cpu.hl = 256 * (@ \div 256) + (v % 256)])
  \/ Becomes([Now EXCEPT !.cpu.z = Bit(v, 6)])

(* load_hex pokes every data record up to the first one whose sum is wrong,  *)
(* that one included, and gives up there.                                    *)
Upto_Good(file) ==   \* mutant: the sum is checked first
  SelectSeq(file, LAMBDA r : r.sum_ok)

Upto(file) ==
  LET bad == {i \in DOMAIN file : ~file[i].sum_ok}
  IN  SubSeq(file, 1, IF bad = {} THEN Len(file) ELSE CHOOSE i \in bad : \A j \in bad : i <= j)

LoadRecord(m, r) == IF r.type = 0 THEN umk_load_ram(m, r.addr, r.data) ELSE m

(* The machine once the first n records have been read, for every n. *)
Records(m, file) ==
  LET records[n \in 0 .. Len(file)] ==
        IF n = 0 THEN m ELSE LoadRecord(records[n - 1], file[n])
  IN  records

load_hex(m, file) == Records(m, Upto(file))[Len(Upto(file))]

LoadHex(file) == Command("loadhex") /\ Becomes(load_hex(Now, file))

Edit ==
  /\ \/ \E w \in Pokes : Command("poke") /\ Becomes(umk_load_ram(Now, w[1], w[2]))
     \/ \E v \in Targets : Command("reg") /\ SetRegister(v)
     \/ \E w \in Pokes : Command("load") /\ Becomes(load_bin(Now, w[1], w[2], FALSE))
     \/ \E w \in Pokes : Command("rom") /\ Becomes(load_bin(Now, w[1], w[2], TRUE))
     \/ \E file \in HexFiles \cup hex : LoadHex(file)
     \/ PressKey
  /\ edited' = (step.mc_index # 0)
  /\ UNCHANGED <<resets, cli>>

-----------------------------------------------------------------------------
(* Breakpoints: a table with room for duplicates, from which `del` removes    *)
(* every copy of an address.                                                 *)
Removed_First(bps, addr) == RemoveFirst(bps, addr)   \* mutant: one copy is left

Kept(bps, addr) ==   \* what is left of the first n, for every n
  LET kept[n \in 0 .. Len(bps)] ==
        IF n = 0 THEN << >>
        ELSE IF bps[n] = addr THEN kept[n - 1] ELSE Append(kept[n - 1], bps[n])
  IN  kept

Removed(bps, addr) == Kept(bps, addr)[Len(bps)]

Bp ==
  /\ Command("bp")
  /\ \/ \E addr \in Breakpoints :
          /\ Len(breakpoints) < MAX_BP
          /\ breakpoints' = Append(breakpoints, addr) /\ wanted' = wanted \cup {addr}
     \/ \E addr \in Breakpoints :
          breakpoints' = Removed(breakpoints, addr) /\ wanted' = wanted \ {addr}
     \/ breakpoints' = << >> /\ wanted' = {}
  /\ UNCHANGED <<vars, session, args, run, hex, state, quit_requested, saved, edited>>

bp_hit(pc) == pc \in ToSet(breakpoints)

(* do_run executes an instruction before it looks at the breakpoints, so it   *)
(* can leave the one it stopped at.  It does not look at РБ/ШГ.              *)
Run ==
  /\ WithinBound
  /\ \/ Command("run") /\ UNCHANGED <<vars, edited>>
     \/ \E addr \in Targets : /\ Command("go") /\ SetPc(addr) /\ UNCHANGED resets
                              /\ edited' = (step.mc_index # 0)
  /\ \E n \in Budgets : run' = [on |-> TRUE, until |-> cpu.cycles + n, odd |-> FALSE]
  /\ UNCHANGED <<session, args, breakpoints, hex, state, quit_requested, wanted, saved>>

RunInstruction_LooksFirst ==   \* mutant: the breakpoints are looked at first
  /\ run.on /\ cpu.cycles < run.until
  /\ \/ /\ bp_hit(cpu.pc)
        /\ run' = NotRunning /\ UNCHANGED <<vars, edited>>
     \/ /\ ~bp_hit(cpu.pc)
        /\ Becomes(umk_step_instruction(Now)) /\ UNCHANGED resets
        /\ run' = IF cpu'.halted /\ ~cpu'.int_pending
                  THEN NotRunning ELSE [run EXCEPT !.odd = ~run.odd]
        /\ edited' = FALSE
  /\ UNCHANGED <<session, args, breakpoints, hex, state, quit_requested, wanted, saved>>

RunInstruction ==
  /\ run.on /\ cpu.cycles < run.until
  /\ Becomes(umk_step_instruction(Now))
  /\ run' = IF bp_hit(cpu'.pc) \/ (cpu'.halted /\ ~cpu'.int_pending)
            THEN NotRunning ELSE [run EXCEPT !.odd = ~run.odd]
  /\ edited' = FALSE
  /\ UNCHANGED <<resets, session, args, breakpoints, hex, state, quit_requested,
                 wanted, saved>>

RunOver ==
  /\ run.on /\ cpu.cycles >= run.until
  /\ run' = NotRunning
  /\ UNCHANGED <<vars, session, args, breakpoints, hex, state, quit_requested,
                 wanted, saved, edited>>

-----------------------------------------------------------------------------
(* Files.  A record that starts past FFFF is written with five digits of      *)
(* address; read back, its digits are out of step, it pokes nothing into RAM, *)
(* and as all that follow are like it, it counts as a bad one.               *)
save_hex_FullRecords(m, addr, len) ==   \* mutant: the last record is not cut
  [i \in 1 .. (len + RecordSize - 1) \div RecordSize |->
     LET a == addr + RecordSize * (i - 1)
     IN  [addr |-> a, type |-> 0, sum_ok |-> a \in Address,
          data |-> [k \in 1 .. RecordSize |-> umk_peek(m, Word(a + k))]]]

save_hex(m, addr, len) ==
  [i \in 1 .. (len + RecordSize - 1) \div RecordSize |->
     LET done == RecordSize * (i - 1)
         n    == IF len - done < RecordSize THEN len - done ELSE RecordSize
     IN  [addr |-> addr + done, type |-> 0, sum_ok |-> addr + done \in Address,
          data |-> [k \in 1 .. n |-> umk_peek(m, Word(addr + done + k - 1))]]]

SaveHex ==
  /\ Command("savehex")
  /\ \E r \in Ranges : hex' = {save_hex(Now, r[1], r[2])} /\ saved' = {[range |-> r, ram |-> ram]}
  /\ UNCHANGED <<vars, session, args, breakpoints, run, state, quit_requested, wanted, edited>>

(* The state file is the whole structure; the breakpoints are not in it.  A   *)
(* file that could not be written in full is refused when it is loaded.      *)
StateSave ==
  /\ Command("state") /\ cpu.cycles \in SaveCycles
  /\ state' \in {{}, {[m |-> Now, edited |-> edited]}}
  /\ UNCHANGED <<vars, session, args, breakpoints, run, hex, quit_requested, wanted,
                 saved, edited>>

umk_state_load_NoSequence(m, buf) ==   \* mutant: the sequence is not restored
  [buf EXCEPT !.step.mc = m.step.mc]

umk_state_load(m, buf) == buf

StateLoad ==
  /\ Command("state")
  /\ \E f \in state : Becomes(umk_state_load(Now, f.m)) /\ edited' = f.edited
  /\ UNCHANGED <<resets, cli>>

Quit ==
  /\ Command("quit") /\ quit_requested' = TRUE
  /\ UNCHANGED <<vars, session, args, breakpoints, run, hex, state, wanted, saved, edited>>

CliNext ==
  Option \/ Control \/ Edit \/ Bp \/ Run \/ RunInstruction \/ RunOver
    \/ SaveHex \/ StateSave \/ StateLoad \/ Quit

(* The loop of do_run goes on by itself; commands come when the user likes.   *)
(* This is weak fairness of RunInstruction \/ RunOver, which are the only      *)
(* steps while a run is on, one of them is always enabled then, and both      *)
(* change `run`; it is written without ENABLED, which is slow to evaluate.    *)
LoopFairness == <>[]run.on => []<><<run.on>>_cvars

CliSpec == CliInit /\ [][CliNext]_cvars /\ LoopFairness

-----------------------------------------------------------------------------
(* A run ends exactly where its budget does, or once it has executed an       *)
(* instruction that brought it to a breakpoint the user has set and not      *)
(* removed, or to a halt with no request that could wake the machine.  A copy *)
(* left in the table would stop it, a lost one would not, and a run that      *)
(* starts on a breakpoint leaves it (do_run).                                *)
BreakpointsHonoured ==
  [][run.on =>
       (~run'.on <=> \/ cpu.cycles >= run.until
                     \/ /\ cpu'.cycles > cpu.cycles
                        /\ cpu'.pc \in wanted \/ (cpu'.halted /\ ~cpu'.int_pending))]_cvars

(* Every run ends: one that waits in HLT for a request that INTE keeps out   *)
(* ends by its budget, which halt cycles use up as well.                     *)
RunEnds == run.on ~> ~run.on

(* The cycles shown belong to what the last press executes, as on the panel, *)
(* through a state saved in the middle of a sequence and loaded after other  *)
(* commands: only a command that edits the machine behind the sequence, or   *)
(* a request, can make it stale.                                             *)
ShownUnlessEdited == edited \/ ShownUnlessInterrupted

(* A file of savehex brings its range back, whatever happened to the memory  *)
(* since, mirrored or not, and touches nothing else.                         *)
Covered(r) == {RamIndex(Now, a) : a \in {b \in r[1] .. r[1] + r[2] - 1 : InRam(b)}}

HexRestores ==
  [][\A file \in hex, s \in saved : LoadHex(file) =>
       \A i \in DOMAIN ram : ram'[i] = IF i \in Covered(s.range) THEN s.ram[i] ELSE ram[i]]_cvars

(* A refused file has changed memory: the bytes of every record before the   *)
(* bad one, and of the bad one, are there, the later one where two overlap;  *)
(* those of the records after it are not.                                    *)
Lands(m, addr, i) == InRam(addr) /\ RamIndex(m, addr) = i

Pokes_at(m, file, i, n) ==   \* the bytes that the first n records put in cell i
  {w \in UNION {{<<j, k>> : k \in DOMAIN file[j].data} : j \in 1 .. n} :
     file[w[1]].type = 0 /\ Lands(m, Word(file[w[1]].addr + w[2] - 1), i)}

Later(v, w) == v[1] > w[1] \/ (v[1] = w[1] /\ v[2] >= w[2])

ReadRecords(file) ==
  {n \in 1 .. Len(file) : \A i \in 1 .. n - 1 : file[i].sum_ok}

BadFileStopsAtRecord ==
  [][\A file \in HexFiles : LoadHex(file) =>
       \A i \in DOMAIN ram :
         LET ws == UNION {Pokes_at(Now, file, i, n) : n \in ReadRecords(file)}
         IN  IF ws = {} THEN ram'[i] = ram[i]
             ELSE \E w \in ws : (\A v \in ws : Later(w, v)) /\ ram'[i] = file[w[1]].data[w[2]]]_cvars

(* The machine with the keys ks down and no others, after each of the next    *)
(* instructions, and where the first to reach KEY_HOLD T states leaves it.    *)
(* An instruction takes 4 of them or more.                                   *)
Typed(m, ks) ==
  LET typed[n \in 0 .. (KEY_HOLD + 3) \div 4] ==
        IF n = 0 THEN [m EXCEPT !.kbd = ks] ELSE exec_one(typed[n - 1])
  IN  typed

Held(m, ks) ==
  {panel_update(Typed(m, ks)[n]) :
     n \in {i \in 1 .. (KEY_HOLD + 3) \div 4 :
              /\ Typed(m, ks)[i].cpu.cycles >= m.cpu.cycles + KEY_HOLD
              /\ Typed(m, ks)[i - 1].cpu.cycles < m.cpu.cycles + KEY_HOLD}}

(* `key` is a tap or nothing: with РБ/ШГ latched the machine does not change  *)
(* at all, so the program never sees the key; otherwise the program runs with *)
(* that key down, and no other, for KEY_HOLD T states and what is left of an  *)
(* instruction, and then for as long with no key down (press_key).           *)
KeyIsTapOrNothing ==
  [][\A k \in Keys : Key(k) =>
       IF step.latch_step THEN Now' = Now
       ELSE \E h \in Held(Now, {k}) : Now' \in Held(h, {})]_cvars

(* The ROM of --rom is in the machine unless a --rev1 came after it.         *)
Position(opt) == {i \in DOMAIN session.args : session.args[i] = opt}

RomUnlessRev1Follows ==
  args = << >> /\ "rom" \notin session.commands =>
    LET loaded == \E i \in Position("--rom") : \A j \in Position("--rev1") : j < i
    IN  /\ rom = (IF loaded THEN umk_load_rom(umk_init(1), 0, session.image).rom
                  ELSE umk_init(1).rom)
        /\ Cardinality(DOMAIN ram) = IF Position("--rev1") = {} THEN RamMax ELSE RamRev1

(* Whatever the commands, the machine implements the interrupt control of    *)
(* I8080Interrupts: a step, a press or an instruction of a run is one CPU    *)
(* step or none.  A key runs several, and a state load goes elsewhere.       *)
ImplementsInterrupts ==
  /\ Interrupts!Init
  /\ [][Interrupts!Next \/ PressKey \/ StateLoad]_(Interrupts!vars)
=============================================================================
