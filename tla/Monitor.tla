-------------------------------- MODULE Monitor --------------------------------
(***************************************************************************)
(* The monitor ROM, rom/monitor.asm, as far as it runs and stops a user    *)
(* program: the directive СТ with its breakpoints (GOTO), EXIT, the        *)
(* service of RST 7 (RESTART) and BOOT.  ПР and СБ fall between any two    *)
(* instructions, so a step ends wherever memory has changed.  The operator *)
(* and the user program are free.  Registers other than PC, the stacks,    *)
(* the display and the other directives are left out.                      *)
(***************************************************************************)
EXTENDS Integers, Sequences, FiniteSets

CONSTANTS
  Page,       \* values of a byte of an address: 256
  PCEND,      \* end of the monitor's code in ROM
  UserRam,    \* addresses of the user program
  ExitPc      \* where EXIT runs, in its copy in RAM

BOOT == 0     \* as an operand of JMP; as an address in TLOC, 0 is none
RST7 == 0     \* a breakpoint in a cell; the cell's own byte is its address
MONITORPC == 1   \* anywhere in the ROM

ASSUME LayoutAssumption ==
  /\ Page \in Nat \ {0} /\ PCEND \in Nat \ {0, 1}
  /\ UserRam \cup {ExitPc} \subseteq PCEND + 2 .. Page * (Page - 1) - 1
  /\ ExitPc \notin UserRam

VARIABLES
  at,           \* what is running: "MONITOR", "GOTO", "G03", "G03+LDAX",
                \* "G03+STAX", "EXIT", "USER", "38H" (RST 7) or "RST2"
  pc,           \* where; at "38H" where its service returns to
  inte, int_pending,
  PCLOC,        \* operand of the jump at the end of EXIT
  TLOC,         \* two records: the address of a breakpoint, the byte of its cell
  mem,          \* the user program: each cell its own byte or RST7
  todo,         \* addresses of breakpoints still on the monitor's stack
  slot,         \* the record of TLOC at work
  resume,       \* history: where the user program is to go on
  lost          \* history: events that the monitor does not foresee

vars == <<at, pc, inte, int_pending, PCLOC, TLOC, mem, todo, slot, resume, lost>>

Slots == {1, 2}
NoBreakpoint == [addr |-> 0, byte |-> 0]

Planted(a) == mem[a] = RST7
NotesIf(cond, event) == lost' = lost \cup (IF cond THEN {event} ELSE {})

Init ==
  /\ at = "MONITOR" /\ pc = MONITORPC /\ inte = TRUE /\ int_pending = FALSE
  /\ PCLOC = BOOT /\ TLOC = [k \in Slots |-> NoBreakpoint]
  /\ mem = [a \in UserRam |-> a]
  /\ todo = << >> /\ slot = 1
  /\ resume = BOOT /\ lost = {}

(* BOOT copies EXIT and an empty TLOC from ROM, planted breakpoints or not. *)
Boot ==
  /\ at' = "MONITOR" /\ pc' = MONITORPC /\ inte' = TRUE /\ PCLOC' = BOOT /\ resume' = BOOT
  /\ todo' = << >> /\ slot' = 1
  /\ TLOC' = [k \in Slots |-> NoBreakpoint]
  /\ NotesIf(\E a \in UserRam : Planted(a), "boot")
  /\ UNCHANGED mem

-----------------------------------------------------------------------------
(* СТ: an address goes to PCLOC as soon as it is typed.  Then ВК runs the      *)
(* program; or one or two breakpoints follow, and the last one typed is the   *)
(* first on the stack; or anything else ends in ERROR.                       *)
GotoAddress ==
  /\ at = "MONITOR" /\ at' = "GOTO"
  /\ \/ \E a \in UserRam : PCLOC' = a /\ resume' = a
     \/ UNCHANGED <<PCLOC, resume>>
  /\ UNCHANGED <<pc, inte, int_pending, TLOC, mem, todo, slot, lost>>

GotoDone ==
  /\ at = "GOTO"
  /\ \/ at' = "EXIT" /\ pc' = ExitPc /\ UNCHANGED todo
     \/ at' = "MONITOR" /\ UNCHANGED <<pc, todo>>
     \/ at' = "G03" /\ todo' \in {<<a>> : a \in UserRam} \cup (UserRam \X UserRam)
        /\ UNCHANGED pc
  /\ UNCHANGED <<inte, int_pending, PCLOC, TLOC, mem, slot, resume, lost>>

(* The loop G03: the address, the byte of the cell, and RST 7 into the cell.   *)
SaveAddress ==
  /\ at = "G03" /\ at' = "G03+LDAX"
  /\ TLOC' = [TLOC EXCEPT ![slot].addr = Head(todo)]
  /\ NotesIf(TLOC[slot].addr # 0 /\ Planted(TLOC[slot].addr), "overwritten")
  /\ UNCHANGED <<pc, inte, int_pending, PCLOC, mem, todo, slot, resume>>

SaveByte ==
  /\ at = "G03+LDAX" /\ at' = "G03+STAX"
  /\ TLOC' = [TLOC EXCEPT ![slot].byte = mem[Head(todo)]]
  /\ NotesIf(Planted(Head(todo)), "twice")
  /\ UNCHANGED <<pc, inte, int_pending, PCLOC, mem, todo, slot, resume>>

Plant ==
  /\ at = "G03+STAX" /\ mem' = [mem EXCEPT ![Head(todo)] = RST7]
  /\ todo' = Tail(todo)
  /\ IF Len(todo) = 1 THEN at' = "EXIT" /\ pc' = ExitPc /\ slot' = 1
                      ELSE at' = "G03" /\ slot' = 2 /\ UNCHANGED pc
  /\ UNCHANGED <<inte, int_pending, PCLOC, TLOC, resume, lost>>

(* EXIT, which runs in RAM, ends in JMP to whatever is in PCLOC. *)
Exit ==
  /\ at = "EXIT"
  /\ \/ PCLOC = BOOT /\ Boot
     \/ /\ PCLOC = ExitPc
        /\ UNCHANGED <<at, pc, inte, PCLOC, TLOC, mem, todo, slot, resume, lost>>
     \/ /\ PCLOC \notin {BOOT, ExitPc}
        /\ at' = "USER" /\ pc' = PCLOC /\ inte' = TRUE
        /\ UNCHANGED <<PCLOC, TLOC, mem, todo, slot, resume, lost>>
  /\ UNCHANGED int_pending

(* An instruction of the user program; one of them may be EI or DI.  A planted *)
(* cell calls the service of RST 7, which begins at 38h, with INTE as it is.  *)
UserStep ==
  /\ at = "USER"
  /\ IF pc \in UserRam /\ Planted(pc)
     THEN at' = "38H" /\ pc' = pc + 1 /\ UNCHANGED <<inte, resume>>
     ELSE pc' \in UserRam /\ inte' \in BOOLEAN /\ resume' = pc' /\ UNCHANGED at
  /\ UNCHANGED <<int_pending, PCLOC, TLOC, mem, todo, slot, lost>>

-----------------------------------------------------------------------------
(* ПР, and the CPU's answer to it between any two instructions. *)
Request ==
  /\ int_pending' = TRUE
  /\ UNCHANGED <<at, pc, inte, PCLOC, TLOC, mem, todo, slot, resume, lost>>

Acknowledge ==
  /\ inte /\ int_pending
  /\ inte' = FALSE /\ int_pending' = FALSE
  /\ at' = "38H" /\ pc' = (IF at = "38H" THEN MONITORPC ELSE pc)
  /\ lost' = lost \cup (CASE at = "EXIT"     -> {"exit"}
                          [] at = "38H"      -> {"nested"}
                          [] at = "G03+LDAX" -> {"half"}
                          [] OTHER           -> {})
  /\ UNCHANGED <<PCLOC, TLOC, mem, todo, slot, resume>>

(* RESTART: a request inside the monitor ends in ERROR, and with it what is on *)
(* the monitor's stack.  Otherwise PC - 1 is   *)
(* taken for a breakpoint if subtracting it from one leaves 0 in the upper     *)
(* byte; only a PC that is not is put right again.                           *)
IsBreakpoint_First(p) ==   \* mutant: only the first record is compared
  ((TLOC[1].addr - p) % (Page * Page)) \div Page = 0

IsBreakpoint(p) ==
  \E k \in Slots : ((TLOC[k].addr - p) % (Page * Page)) \div Page = 0

InPageBefore(p) == \E k \in Slots : TLOC[k].addr \in p .. p + Page - 1

Restart ==
  /\ at = "38H"
  /\ pc' = MONITORPC
  /\ IF pc - 1 < PCEND
     THEN /\ at' = "MONITOR" /\ inte' = TRUE /\ todo' = << >> /\ slot' = 1
          /\ UNCHANGED <<PCLOC, lost>>
     ELSE /\ at' = "RST2" /\ inte' = FALSE
          /\ PCLOC' = (IF IsBreakpoint(pc - 1) THEN pc - 1 ELSE pc)
          /\ NotesIf(pc = resume /\ InPageBefore(pc - 1), "page")
          /\ UNCHANGED <<todo, slot>>
  /\ UNCHANGED <<int_pending, TLOC, mem, resume>>

(* The loop RST2: one cell gets its byte back and its record is cleared, with  *)
(* interrupts disabled.                                                      *)
RestoreByte_Last ==   \* mutant: the byte is put back after the record is cleared
  /\ at = "RST2"
  /\ TLOC' = [TLOC EXCEPT ![slot].addr = 0]
  /\ mem' = [a \in UserRam |-> IF TLOC'[slot].addr = a THEN TLOC[slot].byte ELSE mem[a]]
  /\ IF slot = 2 THEN at' = "MONITOR" /\ inte' = TRUE /\ slot' = 1
                 ELSE slot' = 2 /\ UNCHANGED <<at, inte>>
  /\ UNCHANGED <<pc, int_pending, PCLOC, todo, resume, lost>>

RestoreByte ==
  /\ at = "RST2"
  /\ TLOC' = [TLOC EXCEPT ![slot].addr = 0]
  /\ mem' = [a \in UserRam |-> IF TLOC[slot].addr = a THEN TLOC[slot].byte ELSE mem[a]]
  /\ IF slot = 2 THEN at' = "MONITOR" /\ inte' = TRUE /\ slot' = 1
                 ELSE slot' = 2 /\ UNCHANGED <<at, inte>>
  /\ UNCHANGED <<pc, int_pending, PCLOC, todo, resume, lost>>

(* СБ, which also drops a request. *)
Reset == Boot /\ int_pending' = FALSE

Next ==
  \/ GotoAddress \/ GotoDone \/ SaveAddress \/ SaveByte \/ Plant \/ Exit \/ UserStep
  \/ Request \/ Acknowledge \/ Restart \/ RestoreByte \/ Reset

Spec == Init /\ [][Next]_vars

-----------------------------------------------------------------------------
(* Whatever ПР breaks off, the user's program can be put together again: each *)
(* of its cells holds its own byte, or RST 7 with that byte in TLOC; and once *)
(* TLOC is empty, all of it is there.  Four events spoil it: СБ or a jump to   *)
(* BOOT with a breakpoint planted, a new СТ over a record that is still in    *)
(* use, one address given twice, and a request between the two halves of a    *)
(* record.                                                                   *)
ProgramRecoverable ==
  lost \cap {"boot", "overwritten", "twice", "half"} = {} =>
    \A a \in UserRam :
      \/ mem[a] = a
      \/ Planted(a) /\ \E k \in Slots : TLOC[k] = [addr |-> a, byte |-> a]

(* Where СТ without an address goes on is where the program stopped: at the   *)
(* breakpoint it met or at the instruction that ПР kept it from executing.    *)
(* What spoils it are the four events above, after which RST 7 is met without  *)
(* a record; a request in EXIT, whose own address is then saved for the        *)
(* program's; a request in the service of a breakpoint; and one less than a    *)
(* page before a breakpoint, which is taken for the breakpoint.              *)
ResumesWhereStopped ==
  lost = {} /\ at \notin {"USER", "38H"} => PCLOC = resume
=============================================================================
