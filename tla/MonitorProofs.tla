----------------------------- MODULE MonitorProofs -----------------------------
(***************************************************************************)
(* Proofs about the monitor's breakpoints, for every size of a page, every *)
(* user program and every order of requests, resets and directives.        *)
(***************************************************************************)
EXTENDS Monitor, SequenceTheorems, TLAPS

Spoils == {"boot", "overwritten", "twice", "half"}
InLoop == at \in {"G03", "G03+LDAX", "G03+STAX"}

Typed ==
  /\ mem \in [UserRam -> UserRam \cup {RST7}]
  /\ TLOC \in [Slots -> [addr : UserRam \cup {0}, byte : UserRam \cup {0}]]
  /\ todo \in Seq(UserRam) /\ slot \in Slots
  /\ InLoop => todo # << >>
  /\ at \in {"G03+LDAX", "G03+STAX"} => TLOC[slot].addr = Head(todo)

(* Every cell is the user's own or a breakpoint with a record. *)
Cells ==
  \A a \in UserRam :
    \/ mem[a] = a
    \/ Planted(a) /\ \E k \in Slots : TLOC[k] = [addr |-> a, byte |-> a]

(* Every record in use, but the one that СТ is writing, has the right byte. *)
Records ==
  \A k \in Slots : \/ TLOC[k].addr \in {0, TLOC[k].byte}
                   \/ at = "G03+LDAX" /\ k = slot

IInv == Typed /\ (lost \cap Spoils = {} => Cells /\ Records)

(* Where pc and PCLOC are, as long as nothing unforeseen has happened. *)
Whereabouts ==
  /\ at \in {"MONITOR", "GOTO", "G03", "G03+LDAX", "G03+STAX", "RST2"} => pc = MONITORPC
  /\ at = "EXIT" => pc = ExitPc
  /\ at = "USER" => pc = resume /\ pc \in UserRam
  /\ at = "38H"  => \/ pc = MONITORPC /\ PCLOC = resume
                    \/ pc = resume /\ pc \in UserRam
                    \/ pc = resume + 1 /\ resume \in UserRam /\ Planted(resume)
  /\ at \notin {"USER", "38H"} => PCLOC = resume

Points == {"MONITOR", "GOTO", "G03", "G03+LDAX", "G03+STAX", "EXIT", "USER", "38H", "RST2"}

RInv == at \in Points /\ resume \in UserRam \cup {BOOT} /\ (lost = {} => Whereabouts)

-----------------------------------------------------------------------------
(* Addresses are integers past the two values with a meaning of their own. *)
LEMMA UserAddresses ==
  /\ 0 \notin UserRam /\ RST7 \notin UserRam /\ BOOT \notin UserRam
  /\ \A a \in UserRam : a \in Nat /\ a > PCEND + 1
  /\ ExitPc \in Nat /\ ExitPc > PCEND + 1 /\ ExitPc \notin UserRam
BY LayoutAssumption DEF RST7, BOOT

(* One or two addresses on the stack, and what POP leaves of them. *)
LEMMA Addresses ==
  ASSUME NEW s, s \in {<<a>> : a \in UserRam} \cup (UserRam \X UserRam)
  PROVE  s \in Seq(UserRam) /\ s # << >>
<1>1. CASE s \in {<<a>> : a \in UserRam}
  <2>1. PICK a \in UserRam : s = <<a>>
    BY <1>1
  <2> QED
    BY <2>1
<1>2. CASE s \in UserRam \X UserRam
  <2>1. PICK a \in UserRam, b \in UserRam : s = <<a, b>>
    BY <1>2
  <2> QED
    BY <2>1
<1> QED
  BY <1>1, <1>2

LEMMA Popped ==
  ASSUME NEW s \in Seq(UserRam), s # << >>
  PROVE  Tail(s) \in Seq(UserRam) /\ (Len(s) # 1 => Tail(s) # << >>)
<1>1. Tail(s) \in Seq(UserRam) /\ Len(Tail(s)) = Len(s) - 1 /\ Len(s) \in Nat
  BY HeadTailProperties
<1>2. Tail(s) = << >> => Len(Tail(s)) = 0
  BY EmptySeq, Zenon
<1> QED
  BY <1>1, <1>2

LEMMA InitInv == Init => IInv
BY UserAddresses DEF Init, IInv, Typed, InLoop, Cells, Records, Slots, NoBreakpoint, Planted

(* BOOT: the records go, and with them no breakpoint unless it is noted. *)
LEMMA BootInv == IInv /\ Boot => IInv'
<1> SUFFICES ASSUME IInv, Boot PROVE IInv'
  OBVIOUS
<1>1. Typed'
  BY DEF IInv, Typed, Boot, InLoop, NoBreakpoint, Slots
<1>2. ASSUME lost' \cap Spoils = {} PROVE Cells' /\ Records'
  <2>1. lost \cap Spoils = {} /\ \A a \in UserRam : ~Planted(a)
    BY <1>2 DEF Boot, NotesIf, Spoils
  <2>2. \A a \in UserRam : mem'[a] = a
    BY <2>1 DEF IInv, Cells, Boot
  <2> QED
    BY <2>2 DEF Cells, Records, Boot, NoBreakpoint
<1> QED
  BY <1>1, <1>2 DEF IInv

LEMMA SaveAddressInv == IInv /\ SaveAddress => IInv'
<1> SUFFICES ASSUME IInv, SaveAddress PROVE IInv'
  OBVIOUS
<1>1. todo # << >> /\ Head(todo) \in UserRam /\ slot \in Slots
  BY DEF IInv, Typed, InLoop, SaveAddress
<1>2. Typed'
  BY <1>1 DEF IInv, Typed, SaveAddress, InLoop
<1>3. ASSUME lost' \cap Spoils = {} PROVE Cells' /\ Records'
  <2>1. lost \cap Spoils = {} /\ ~(TLOC[slot].addr # 0 /\ Planted(TLOC[slot].addr))
    BY <1>3 DEF SaveAddress, NotesIf, Spoils
  <2>2. Cells /\ Records
    BY <2>1 DEF IInv
  <2>3. \A k \in Slots : k # slot => TLOC'[k] = TLOC[k]
    BY <1>1 DEF SaveAddress, IInv, Typed
  <2>4. Cells'
    BY <2>1, <2>2, <2>3, UserAddresses DEF Cells, SaveAddress, Planted
  <2>5. Records'
    BY <2>2, <2>3 DEF Records, SaveAddress
  <2> QED
    BY <2>4, <2>5
<1> QED
  BY <1>2, <1>3 DEF IInv

LEMMA SaveByteInv == IInv /\ SaveByte => IInv'
<1> SUFFICES ASSUME IInv, SaveByte PROVE IInv'
  OBVIOUS
<1> DEFINE a == Head(todo)
<1>1. a \in UserRam /\ slot \in Slots /\ TLOC[slot].addr = a
  BY DEF IInv, Typed, InLoop, SaveByte
<1>2. Typed'
  BY <1>1 DEF IInv, Typed, SaveByte, InLoop, RST7
<1>3. ASSUME lost' \cap Spoils = {} PROVE Cells' /\ Records'
  <2>1. Cells /\ Records /\ ~Planted(a)
    BY <1>3 DEF SaveByte, NotesIf, Spoils, IInv
  <2>2. mem[a] = a
    BY <1>1, <2>1 DEF Cells
  <2>3. /\ \A k \in Slots : k # slot => TLOC'[k] = TLOC[k]
        /\ TLOC'[slot].addr = a /\ TLOC'[slot].byte = a
    BY <1>1, <2>2 DEF SaveByte, IInv, Typed
  <2>4. Cells'
    BY <1>1, <2>1, <2>3 DEF Cells, SaveByte, Planted
  <2>5. Records'
    BY <2>1, <2>3 DEF Records, SaveByte
  <2> QED
    BY <2>4, <2>5
<1> QED
  BY <1>2, <1>3 DEF IInv

LEMMA PlantInv == IInv /\ Plant => IInv'
<1> SUFFICES ASSUME IInv, Plant PROVE IInv'
  OBVIOUS
<1> DEFINE a == Head(todo)
<1>1. a \in UserRam /\ slot \in Slots /\ TLOC[slot].addr = a
  BY DEF IInv, Typed, InLoop, Plant
<1>2. Typed'
  <2>1. todo' \in Seq(UserRam) /\ (Len(todo) # 1 => todo' # << >>)
    <3>1. todo \in Seq(UserRam) /\ todo # << >> /\ todo' = Tail(todo)
      BY Zenon DEF IInv, Typed, InLoop, Plant
    <3> QED
      BY <3>1, Popped, Zenon
  <2> QED
    BY <1>1, <2>1 DEF IInv, Typed, Plant, InLoop, Slots
<1>3. ASSUME lost' \cap Spoils = {} PROVE Cells' /\ Records'
  <2>1. Cells /\ Records
    BY <1>3 DEF Plant, IInv
  <2>2. TLOC[slot] = [addr |-> a, byte |-> a]
    <3>1. TLOC[slot] \in [addr : UserRam \cup {0}, byte : UserRam \cup {0}]
      BY <1>1 DEF IInv, Typed
    <3>2. TLOC[slot].byte = a
      BY <1>1, <2>1, UserAddresses DEF Records, Plant
    <3> QED
      BY <1>1, <3>1, <3>2
  <2>3. mem'[a] = RST7 /\ \A b \in UserRam : b # a => mem'[b] = mem[b]
    BY <1>1 DEF Plant, IInv, Typed
  <2>4. Cells'
    BY <1>1, <2>1, <2>2, <2>3 DEF Cells, Planted, Plant
  <2>5. Records'
    BY <2>1 DEF Records, Plant
  <2> QED
    BY <2>4, <2>5
<1> QED
  BY <1>2, <1>3 DEF IInv

LEMMA RestoreByteInv == IInv /\ RestoreByte => IInv'
<1> SUFFICES ASSUME IInv, RestoreByte PROVE IInv'
  OBVIOUS
<1>1. slot \in Slots /\ TLOC[slot].byte \in UserRam \cup {0}
  BY DEF IInv, Typed
<1>2. Typed'
  BY <1>1 DEF IInv, Typed, RestoreByte, InLoop, Slots, RST7
<1>3. ASSUME lost' \cap Spoils = {} PROVE Cells' /\ Records'
  <2>1. Cells /\ Records
    BY <1>3 DEF RestoreByte, IInv
  <2>2. \A k \in Slots : k # slot => TLOC'[k] = TLOC[k]
    BY <1>1 DEF RestoreByte, IInv, Typed
  <2>3. TLOC'[slot].addr = 0
    BY <1>1 DEF RestoreByte, IInv, Typed
  <2>4. \A a \in UserRam : mem'[a] = IF TLOC[slot].addr = a THEN a ELSE mem[a]
    BY <1>1, <2>1, UserAddresses DEF RestoreByte, Records
  <2>5. Cells'
    BY <2>1, <2>2, <2>4 DEF Cells, Planted
  <2>6. Records'
    BY <2>1, <2>2, <2>3 DEF Records, RestoreByte
  <2> QED
    BY <2>5, <2>6
<1> QED
  BY <1>2, <1>3 DEF IInv

(* The other actions leave memory and records alone. *)
LEMMA OthersInv ==
  ASSUME IInv, GotoAddress \/ GotoDone \/ UserStep \/ Request \/ Acknowledge \/ Restart
  PROVE  IInv'
<1>1. UNCHANGED <<mem, TLOC>> /\ slot' \in Slots /\ lost \subseteq lost'
  BY Zenon DEF IInv, Typed, GotoAddress, GotoDone, UserStep, Request, Acknowledge, Restart,
               NotesIf, Slots
<1>2. Typed'
  <2>1. todo \in Seq(UserRam) /\ << >> \in Seq(UserRam)
    BY Zenon, EmptySeq DEF IInv, Typed
  <2>2. \/ todo' = todo /\ at' = at /\ slot' = slot
        \/ todo' \in {todo, << >>} /\ at' \notin {"G03", "G03+LDAX", "G03+STAX"}
        \/ at' = "G03" /\ todo' \in {<<a>> : a \in UserRam} \cup (UserRam \X UserRam)
    BY DEF GotoAddress, GotoDone, UserStep, Request, Acknowledge, Restart
  <2>3. CASE todo' = todo /\ at' = at /\ slot' = slot
    BY <1>1, <2>3, Zenon DEF IInv, Typed, InLoop
  <2>4. CASE todo' \in {todo, << >>} /\ at' \notin {"G03", "G03+LDAX", "G03+STAX"}
    <3>1. todo' \in Seq(UserRam) /\ ~InLoop'
      BY <2>1, <2>4, Zenon DEF InLoop
    <3> QED
      BY <1>1, <2>4, <3>1, Zenon DEF IInv, Typed, InLoop
  <2>5. CASE at' = "G03" /\ todo' \in {<<a>> : a \in UserRam} \cup (UserRam \X UserRam)
    <3>1. todo' \in Seq(UserRam) /\ todo' # << >>
      BY <2>5, Addresses, Zenon
    <3>2. at' \notin {"G03+LDAX", "G03+STAX"}
      BY <2>5
    <3> QED
      BY <1>1, <3>1, <3>2, Zenon DEF IInv, Typed
  <2> QED
    BY <2>2, <2>3, <2>4, <2>5
<1>3. ASSUME lost' \cap Spoils = {} PROVE Cells' /\ Records'
  <2>1. Cells /\ Records
    BY <1>1, <1>3 DEF IInv
  <2>2. at = "G03+LDAX" => UNCHANGED <<at, slot>>
    BY <1>3 DEF Spoils, GotoAddress, GotoDone, UserStep, Request, Acknowledge, Restart
  <2> QED
    BY <1>1, <2>1, <2>2 DEF Cells, Planted, Records
<1> QED
  BY <1>2, <1>3 DEF IInv

LEMMA ExitInv == IInv /\ Exit => IInv'
<1> SUFFICES ASSUME IInv, Exit PROVE IInv'
  OBVIOUS
<1>1. CASE Boot
  BY <1>1, BootInv
<1>2. CASE UNCHANGED <<TLOC, mem, todo, slot, lost>> /\ at' \in {"EXIT", "USER"}
  BY <1>2 DEF Exit, IInv, Typed, InLoop, Cells, Planted, Records
<1> QED
  BY <1>1, <1>2 DEF Exit

LEMMA StepInv == IInv /\ [Next]_vars => IInv'
<1> SUFFICES ASSUME IInv, [Next]_vars PROVE IInv'
  OBVIOUS
<1>1. CASE UNCHANGED vars
  BY <1>1 DEF vars, IInv, Typed, InLoop, Cells, Planted, Records
<1>2. CASE Reset
  BY <1>2, BootInv DEF Reset
<1> QED
  BY <1>1, <1>2, SaveAddressInv, SaveByteInv, PlantInv, RestoreByteInv, OthersInv, ExitInv
     DEF Next

LEMMA Invariance == Spec => []IInv
BY InitInv, StepInv, PTL DEF Spec

(* Whatever the requests, resets and directives, RST 7 stands in the user    *)
(* program only where TLOC has the byte it replaced, unless one of the four   *)
(* events of ProgramRecoverable has happened (monitor.asm, G03 and RST2).     *)
THEOREM AlwaysRecoverable == Spec => []ProgramRecoverable
<1>1. IInv => ProgramRecoverable
  BY DEF IInv, Cells, Spoils, ProgramRecoverable
<1> QED
  BY <1>1, Invariance, PTL

-----------------------------------------------------------------------------
(* The comparison of RESTART: an address from the program, or the 0 of an     *)
(* unused record, leaves 0 in the upper byte if and only if it is in the page *)
(* that begins at p.                                                         *)
LEMMA Remainder ==
  ASSUME NEW n \in Nat \ {0}, NEW d \in Int, -n <= d, d < n
  PROVE  d % n = IF d < 0 THEN d + n ELSE d
OBVIOUS

LEMMA UpperByte ==
  ASSUME NEW x \in Nat
  PROVE  x \div Page = 0 <=> x < Page
BY LayoutAssumption

LEMMA SquareOfPage ==
  /\ Page * Page \in Nat \ {0} /\ Page * (Page - 1) \in Int
  /\ Page * (Page - 1) = Page * Page - Page
BY LayoutAssumption

LEMMA ComparedWithPage ==
  ASSUME NEW t \in UserRam \cup {0}, NEW p \in PCEND .. Page * (Page - 1) - 1
  PROVE  ((t - p) % (Page * Page)) \div Page = 0 <=> t \in p .. p + Page - 1
<1> DEFINE n == Page * Page
           r == (t - p) % n
<1>1. /\ n \in Nat \ {0} /\ Page \in Nat \ {0} /\ PCEND \in Nat \ {0}
      /\ t \in Nat /\ t < n - Page /\ p \in Nat /\ p < n - Page
  BY SquareOfPage, LayoutAssumption, UserAddresses
<1> HIDE DEF n
<1>2. r = (IF t - p < 0 THEN t - p + n ELSE t - p)
  <2>1. t - p \in Int /\ -n <= t - p /\ t - p < n
    BY <1>1
  <2> QED
    BY <1>1, <2>1, Remainder, Zenon
<1>3. r \in Nat /\ (r < Page <=> t \in p .. p + Page - 1)
  BY <1>1, <1>2
<1> QED
  BY <1>3, UpperByte DEF n

-----------------------------------------------------------------------------
LEMMA InitWhere == Init => RInv
BY DEF Init, RInv, Whereabouts, Points

(* The monitor's own steps, without an event, stay in ROM or go to EXIT. *)
LEMMA MonitorWhere ==
  ASSUME RInv, GotoAddress \/ GotoDone \/ SaveAddress \/ SaveByte \/ Plant \/ RestoreByte
  PROVE  RInv'
<1>1. lost \subseteq lost' /\ resume' \in UserRam \cup {BOOT}
  BY DEF RInv, GotoAddress, GotoDone, SaveAddress, SaveByte, Plant, RestoreByte, NotesIf
<1>2. /\ at \in {"MONITOR", "GOTO", "G03", "G03+LDAX", "G03+STAX", "RST2"}
      /\ \/ at' \in {"MONITOR", "GOTO", "G03", "G03+LDAX", "G03+STAX", "RST2"} /\ pc' = pc
         \/ at' = "EXIT" /\ pc' = ExitPc
      /\ PCLOC = resume => PCLOC' = resume'
  BY DEF GotoAddress, GotoDone, SaveAddress, SaveByte, Plant, RestoreByte
<1>3. ASSUME lost' = {} PROVE Whereabouts'
  BY <1>1, <1>2, <1>3 DEF RInv, Whereabouts
<1> QED
  BY <1>1, <1>2, <1>3 DEF RInv, Points

LEMMA BootWhere == Boot => RInv'
BY DEF Boot, RInv, Whereabouts, Points

LEMMA ExitWhere == RInv /\ Exit => RInv'
<1> SUFFICES ASSUME RInv, Exit PROVE RInv'
  OBVIOUS
<1>1. CASE Boot
  BY <1>1, BootWhere
<1>2. CASE PCLOC = ExitPc /\ UNCHANGED <<at, pc, PCLOC, mem, resume, lost>>
  BY <1>2 DEF RInv, Whereabouts, Planted
<1>3. CASE /\ PCLOC \notin {BOOT, ExitPc} /\ at' = "USER" /\ pc' = PCLOC
           /\ UNCHANGED <<PCLOC, mem, resume, lost>>
  BY <1>3 DEF RInv, Whereabouts, Points, Exit
<1> QED
  BY <1>1, <1>2, <1>3 DEF Exit

(* An instruction of the program, or the RST 7 of a breakpoint. *)
LEMMA UserWhere == RInv /\ UserStep => RInv'
<1> SUFFICES ASSUME RInv, UserStep PROVE RInv'
  OBVIOUS
<1>1. CASE pc \in UserRam /\ Planted(pc)
  <2>1. at' = "38H" /\ pc' = pc + 1 /\ UNCHANGED <<mem, resume, lost>>
    BY <1>1 DEF UserStep
  <2> QED
    BY <1>1, <2>1 DEF RInv, Whereabouts, Points, Planted, UserStep
<1>2. CASE ~(pc \in UserRam /\ Planted(pc))
  <2>1. at' = "USER" /\ pc' \in UserRam /\ resume' = pc' /\ lost' = lost
    BY <1>2 DEF UserStep
  <2> QED
    BY <2>1 DEF RInv, Whereabouts, Points
<1> QED
  BY <1>1, <1>2

LEMMA RequestWhere == RInv /\ (Request \/ Acknowledge) => RInv'
<1> SUFFICES ASSUME RInv, Request \/ Acknowledge PROVE RInv'
  OBVIOUS
<1>1. CASE Request
  BY <1>1 DEF Request, RInv, Whereabouts, Planted
<1>2. CASE Acknowledge
  <2>1. at' = "38H" /\ UNCHANGED <<PCLOC, mem, resume>>
    BY <1>2 DEF Acknowledge
  <2>2. ASSUME lost' = {} PROVE lost = {} /\ at \notin {"EXIT", "38H"} /\ pc' = pc
    BY <1>2, <2>2 DEF Acknowledge
  <2>3. ASSUME lost' = {} PROVE Whereabouts'
    BY <2>1, <2>2, <2>3 DEF RInv, Whereabouts, Points
  <2> QED
    BY <2>1, <2>3 DEF RInv, Points
<1> QED
  BY <1>1, <1>2

(* RESTART saves the address where the program goes on.  At a breakpoint it   *)
(* finds the record that Cells promises; a request it takes for a breakpoint  *)
(* is noted as such.                                                         *)
LEMMA RestartWhere == IInv /\ RInv /\ Restart => RInv'
<1> SUFFICES ASSUME IInv, RInv, Restart PROVE RInv'
  OBVIOUS
<1>1. UNCHANGED <<mem, resume>> /\ lost \subseteq lost' /\ pc' = MONITORPC
      /\ at' \in {"MONITOR", "RST2"}
  BY DEF Restart, NotesIf
<1>2. ASSUME lost' = {} PROVE PCLOC' = resume
  <2>1. lost = {} /\ Whereabouts /\ at = "38H"
    BY <1>1, <1>2 DEF RInv, Restart
  <2>2. PCEND \in Nat \ {0, 1} /\ MONITORPC - 1 < PCEND
    BY LayoutAssumption DEF MONITORPC
  <2>3. CASE pc = MONITORPC /\ PCLOC = resume
    BY <2>2, <2>3 DEF Restart
  <2>4. CASE pc = resume /\ pc \in UserRam
    <3>1. pc \in Nat /\ ~(pc - 1 < PCEND) /\ pc - 1 \in PCEND .. Page * (Page - 1) - 1
      BY <2>2, <2>4, SquareOfPage, UserAddresses, LayoutAssumption
    <3>2. ~InPageBefore(pc - 1)
      BY <1>2, <2>4, <3>1 DEF Restart, NotesIf
    <3>3. ~IsBreakpoint(pc - 1)
      <4>1. \A k \in Slots : TLOC[k].addr \in UserRam \cup {0}
        BY DEF IInv, Typed
      <4> QED
        BY <3>1, <3>2, <4>1, ComparedWithPage DEF IsBreakpoint, InPageBefore
    <3> QED
      BY <2>4, <3>1, <3>3 DEF Restart
  <2>5. CASE pc = resume + 1 /\ resume \in UserRam /\ Planted(resume)
    <3>1. /\ resume \in Nat /\ pc - 1 = resume /\ ~(pc - 1 < PCEND)
          /\ resume \in PCEND .. Page * (Page - 1) - 1
      BY <2>2, <2>5, SquareOfPage, UserAddresses, LayoutAssumption
    <3>2. PICK k \in Slots : TLOC[k].addr = resume
      <4>1. Cells
        BY <2>1 DEF IInv
      <4>2. mem[resume] # resume
        BY <2>5, UserAddresses DEF Planted
      <4>3. PICK k \in Slots : TLOC[k] = [addr |-> resume, byte |-> resume]
        BY <2>5, <4>1, <4>2, Zenon DEF Cells
      <4> QED
        BY <4>3
    <3>3. IsBreakpoint(resume)
      <4>1. resume \in resume .. resume + Page - 1
        BY <3>1, LayoutAssumption
      <4> QED
        BY <2>5, <3>1, <3>2, <4>1, ComparedWithPage DEF IsBreakpoint
    <3> QED
      BY <3>1, <3>3 DEF Restart
  <2> QED
    BY <2>1, <2>3, <2>4, <2>5 DEF Whereabouts
<1>3. ASSUME lost' = {} PROVE Whereabouts'
  BY <1>1, <1>2, <1>3 DEF Whereabouts
<1> QED
  BY <1>1, <1>3 DEF RInv, Points

LEMMA StepWhere == IInv /\ RInv /\ [Next]_vars => RInv'
<1> SUFFICES ASSUME IInv, RInv, [Next]_vars PROVE RInv'
  OBVIOUS
<1>1. CASE UNCHANGED vars
  BY <1>1 DEF vars, RInv, Whereabouts, Planted
<1>2. CASE Reset
  BY <1>2, BootWhere DEF Reset
<1> QED
  BY <1>1, <1>2, MonitorWhere, ExitWhere, UserWhere, RequestWhere, RestartWhere DEF Next

(* СТ without an address goes on where the program stopped, unless one of the *)
(* seven events has happened (monitor.asm, RESTART and PCLOC).                *)
THEOREM AlwaysResumes == Spec => []ResumesWhereStopped
<1>1. RInv => ResumesWhereStopped
  BY DEF RInv, Whereabouts, ResumesWhereStopped
<1> QED
  BY <1>1, InitWhere, StepWhere, Invariance, PTL DEF Spec
=============================================================================
