-------------------------------- MODULE Umkasm --------------------------------
(***************************************************************************)
(* The assembler, tools/umkasm.c: the symbol table, the passes that are    *)
(* repeated until it stops changing, the pass that emits the image, and    *)
(* the comparison with a reference.  A source line is a record of what the *)
(* parser finds in it; line splitting, number formats and upper case are   *)
(* left out, parentheses are flattened, and instructions with the same     *)
(* operand are one.                                                        *)
(***************************************************************************)
EXTENDS Integers, Sequences, FiniteSets

CONSTANTS
  Sources,      \* source texts: sequences of lines, at most MAX_LINES long
  Names,        \* the identifiers that occur in them
  References,   \* images that --verify may name
  ImageSize,    \* --size
  MaxSyms,      \* MAX_SYMS
  MaxPasses     \* passes before the assembler gives up: 16 in the code

IMAGE_MAX == 65536   \* entries of image[] and covered[]

HERE == "$"     \* the location counter, as a term
NUMBER == "#"   \* a numeric or character constant, as a term

(* A term of an expression; a line.  op is "NONE", "EQU", "ORG", "DS", "RST",  *)
(* "DATA" (DB and DW: every operand is a field of `width` bytes), "CODE" (an  *)
(* instruction: the opcode `base` and `width` bytes of operand) or "UNKNOWN".  *)
(* An EQU is the second word of its line, so it has a name.                    *)
Term == [sym : Names \cup {HERE, NUMBER}, num : Int, not : BOOLEAN, neg : BOOLEAN]
SourceLine ==
  {l \in
     [op : {"NONE", "EQU", "ORG", "DS", "RST", "DATA", "CODE", "UNKNOWN"},
      label : Names \cup {""}, name : Names \cup {""}, base : 0 .. 255,
      width : 0 .. 2, bad_register : BOOLEAN, args : Seq(Seq(Term))] :
   l.op = "EQU" => l.name # ""}

ASSUME SourceAssumption ==
  {HERE, NUMBER, ""} \cap Names = {} /\ Sources \subseteq Seq(SourceLine)
ASSUME LimitAssumption == {ImageSize, MaxSyms, MaxPasses} \subseteq Nat \ {0}

(* main does not check --size: with a larger one, emit writes past image[] and *)
(* covered[].  Such a run is outside the model.                                *)
ASSUME ImageAssumption == ImageSize <= IMAGE_MAX

VARIABLES
  source, verify,   \* the source and the set of references, one or none
  phase,            \* "PASS", "EMIT", "VERIFY" or "DONE"
  pass, line,       \* pass, cur_line
  pc,               \* location counter
  syms,             \* symbol table: a function on the names in it
  changed, errors,  \* a symbol changed in this pass; errors > 0
  image, file,      \* the image; {} or the image written
  exit,             \* exit status, once phase = "DONE"
  at                \* history: where the last symbol pass put each line

vars == <<source, verify, phase, pass, line, pc, syms, changed, errors, image,
          file, exit, at>>

-----------------------------------------------------------------------------
(* Expressions: a sequence of terms, each a constant, "$" or a symbol, that   *)
(* may be complemented (NOT) and is then added or subtracted.  An undefined   *)
(* symbol counts 0 and makes the expression unresolved.                       *)
eval_factor(t, s, here) ==
  IF t.sym = NUMBER THEN t.num
  ELSE IF t.sym = HERE THEN here
  ELSE IF t.sym \in DOMAIN s THEN s[t.sym] ELSE 0

eval_term(t, s, here) ==
  LET v == eval_factor(t, s, here)
      c == IF t.not THEN -v - 1 ELSE v
  IN  IF t.neg THEN -c ELSE c

Total(v) ==
  LET sum[n \in 0 .. Len(v)] == IF n = 0 THEN 0 ELSE sum[n - 1] + v[n]
  IN  sum[Len(v)]

eval_expr(e, s, here) == Total([i \in DOMAIN e |-> eval_term(e[i], s, here)])

eval_ok(e, s) == \A i \in DOMAIN e : e[i].sym \in {HERE, NUMBER} \cup DOMAIN s

(* The first operand of a line; a missing one counts 0 and is no error. *)
Operand(l, s, here) == IF l.args = << >> THEN 0 ELSE eval_expr(l.args[1], s, here)
Resolved(l, s) == \A i \in DOMAIN l.args : eval_ok(l.args[i], s)

-----------------------------------------------------------------------------
(* The symbol table. *)
Full(s, name) == name \notin DOMAIN s /\ Cardinality(DOMAIN s) >= MaxSyms

sym_set(s, name, v) ==
  IF Full(s, name) THEN s
  ELSE [n \in DOMAIN s \cup {name} |-> IF n = name THEN v ELSE s[n]]

Labelled(l, s, here) == IF l.label = "" THEN s ELSE sym_set(s, l.label, here)

Equated(l, s, here) ==
  IF l.op = "EQU" /\ Resolved(l, s)
  THEN sym_set(s, l.name, Operand(l, s, here)) ELSE s

Overflows(l, s, here) ==
  \/ l.label # "" /\ Full(s, l.label)
  \/ /\ l.op = "EQU" /\ Resolved(l, Labelled(l, s, here))
     /\ Full(Labelled(l, s, here), l.name)

-----------------------------------------------------------------------------
(* What a line emits, where the next one goes, and what is an error in it     *)
(* while emitting.  "CODE" is an instruction with `width` bytes of operand.   *)
LittleEndian(v, width) ==
  [k \in 1 .. width |-> IF k = 1 THEN v % 256 ELSE (v \div 256) % 256]

Fields(l, s, here) ==
  [k \in 1 .. Len(l.args) * l.width |->
     LittleEndian(eval_expr(l.args[1 + ((k - 1) \div l.width)], s, here), l.width)
       [1 + ((k - 1) % l.width)]]

Emitted(l, s, here) ==
  CASE l.op = "DATA" -> Fields(l, s, here)
    [] l.op = "CODE" -> <<l.base>> \o LittleEndian(Operand(l, s, here), l.width)
    [] l.op = "RST"  -> <<(l.base + 8 * (Operand(l, s, here) % 8)) % 256>>
    [] OTHER -> << >>

Advance(l, s, here) ==
  CASE l.op = "ORG" -> IF Resolved(l, s) THEN Operand(l, s, here) ELSE here
    [] l.op = "DS"  -> here + Operand(l, s, here)
    [] OTHER -> here + Len(Emitted(l, s, here))

Addresses == 0 .. ImageSize - 1

Faulty(l, s, here) ==
  \/ l.op = "UNKNOWN" \/ l.bad_register
  \/ l.op \in {"EQU", "DATA", "CODE"} /\ ~Resolved(l, s)
  \/ \E k \in DOMAIN Emitted(l, s, here) : here + k - 1 \notin Addresses

Stamped_Unbounded(img, bytes, here) ==   \* mutant: no test against image_size
  [a \in Addresses \cup {here + k - 1 : k \in DOMAIN bytes} |->
     IF a - here + 1 \in DOMAIN bytes THEN bytes[a - here + 1] ELSE img[a]]

Stamped(img, bytes, here) ==
  [a \in Addresses |-> IF a - here + 1 \in DOMAIN bytes THEN bytes[a - here + 1] ELSE img[a]]

-----------------------------------------------------------------------------
Init ==
  /\ source \in Sources
  /\ verify \in {{}} \cup {{r} : r \in References}
  /\ phase = "PASS" /\ pass = 0 /\ line = 1 /\ pc = 0
  /\ syms = << >>
  /\ changed = FALSE /\ errors = FALSE
  /\ image = [a \in Addresses |-> 255] /\ file = {}
  /\ exit = 0
  /\ at = [i \in 1 .. Len(source) |-> 0]

(* assemble_line: the part common to the symbol passes and the emission. *)
Scan_LabelsOnly(labelled, l) ==   \* mutant: an EQU that changes does not count
  /\ syms' = Equated(l, labelled, pc)
  /\ changed' = (changed \/ labelled # syms)
  /\ pc' = Advance(l, labelled, pc)
  /\ line' = line + 1
  /\ UNCHANGED <<source, verify, phase, pass, file, exit>>

Scan_AlwaysChanged(labelled, l) ==   \* mutant: every definition counts as a change
  /\ syms' = Equated(l, labelled, pc)
  /\ changed' = (changed \/ l.label # "" \/ Equated(l, labelled, pc) # labelled)
  /\ pc' = Advance(l, labelled, pc)
  /\ line' = line + 1
  /\ UNCHANGED <<source, verify, phase, pass, file, exit>>

Scan(labelled, l) ==
  /\ syms' = Equated(l, labelled, pc)
  /\ changed' = (changed \/ labelled # syms \/ Equated(l, labelled, pc) # labelled)
  /\ pc' = Advance(l, labelled, pc)
  /\ line' = line + 1
  /\ UNCHANGED <<source, verify, phase, pass, file, exit>>

AssembleLine ==
  /\ phase = "PASS" /\ line <= Len(source)
  /\ LET l == source[line]
     IN  /\ Scan(Labelled(l, syms, pc), l)
         /\ errors' = (errors \/ Overflows(l, syms, pc))
  /\ at' = [at EXCEPT ![line] = pc]
  /\ UNCHANGED image

EmitLine ==
  /\ phase = "EMIT" /\ line <= Len(source)
  /\ LET l == source[line]
         labelled == Labelled(l, syms, pc)
     IN  /\ Scan(labelled, l)
         /\ errors' = (errors \/ Overflows(l, syms, pc) \/ Faulty(l, labelled, pc))
         /\ image' = Stamped(image, Emitted(l, labelled, pc), pc)
  /\ UNCHANGED at

(* The end of a symbol pass: another one, the emission, or giving up. *)
Rewind_KeepsPc(p) == phase' = p /\ line' = 1 /\ pc' = pc   \* mutant: pc is not reset

Rewind(p) == phase' = p /\ line' = 1 /\ pc' = 0

EndPass ==
  /\ phase = "PASS" /\ line > Len(source)
  /\ changed' = FALSE
  /\ \/ ~changed /\ Rewind("EMIT") /\ errors' = FALSE /\ UNCHANGED <<pass, exit>>
     \/ /\ changed /\ pass + 1 < MaxPasses
        /\ Rewind("PASS") /\ pass' = pass + 1 /\ UNCHANGED <<errors, exit>>
     \/ /\ changed /\ pass + 1 = MaxPasses
        /\ phase' = "DONE" /\ pass' = pass + 1 /\ exit' = 1
        /\ UNCHANGED <<errors, line, pc>>
  /\ UNCHANGED <<source, verify, syms, image, file, at>>

(* The end of the emission: the file is written if there was no error and it  *)
(* can be opened.                                                             *)
Finish(status) == phase' = "DONE" /\ exit' = status

Write ==
  /\ phase = "EMIT" /\ line > Len(source)
  /\ \/ errors /\ Finish(1) /\ UNCHANGED file
     \/ ~errors /\ Finish(2) /\ UNCHANGED file
     \/ ~errors /\ phase' = "VERIFY" /\ file' = {image} /\ UNCHANGED exit
  /\ UNCHANGED <<source, verify, pass, line, pc, syms, changed, errors, image, at>>

Verify ==
  /\ phase = "VERIFY"
  /\ \/ Finish(IF verify \subseteq {image} THEN 0 ELSE 1)
     \/ verify # {} /\ Finish(2)                       \* it cannot be opened
  /\ UNCHANGED <<source, verify, pass, line, pc, syms, changed, errors, image,
                 file, at>>

Next == AssembleLine \/ EmitLine \/ EndPass \/ Write \/ Verify

Spec == Init /\ [][Next]_vars
-----------------------------------------------------------------------------
Lines == DOMAIN source

TypeOK ==
  /\ source \in Sources
  /\ verify \subseteq References
  /\ phase \in {"PASS", "EMIT", "VERIFY", "DONE"}
  /\ pass \in 0 .. MaxPasses
  /\ line \in 1 .. Len(source) + 1
  /\ pc \in Int
  /\ DOMAIN syms \subseteq Names /\ \A n \in DOMAIN syms : syms[n] \in Int
  /\ {changed, errors} \subseteq BOOLEAN
  /\ image \in [Addresses -> 0 .. 255] /\ file \subseteq {image}
  /\ exit \in 0 .. 2
  /\ at \in [Lines -> Int]

(* The emission repeats the last symbol pass exactly: every line is emitted  *)
(* at the address that pass gave it, and no symbol changes any more (the     *)
(* loop over passes in main stops at the first pass that changed nothing).   *)
EmissionMovesNothing ==
  [][EmitLine => pc = at[line] /\ syms' = syms]_vars

(* What a written image is: with the final symbols, lines follow each other, *)
(* labels and EQUs have the value of their definition (of each of them, if a *)
(* name is defined twice), and every byte is that of the last line placed    *)
(* there, FF elsewhere.  No line has an error; only in ORG, DS and RST may a *)
(* symbol be undefined, which assemble_line never reports.                   *)
Placed(i) == at[i] = IF i = 1 THEN 0 ELSE Advance(source[i - 1], syms, at[i - 1])

Defined(l, here) ==
  /\ l.label # "" => l.label \in DOMAIN syms /\ syms[l.label] = here
  /\ l.op = "EQU" => l.name \in DOMAIN syms /\ syms[l.name] = Operand(l, syms, here)

Correct(l) ==
  /\ l.op # "UNKNOWN" /\ ~l.bad_register
  /\ l.op \notin {"NONE", "ORG", "DS", "RST"} => Resolved(l, syms)

BytesOf(i) == Emitted(source[i], syms, at[i])
Covers(i, a) == a - at[i] + 1 \in DOMAIN BytesOf(i)

HoldsLastByte(img, a, n) ==   \* of the lines before n
  \/ img[a] = 255 /\ \A i \in 1 .. n - 1 : ~Covers(i, a)
  \/ \E i \in 1 .. n - 1 :
       /\ Covers(i, a) /\ img[a] = BytesOf(i)[a - at[i] + 1]
       /\ \A j \in i + 1 .. n - 1 : ~Covers(j, a)

WrittenIsConsistent ==
  \A img \in file :
    /\ \A i \in Lines : Placed(i) /\ Defined(source[i], at[i]) /\ Correct(source[i])
    /\ \A a \in Addresses : HoldsLastByte(img, a, Len(source) + 1)

(* A source with a solution is refused only for an error in a line or for    *)
(* its size.  Well-founded: no name is defined twice, none depends on itself *)
(* through EQUs or through the ORG and DS lines before a label, and no chain *)
(* of such dependencies is longer than MaxDepth: a name whose chain has k    *)
(* names settles in the k-th pass, and one more pass must change nothing.    *)
(* Any number of names is allowed, as long as the table holds them.          *)
MaxDepth == MaxPasses - 1

Definitions(n) ==
  {<<i, "label">> : i \in {j \in Lines : source[j].label = n}} \cup
  {<<i, "equ">> : i \in {j \in Lines : source[j].op = "EQU" /\ source[j].name = n}}

DefinedNames == {n \in Names : Definitions(n) # {}}

Uses(l) == UNION {{l.args[i][j].sym : j \in DOMAIN l.args[i]} : i \in DOMAIN l.args}

AddressUses(i) == UNION {Uses(source[j]) : j \in {k \in 1 .. i - 1 : source[k].op \in {"ORG", "DS"}}}

UsesOf(def) ==
  LET l == source[def[1]]
  IN  IF def[2] = "label" THEN AddressUses(def[1])
      ELSE Uses(l) \cup (IF HERE \in Uses(l) THEN AddressUses(def[1]) ELSE {})

WellFounded ==
  /\ \A n \in Names : Cardinality(Definitions(n)) <= 1
  /\ \E rank \in [DefinedNames -> 1 .. MaxDepth] :
       \A n \in DefinedNames : \A def \in Definitions(n) :
         \A u \in UsesOf(def) \cap DefinedNames : rank[u] < rank[n]

RefusedWithReason ==
  phase = "DONE" /\ exit = 1 /\ file = {} =>
    \/ ~WellFounded
    \/ Cardinality(DefinedNames) > MaxSyms
    \/ \E i \in Lines : Faulty(source[i], syms, at[i])
=============================================================================
