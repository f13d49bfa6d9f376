------------------------------- MODULE MCUmkcli -------------------------------
(***************************************************************************)
(* Umkcli for TLC.  The commands are divided among sessions, so that the   *)
(* states of the kinds of commands that do not interact add up instead of  *)
(* multiplying; the machine is that of MCMachine, with 16 bytes of RAM or, *)
(* on revision 1, 8 bytes seen twice.                                      *)
(***************************************************************************)
EXTENDS Umkcli, MCMachine

Session(image, arguments, commands) ==
  [image |-> image, args |-> arguments, commands |-> commands]

(* Stepping: every program, on revision 1. *)
Stepping == {Session(p, <<"--rev1", "--rom">>, {"step", "cycle", "shg", "sw", "reset", "int", "poke"}) :
               p \in AllPrograms}

(* Runs and breakpoints, in the idle loop and across a call. *)
Running == {Session(p, <<"--rom">>, {"run", "go", "bp", "int", "quit"}) : p \in {IdleLoop, Calls}}

(* A state saved and loaded between machine cycles, with and without edits. *)
Saving == {Session(MemoryOps, <<"--rom">>, {"cycle", "step", "state", "int"}),
           Session(IdleLoop, <<"--rom">>, {"cycle", "state", "load", "int"})}

(* Registers set between machine cycles. *)
Setting == {Session(IdleLoop, <<"--rom">>, {"cycle", "reg"})}

(* Intel HEX files and memory that changes in between. *)
Loading == {Session(MemoryOps, a, {"poke", "rom", "savehex", "loadhex"}) :
              a \in {<<"--rom">>, <<"--rev1", "--rom">>}}

(* Keys, with and without РБ/ШГ. *)
Typing == {Session(ScanKeys, <<"--rom">>, {"key", "sw", "shg", "int"})}

(* The options in both orders, twice, and with a file that is missing. *)
Starting == {Session(IdleLoop, a, {"step"}) :
               a \in {<< >>, <<"--rom", "--rev1">>, <<"--rom missing">>, <<"--rev1", "--rom missing">>,
                      <<"--rom", "--rev1", "--rom">>, <<"--rom", "--rev1", "--rom missing">>}}

AllSessions == Stepping \cup Running \cup Saving \cup Setting \cup Loading \cup Typing \cup Starting

SomePokes == {<<66, <<255>>>>, <<5, <<1>>>>}

HexRecord(addr, data) == [addr |-> addr, data |-> data, type |-> 0, sum_ok |-> TRUE]
Bad(r)     == [r EXCEPT !.sum_ok = FALSE]
Ignored(r) == [r EXCEPT !.type = 2]

(* Records that overlap, directly or in the mirror, run past RAM, a bad one   *)
(* in the middle, one of another type.                                       *)
SomeFiles ==
  {<<HexRecord(65, <<1, 2, 3>>), HexRecord(66, <<4>>), Ignored(HexRecord(64, <<8>>))>>,
   <<HexRecord(71, <<6>>), HexRecord(79, <<9, 7>>)>>,
   <<HexRecord(65, <<1, 2>>), Bad(HexRecord(66, <<4, 5>>)), HexRecord(64, <<8>>)>>}

(* All of RAM, a range that is no multiple of a record, one from ROM into     *)
(* RAM, and one past the last address.                                       *)
SomeRanges == {<<64, 16>>, <<66, 5>>, <<60, 7>>, <<65532, 8>>}
=============================================================================
