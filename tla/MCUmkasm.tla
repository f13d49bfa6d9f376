------------------------------- MODULE MCUmkasm -------------------------------
(***************************************************************************)
(* Umkasm for TLC: every source of up to three lines made of the lines     *)
(* below, and longer ones for the limits on passes and symbols.            *)
(***************************************************************************)
EXTENDS Umkasm

T(sym, num) == [sym |-> sym, num |-> num, not |-> FALSE, neg |-> FALSE]
Num(n)  == T(NUMBER, n)
Sym(n)  == T(n, 0)
Here    == T(HERE, 0)
Not(t)  == [t EXCEPT !.not = TRUE]
Neg(t)  == [t EXCEPT !.neg = TRUE]

Line(op, args) == [op |-> op, args |-> args, label |-> "", name |-> "",
                   base |-> 0, width |-> 1, bad_register |-> FALSE]
Label(n, l)    == [l EXCEPT !.label = n]
Equ(n, e)      == [Line("EQU", <<e>>) EXCEPT !.name = n]
Jmp(e)         == [Line("CODE", <<e>>) EXCEPT !.base = \hC3, !.width = 2]
Rst(e)         == [Line("RST", <<e>>) EXCEPT !.base = \hC7]
BadInr         == [Line("CODE", << >>) EXCEPT !.base = 4, !.width = 0, !.bad_register = TRUE]

SomeLines ==
  {Label("A", Line("NONE", << >>)),
   Label("A", Jmp(<<Sym("B")>>)),
   Label("B", Line("DATA", <<<<Sym("A")>>, <<Not(Sym("B"))>>>>)),
   Label("B", Equ("A", <<Here>>)),
   Equ("A", <<Sym("B"), Num(1)>>),
   Equ("B", <<Sym("A"), Neg(Num(1))>>),
   Equ("B", <<Here, Num(2)>>),
   Equ("B", <<Num(5)>>),
   Line("ORG", <<<<Sym("B")>>>>),
   Line("ORG", <<<<Num(6)>>>>),
   Line("DS", <<<<Sym("A")>>>>),
   [Line("DATA", <<<<Sym("A")>>>>) EXCEPT !.width = 2],
   Rst(<<Sym("B")>>),
   Jmp(<<Sym("C")>>),
   Line("UNKNOWN", << >>),
   BadInr}

(* Chains of n forward EQUs, one name deeper with each line, and n labels, *)
(* which depend on nothing, before one byte each.                          *)
Letters == <<"A", "B", "C", "D", "E">>
Chain(n) == [i \in 1 .. n |-> Equ(Letters[i], <<IF i = n THEN Num(1) ELSE Sym(Letters[i + 1])>>)]
LabelRow(n) ==
  [i \in 1 .. n |-> Label(Letters[i], Line("DATA", <<<<Sym(Letters[n + 1 - i])>>>>))]

SomeSources == UNION {[1 .. n -> SomeLines] : n \in 0 .. 3}
               \cup {Chain(3), Chain(4), LabelRow(4), LabelRow(5)}

SomeNames == {"A", "B", "C", "D", "E"}
Blank == [a \in 0 .. 7 |-> 255]
SomeReferences == {Blank, [Blank EXCEPT ![0] = 255 - 5]}
=============================================================================
