------------------------------ MODULE MCMonitor ------------------------------
(***************************************************************************)
(* Monitor for TLC: bytes of four values, and a program of four cells on   *)
(* two pages, so that a request may come before, at and after a breakpoint *)
(* of its page and of the next.                                            *)
(***************************************************************************)
EXTENDS Monitor

(* Bound: nothing is explored after an event that spoils both properties, and *)
(* no more than two of the events that leave the program recoverable.         *)
FewEvents ==
  Cardinality(lost) <= 1 /\ lost \cap {"boot", "overwritten", "twice", "half"} = {}
=============================================================================
