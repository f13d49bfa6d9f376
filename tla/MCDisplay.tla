------------------------------ MODULE MCDisplay ------------------------------
(* Display for TLC: two digits of two segments and a fast decay. *)
EXTENDS Display

TwoSelections == {{0}, {0, 1}}
TwoMasks      == {{}, {1}}
=============================================================================
