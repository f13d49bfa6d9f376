-------------------------------- MODULE MCAlu --------------------------------
(***************************************************************************)
(* Alu for TLC: every value of A and of the flags is reached; operands are *)
(* the edges of nibbles, of the byte and of BCD digits.                    *)
(***************************************************************************)
EXTENDS Alu

EdgeOperands == {\h00, \h01, \h08, \h09, \h0F, \h10, \h19, \h7F, \h80, \h90, \h99, \hFF}
SomeWords == {\h0000, \h12FF, \h9928, \hFF13}
=============================================================================
