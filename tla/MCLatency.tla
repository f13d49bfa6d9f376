------------------------------ MODULE MCLatency ------------------------------
(* InterruptLatency for TLC, with every opcode as a possible vector. *)
EXTENDS InterruptLatency

AllVectors == Opcode
=============================================================================
