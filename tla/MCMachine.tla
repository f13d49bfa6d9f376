------------------------------ MODULE MCMachine ------------------------------
(***************************************************************************)
(* UmkMachine for TLC: 64 bytes of ROM, 8 of RAM seen twice (as on         *)
(* revision 1), and programs that between them run every modelled opcode.  *)
(***************************************************************************)
EXTENDS UmkMachine

(* A ROM image: code at 0, the service routine of RST 7 at 38h, NOPs between. *)
Image(code, service) == code \o [i \in 1 .. 56 - Len(code) |-> 0] \o service

Return == <<\hFB, \hC9>>                                  \* EI; RET

(* Idle loop woken by ПР: LXI SP,80; EI; HLT; STA 66; JMP 3. *)
IdleLoop == Image(<<\h31, 80, 0, \hFB, \h76, \h32, 66, 0, \hC3, 3, 0>>,
                  <<\hF5, \hE1, \hFB, \hC9>>)   \* PUSH PSW; POP H; EI; RET

(* Keyboard scan: MVI A,89h; OUT 0FBh; OUT 0F8h; IN 0FAh; OUT 0F9h; HLT. *)
ScanKeys == Image(<<\h3E, \h89, \hD3, \hFB, \hD3, \hF8, \hDB, \hFA, \hD3, \hF9, \h76>>,
                  Return)

(* Other ports: EI; EI; MVI A,7; OUT 0FCh; OUT 0FBh; OUT 0FAh; OUT 0;        *)
(* IN 0FCh; DI; HLT.                                                         *)
OtherPorts == Image(<<\hFB, \hFB, \h3E, 7, \hD3, \hFC, \hD3, \hFB, \hD3, \hFA, \hD3, 0,
                      \hDB, \hFC, \hF3, \h76>>, Return)

(* Memory: LXI H,65; INR M; SHLD 66; MOV M,A; LHLD 65; XTHL; HLT. *)
MemoryOps == Image(<<\h21, 65, 0, \h34, \h22, 66, 0, \h77, \h2A, 65, 0, \hE3, \h76>>, Return)

(* Calls: LXI SP,72; EI; JNZ 8; HLT; 8: CALL 12; HLT; 12: RET. *)
Calls == Image(<<\h31, 72, 0, \hFB, \hC2, 8, 0, \h76, \hCD, 12, 0, \h76, \hC9>>, Return)

(* Conditions: LXI SP,72; MVI A,1; DCR A; CZ 11; NOP; HLT; 11: LDA 71; RZ. *)
Conditions == Image(<<\h31, 72, 0, \h3E, 1, \h3D, \hCC, 11, 0, 0, \h76, \h3A, 71, 0, \hC8>>,
                    Return)

AllPrograms == {IdleLoop, ScanKeys, OtherPorts, MemoryOps, Calls, Conditions}
OneKey      == {<<0, 1>>}
=============================================================================
