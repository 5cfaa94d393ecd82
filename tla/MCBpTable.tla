----------------------------- MODULE MCBpTable -----------------------------
(***************************************************************************)
(* A small instance of BpTable: three addresses, a table of two entries    *)
(* (so that it fills up and is refilled out of order), transfers of up to  *)
(* two bytes, and the opcode bytes 0 (a plain one) and 0xCC.               *)
(***************************************************************************)
EXTENDS BpTable

MCAddr == 0..2
MCByte == {0, 144, CC}

\* The program's text at the start: no INT3 of its own.  The debugger's
\* writes can put one there.
MCInit == Init /\ \A a \in Addr : mem[a] = 144
MCSpec == MCInit /\ [][Next]_vars
=============================================================================
