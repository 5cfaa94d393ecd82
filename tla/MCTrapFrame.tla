---------------------------- MODULE MCTrapFrame ----------------------------
(* Registers of two bytes of two digits below four: 256 values, so that    *)
(* each register begins with a value of its own and the halves of a        *)
(* trampoline's address differ.                                            *)
EXTENDS TrapFrame

MCFirst == [reg \in Regs |->
  CASE reg = "cs" -> CodeSel [] reg \in DataSegs -> CHOOSE d \in DataSels : TRUE
    [] reg = "eflags" -> INTF + 3
    [] OTHER -> 101 + 11 * (CHOOSE i \in Fields : StructRegs[i] = reg)]
=============================================================================
