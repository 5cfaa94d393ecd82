----------------------------- MODULE MCGdbTrap -----------------------------
(***************************************************************************)
(* Instances of GdbTrap: every cut of the code as memory, a table of two   *)
(* entries, and the sites each configuration names.                        *)
(***************************************************************************)
EXTENDS GdbTrap

MCAddr == Code
MCByte == {0, Opcode, CC}

ProgramSites == {Work, Poll, Entry}
=============================================================================
