------------------------------- MODULE BpOps -------------------------------
(***************************************************************************)
(* The breakpoint table of the GDB stub (gdb-stub/gdb_stub.c) as pure      *)
(* operators on a memory m and a table t.  The state machines that use     *)
(* them are BpTable (the table under a debugger's commands) and GdbTrap    *)
(* (the table under a processor that fetches instructions from m).         *)
(*                                                                         *)
(* Memory is a function from the addresses of interest to bytes; a loop    *)
(* of the code over bp_table that writes memory is the function it leaves  *)
(* in memory.                                                              *)
(***************************************************************************)
EXTENDS Naturals, FiniteSets, FiniteSetsExt

CONSTANTS
  Addr,           \* the byte addresses of memory that the model looks at
  Byte,           \* the values a byte of memory takes
  BP_TABLE_SIZE   \* entries of bp_table; 32 in the code

CC == 204         \* 0xCC, the opcode of INT3

ASSUME AddrAssumption == Addr \subseteq Nat /\ 0 \in Addr
ASSUME ByteAssumption == Byte \subseteq 0..255 /\ 0 \in Byte /\ CC \in Byte
ASSUME SizeAssumption == BP_TABLE_SIZE \in Nat \ {0}

Slots == 0..(BP_TABLE_SIZE - 1)

BpEntry == [addr : Addr, saved : Byte, active : BOOLEAN]

\* bp_table is in .bss: every field of every entry starts as zero.
ZeroTable == [i \in Slots |-> [addr |-> 0, saved |-> 0, active |-> FALSE]]

ActiveSlots(t) == {i \in Slots : t[i].active}
FreeSlots(t) == Slots \ ActiveSlots(t)
SlotsAt(t, a) == {i \in ActiveSlots(t) : t[i].addr = a}

\* The addresses that hold a breakpoint, as the table has them.
BpAddrs(t) == {t[i].addr : i \in ActiveSlots(t)}

\* Mutant of bp_remove_all: the loop stops one entry early.
bp_remove_allShort(m, t) ==
  [a \in Addr |-> IF \E i \in SlotsAt(t, a) : i < BP_TABLE_SIZE - 1
                  THEN t[Max(SlotsAt(t, a))].saved ELSE m[a]]

(***************************************************************************)
(* The two loops the trampolines call.  bp_remove_all walks the table      *)
(* upwards, so where two entries name one address the last of them decides *)
(* what is left in memory.                                                 *)
(***************************************************************************)
bp_remove_all(m, t) ==
  [a \in Addr |-> IF a \in BpAddrs(t) THEN t[Max(SlotsAt(t, a))].saved
                                      ELSE m[a]]

\* Mutant of bp_insert_all: the loop stops one entry early.
bp_insert_allShort(m, t) ==
  [a \in Addr |-> IF \E i \in SlotsAt(t, a) : i < BP_TABLE_SIZE - 1
                  THEN CC ELSE m[a]]

bp_insert_all(m, t) ==
  [a \in Addr |-> IF a \in BpAddrs(t) THEN CC ELSE m[a]]

\* Mutants of Z0Table: the byte is saved as a signed char; the byte is saved
\* after it has been patched.
Z0TableSigned(m, t, a) ==
  [t EXCEPT ![Min(FreeSlots(t))] =
     [addr |-> a, saved |-> IF m[a] > 127 THEN m[a] - 256 ELSE m[a],
      active |-> TRUE]]
Z0TableLate(m, t, a) ==
  [t EXCEPT ![Min(FreeSlots(t))] =
     [addr |-> a, saved |-> CC, active |-> TRUE]]

(***************************************************************************)
(* Z0: the first inactive entry is filled with the byte now in memory.     *)
(* The entry is not looked for by address first: nothing stops a second    *)
(* entry for an address that has one.                                      *)
(***************************************************************************)
Z0Table(m, t, a) ==
  [t EXCEPT ![Min(FreeSlots(t))] =
     [addr |-> a, saved |-> m[a], active |-> TRUE]]
Z0Mem(m, a) == [m EXCEPT ![a] = CC]

(***************************************************************************)
(* z0: the first active entry of the address is given up; its saved byte   *)
(* goes back to memory.  addr and saved keep their values.                 *)
(***************************************************************************)
z0Table(t, a) == [t EXCEPT ![Min(SlotsAt(t, a))].active = FALSE]
z0Mem(m, t, a) == [m EXCEPT ![a] = t[Min(SlotsAt(t, a))].saved]
=============================================================================
