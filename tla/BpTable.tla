------------------------------ MODULE BpTable ------------------------------
(***************************************************************************)
(* The breakpoint table and the memory it patches, under the commands of a *)
(* debugger (gdb-stub/gdb_stub.c, gdb-stub/tramp.asm).                     *)
(*                                                                         *)
(* The processor is either in the program ("run") or between the           *)
(* trampoline's calls of bp_remove_all and bp_insert_all ("handler"),      *)
(* where gdb_handler serves one command after another.  A command is one   *)
(* step: the handler runs with interrupts off and nothing else writes the  *)
(* table or the patched bytes meanwhile.                                   *)
(*                                                                         *)
(* The client keeps the rules gdb keeps by construction (it inserts a      *)
(* breakpoint once, and takes its breakpoints out before it looks at       *)
(* memory): the three guards before GdbClient.                             *)
(***************************************************************************)
EXTENDS BpOps

CONSTANT MAX_XFER   \* the cap on the length of m and M; 512 in the code

ASSUME XferAssumption == MAX_XFER \in Nat

VARIABLES
  mem,    \* what the bytes of memory hold
  tbl,    \* bp_table
  mode,   \* "run" or "handler"
  out,    \* the last answer: to the processor's fetch or to the debugger,
          \* with the command it answers
  \* history variables, read by no action of the code:
  text,   \* the program's own bytes: memory as the debugger's writes make it
  armed   \* the addresses patched by a Z0 of the present handler session

vars == <<mem, tbl, mode, out, text, armed>>

Answer(k) == [kind |-> k, data |-> <<>>]
BytesOf(m, D) == [kind |-> "bytes", data |-> [a \in D |-> m[a]]]

\* The addresses a transfer of length l at a covers, capped as the code does.
Span(a, l) ==
  LET n == IF l > MAX_XFER THEN MAX_XFER ELSE l
  IN  {x \in Addr : a <= x /\ x < a + n}

Init ==
  /\ mem \in [Addr -> Byte]
  /\ tbl = ZeroTable
  /\ mode = "run"
  /\ out = Answer("none")
  /\ text = mem
  /\ armed = {}

----------------------------------------------------------------------------
\* The program and the trampolines

Fetch(a) ==
  /\ mode = "run"
  /\ out' = [kind |-> "fetch", data |-> [x \in {a} |-> mem[x]]]
  /\ UNCHANGED <<mem, tbl, mode, text, armed>>

\* int1_tramp / int3_tramp up to the call of gdb_handler
EnterHandler ==
  /\ mode = "run"
  /\ mode' = "handler"
  /\ mem' = bp_remove_all(mem, tbl)
  /\ out' = Answer("none")
  /\ armed' = {}
  /\ UNCHANGED <<tbl, text>>

\* c, s, vCont;c, vCont;s or D ends the command loop; the trampoline's tail
LeaveHandler ==
  /\ mode = "handler"
  /\ mode' = "run"
  /\ mem' = bp_insert_all(mem, tbl)
  /\ out' = Answer("none")
  /\ armed' = {}
  /\ UNCHANGED <<tbl, text>>

----------------------------------------------------------------------------
\* The commands of gdb_handler that touch the table or memory

InsertBreakpoint(a) ==
  /\ mode = "handler"
  /\ FreeSlots(tbl) # {}
  /\ tbl' = Z0Table(mem, tbl, a)
  /\ mem' = Z0Mem(mem, a)
  /\ out' = Answer("Z0 OK")
  /\ armed' = armed \cup {a}
  /\ UNCHANGED <<mode, text>>

\* Mutant of InsertRefused: the search misses the last entry of the table.
InsertRefusedEarly(a) ==
  /\ mode = "handler"
  /\ FreeSlots(tbl) \subseteq {BP_TABLE_SIZE - 1}
  /\ out' = Answer("Z0 E02")
  /\ UNCHANGED <<mem, tbl, mode, text, armed>>

InsertRefused(a) ==
  /\ mode = "handler"
  /\ FreeSlots(tbl) = {}
  /\ out' = Answer("Z0 E02")
  /\ UNCHANGED <<mem, tbl, mode, text, armed>>

RemoveBreakpoint(a) ==
  /\ mode = "handler"
  /\ SlotsAt(tbl, a) # {}
  /\ tbl' = z0Table(tbl, a)
  /\ mem' = z0Mem(mem, tbl, a)
  /\ out' = Answer("z0 OK")
  /\ armed' = armed \ {a}
  /\ UNCHANGED <<mode, text>>

RemoveRefused(a) ==
  /\ mode = "handler"
  /\ SlotsAt(tbl, a) = {}
  /\ out' = Answer("z0 E02")
  /\ UNCHANGED <<mem, tbl, mode, text, armed>>

ReadMemory(a, l) ==
  /\ mode = "handler"
  /\ out' = BytesOf(mem, Span(a, l))
  /\ UNCHANGED <<mem, tbl, mode, text, armed>>

\* d gives the bytes of the packet to the addresses they are written to.
WriteMemory(d) ==
  /\ mode = "handler"
  /\ mem' = [a \in Addr |-> IF a \in DOMAIN d THEN d[a] ELSE mem[a]]
  /\ text' = [a \in Addr |-> IF a \in DOMAIN d THEN d[a] ELSE text[a]]
  /\ out' = Answer("M OK")
  /\ UNCHANGED <<tbl, mode, armed>>

----------------------------------------------------------------------------
Program == EnterHandler \/ LeaveHandler \/ \E a \in Addr : Fetch(a)

\* The client of gdb's discipline

Lengths == 0..(MAX_XFER + 1)

NotYetSet(a) == a \notin BpAddrs(tbl)
ReadsUnarmed(D) == D \cap armed = {}
WritesClear(D) == D \cap BpAddrs(tbl) = {}

GdbClient ==
  \E a \in Addr :
    \/ NotYetSet(a) /\ (InsertBreakpoint(a) \/ InsertRefused(a))
    \/ RemoveBreakpoint(a) \/ RemoveRefused(a)
    \/ \E l \in Lengths :
         \/ ReadsUnarmed(Span(a, l)) /\ ReadMemory(a, l)
         \/ /\ WritesClear(Span(a, l))
            /\ \E d \in [Span(a, l) -> Byte] : WriteMemory(d)

Next == Program \/ GdbClient

Spec == Init /\ [][Next]_vars

----------------------------------------------------------------------------
(***************************************************************************)
(* Properties                                                              *)
(***************************************************************************)

Kinds == {"none", "Z0 OK", "Z0 E02", "z0 OK", "z0 E02", "M OK", "bytes", "fetch"}

\* Every variable keeps its type: bytes stay bytes, the table keeps its
\* entries, and an answer carries bytes of addresses it was asked for.
TypeOK ==
  /\ mem \in [Addr -> Byte]
  /\ tbl \in [Slots -> BpEntry]
  /\ mode \in {"run", "handler"}
  /\ out.kind \in Kinds
  /\ text \in [Addr -> Byte]
  /\ armed \in SUBSET Addr

\* One entry per address: the loops of bp_remove_all and z0 cannot meet a
\* second entry that holds another saved byte.
OneEntryPerAddress ==
  \A i, j \in ActiveSlots(tbl) : tbl[i].addr = tbl[j].addr => i = j

\* The table remembers the program's own byte of every breakpoint, over any
\* number of stops, so that z0 and bp_remove_all put back the right one.
SavedIsText == \A i \in ActiveSlots(tbl) : tbl[i].saved = text[tbl[i].addr]

\* While the program runs, memory holds INT3 at the breakpoints and the
\* program's own byte everywhere else: no breakpoint is lost over a stop and
\* none is left behind after z0.
RunsWithBreakpoints ==
  mode = "run" =>
    \A a \in Addr : mem[a] = IF a \in BpAddrs(tbl) THEN CC ELSE text[a]

\* In the handler, memory holds the program's own bytes, those of the handler
\* itself included, but for the breakpoints this session has just inserted.
HandlerRunsClean ==
  mode = "handler" =>
    /\ armed \subseteq BpAddrs(tbl)
    /\ \A a \in Addr : mem[a] = IF a \in armed THEN CC ELSE text[a]

\* The inductive invariant of Spec.
IInv ==
  /\ TypeOK
  /\ OneEntryPerAddress
  /\ SavedIsText
  /\ RunsWithBreakpoints
  /\ HandlerRunsClean

\* tramp.asm:12-15: with bp_remove_all called first, "the handler entry is
\* guaranteed to be free of 0xCC" the stub has put there.  A session starts
\* (nothing armed, no command served) on the program's own bytes.
HandlerEntryFree ==
  [][mode = "run" /\ mode' = "handler" => mem' = text']_vars

\* The table is a set of breakpoints with the promises of Breakpoints.
Abstract == INSTANCE Breakpoints WITH
  INT3 <- CC, Capacity <- BP_TABLE_SIZE,
  bps <- BpAddrs(tbl), running <- mode = "run"
Implements == Abstract!Spec
=============================================================================
