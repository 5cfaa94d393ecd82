---------------------------- MODULE Breakpoints ----------------------------
(***************************************************************************)
(* What software breakpoints promise, with no table and no patched bytes.  *)
(*                                                                         *)
(* There is one memory, the program's text, and a set of addresses with a  *)
(* breakpoint.  While the program runs, the processor fetches INT3 at a    *)
(* breakpoint and the program's own byte everywhere else; while it is      *)
(* stopped, the debugger reads and writes the program's own bytes and      *)
(* never sees an INT3 the stub put there.  A breakpoint is refused only    *)
(* when Capacity breakpoints are set.                                      *)
(***************************************************************************)
EXTENDS Naturals, FiniteSets

CONSTANTS
  Addr, Byte,
  INT3,       \* the opcode a processor fetches at a breakpoint
  Capacity    \* the number of breakpoints that can be set

VARIABLES
  text,     \* the program's own bytes
  bps,      \* the addresses with a breakpoint
  running,  \* TRUE while the program has the processor
  out       \* the last answer: to the processor's fetch or to the debugger

vars == <<text, bps, running, out>>

Bytes(D) == [kind |-> "bytes", data |-> [a \in D |-> text[a]]]
Answer(k) == [kind |-> k, data |-> <<>>]

Init ==
  /\ text \in [Addr -> Byte]
  /\ bps = {}
  /\ running = TRUE
  /\ out = Answer("none")

Fetch(a) ==
  /\ running
  /\ out' = [kind |-> "fetch",
             data |-> [x \in {a} |-> IF a \in bps THEN INT3 ELSE text[a]]]
  /\ UNCHANGED <<text, bps, running>>

Stop ==
  /\ running
  /\ running' = FALSE
  /\ out' = Answer("none")
  /\ UNCHANGED <<text, bps>>

Resume ==
  /\ ~running
  /\ running' = TRUE
  /\ out' = Answer("none")
  /\ UNCHANGED <<text, bps>>

Set(a) ==
  /\ ~running
  /\ a \notin bps
  /\ \/ /\ bps' = bps \cup {a}
        /\ out' = Answer("Z0 OK")
     \/ /\ Cardinality(bps) >= Capacity
        /\ out' = Answer("Z0 E02")
        /\ bps' = bps
  /\ UNCHANGED <<text, running>>

Clear(a) ==
  /\ ~running
  /\ bps' = bps \ {a}
  /\ out' = Answer(IF a \in bps THEN "z0 OK" ELSE "z0 E02")
  /\ UNCHANGED <<text, running>>

Read(D) ==
  /\ ~running
  /\ out' = Bytes(D)
  /\ UNCHANGED <<text, bps, running>>

Write(d) ==
  /\ ~running
  /\ text' = [a \in Addr |-> IF a \in DOMAIN d THEN d[a] ELSE text[a]]
  /\ out' = Answer("M OK")
  /\ UNCHANGED <<bps, running>>

Next ==
  \/ Stop
  \/ Resume
  \/ \E a \in Addr : Fetch(a) \/ Set(a) \/ Clear(a)
  \/ \E D \in SUBSET Addr : Read(D) \/ \E d \in [D -> Byte] : Write(d)

Spec == Init /\ [][Next]_vars
=============================================================================
