--------------------------- MODULE GdbTrapProofs ---------------------------
(***************************************************************************)
(* Theorems about GdbTrap, for every size of the breakpoint table, every   *)
(* set of bytes and every depth of nesting: what a client that behaves as  *)
(* gdb does can rely on while it debugs the kernel that serves it.         *)
(***************************************************************************)
EXTENDS GdbTrap, WellFoundedInduction, SequenceTheorems, TLAPS

\* Memory as it is linked
Text == [a \in Addr |-> IF a = PollInt3 THEN CC ELSE Opcode]

(***************************************************************************)
(* The client this is about: gdb moves the PC back after a breakpoint and  *)
(* does not detach in the middle of a step; its breakpoints are in the     *)
(* code that bp_remove_all protects.  (A breakpoint in a trampoline or in  *)
(* the command loop traps again, and one on the instruction behind the     *)
(* INT3 of gdb_poll stops with gdb_from_poll set.)                         *)
(***************************************************************************)
GdbClient ==
  /\ BpSites \subseteq {Work, Poll, Entry}
  /\ FixesPc = TRUE
  /\ DetachesAfterStep = FALSE

(***************************************************************************)
(* The inductive invariant                                                 *)
(***************************************************************************)

\* Every entry is a breakpoint of the client's, its address has no other, and
\* its saved byte is the one the kernel was linked with.
TableOK ==
  /\ tbl \in [Slots -> BpEntry]
  /\ BpAddrs(tbl) \subseteq BpSites
  /\ \A i, j \in ActiveSlots(tbl) : tbl[i].addr = tbl[j].addr => i = j
  /\ \A i \in ActiveSlots(tbl) : tbl[i].saved = Text[tbl[i].addr]

\* A byte is the linked one or a breakpoint's; the program runs with every
\* breakpoint in place, and gdb_handler is entered with none.
MemOK ==
  /\ mem \in [Addr -> Byte]
  /\ \A a \in Addr : mem[a] = Text[a] \/ (mem[a] = CC /\ a \in BpAddrs(tbl))
  /\ pc \in Program \cup {Tramp} => \A a \in BpAddrs(tbl) : mem[a] = CC
  /\ pc = Entry => mem = Text

\* The program, or one trap and the handler on its frame.  The frame is one
\* past a breakpoint that is set, or where the program can go on.
Eip == Head(stack).eip
InHandler == {Tramp, Entry, Serve, TrampOut, Halt}
CpuOK ==
  /\ pc \in Program \cup InHandler
  /\ tf \in BOOLEAN
  /\ pc \in Program => stack = <<>>
  /\ pc \in InHandler => tf = FALSE /\ \E f \in Frame : stack = <<f>>
  /\ gdb_handler_depth = IF pc \in {Entry, Serve, TrampOut, Halt} THEN 1 ELSE 0
  /\ ProgramAt \in Program
  /\ pc \in InHandler => Eip \in Program \/ (Eip \in Inside /\ Eip - 1 \in BpAddrs(tbl))
  /\ pc \in {TrampOut, Halt} => Eip \in Program
  /\ pc \in InHandler => Eip # PollInt3
  /\ gdb_from_poll \in BOOLEAN /\ gdb_negotiated \in BOOLEAN
  /\ gdb_from_poll = TRUE <=> ProgramAt \in {PollInt3, PollClear}

\* Nothing is set that could stop the program.
Undisturbed ==
  /\ BpAddrs(tbl) = {}
  /\ tf = FALSE
  /\ pc \in InHandler => Head(stack).tf = FALSE

Running == pc \notin {Serve, Halt}
Resuming == pc \in Program \cup {TrampOut}
Stopped == pc \in {Tramp, Entry}

\* The stub has a packet to read, with or without an ACK before it.
Waits(op, a) == rx \in {<<[op |-> op, a |-> a]>>, <<Ack, [op |-> op, a |-> a]>>}
Says(op, a) == rx = <<Ack, [op |-> op, a |-> a]>>

\* A request that waits in the command loop was right when it was sent, and
\* still is.
RequestOK ==
  \/ Waits("q", 0) /\ gdb_negotiated = FALSE /\ Eip \in Program
  \/ Says("?", 0) /\ Eip \in Program
  \/ Eip \in Program /\ \E a \in BpSites : Says("Z0", a) /\ a \notin BpAddrs(tbl)
  \/ Eip \in Program /\ \E a \in BpSites : Says("z0", a)
  \/ Says("P", Eip - 1) /\ Eip - 1 \in BpAddrs(tbl)

\* What is on the line, for each state of the client
IdleOK == Running /\ ~Stopped /\ Undisturbed /\ tx = <<>> /\ rx \in {<<>>, <<Ack>>}
AskedOK ==
  /\ pc # Halt
  /\ pc # Serve => Undisturbed /\ tx = <<>> /\ Waits("q", 0)
  /\ Stopped => gdb_from_poll = TRUE
  /\ pc \in {PollInt3, Tramp, Entry} => rx = <<[op |-> "q", a |-> 0]>>
  /\ pc = Serve => \/ tx = <<>> /\ RequestOK
                   \/ tx = <<"reply">> /\ rx = <<>> /\ Eip \in Program
StoppedOK == pc = Serve /\ tx = <<>> /\ rx = <<Ack>>
RunningOK ==
  /\ pc # Halt
  /\ resumed \in {"c", "s"}
  /\ pc # Serve => tx = <<>> /\ rx = <<>>
  /\ Stopped => gdb_from_poll = FALSE
  /\ pc = Serve => \/ tx = <<"T05">> /\ rx = <<>>
                   \/ tx = <<>> /\ Says(resumed, 0) /\ Eip \in Program /\ stepped = 0
  /\ resumed = "s" =>
       /\ stepped <= 1
       /\ Resuming => stepped = 0
       /\ pc \in Program => tf = TRUE
       /\ pc = TrampOut => Head(stack).tf = TRUE
DetachingOK ==
  /\ ~Stopped /\ pc # Halt
  /\ Undisturbed
  /\ pc = Serve => tx = <<>> /\ Says("D", 0) /\ Eip \in Program
  /\ pc # Serve => tx = <<"reply">> /\ rx = <<>>
KilledOK ==
  /\ tx = <<>>
  /\ \/ pc = Serve /\ Says("k", 0) /\ Eip \in Program
     \/ pc = Halt /\ rx = <<>>

LineOK ==
  /\ client \in {"idle", "asked", "stopped", "running", "detaching", "killed"}
  /\ client = "idle" => IdleOK
  /\ client = "asked" => AskedOK
  /\ client = "stopped" => StoppedOK
  /\ client = "running" => RunningOK
  /\ client = "detaching" => DetachingOK
  /\ client = "killed" => KilledOK
  /\ pc = PollInt3 => client = "asked"
  /\ stepped \in 0..2 /\ resumed \in {"c", "s", "D", "k"}

IInv == TableOK /\ MemOK /\ CpuOK /\ LineOK

(***************************************************************************)
(* Lemmas about the table                                                  *)
(***************************************************************************)

\* The smallest of some slots is one of them.
LEMMA FirstSlot ==
  ASSUME NEW S \in SUBSET Slots, S # {}
  PROVE  Min(S) \in S
<1>1. S \subseteq Nat
  BY SizeAssumption DEF Slots
<1>2. PICK x \in S : \A y \in S : <<y, x>> \notin OpToRel(<, Nat)
  BY <1>1, NatLessThanWellFounded, WFMin, Zenon
<1>3. \A y \in S : x <= y
  <2> TAKE y \in S
  <2>1. <<y, x>> \in Nat \X Nat /\ <<y, x>> \notin OpToRel(<, Nat)
    BY <1>1, <1>2
  <2> QED
    BY <2>1 DEF OpToRel
<1> QED
  BY <1>3 DEF Min

\* The slots of a breakpoint: one, that both loops find.
LEMMA OnlySlot ==
  ASSUME TableOK, NEW a \in BpAddrs(tbl)
  PROVE  \E i \in ActiveSlots(tbl) :
           /\ i \in Slots
           /\ tbl[i].addr = a /\ tbl[i].saved = Text[a]
           /\ Min(SlotsAt(tbl, a)) = i /\ Max(SlotsAt(tbl, a)) = i
<1>1. PICK i \in ActiveSlots(tbl) : tbl[i].addr = a
  BY DEF BpAddrs
<1>2. SlotsAt(tbl, a) = {i}
  BY <1>1 DEF TableOK, SlotsAt
<1>3. i \in Slots /\ i \in Nat
  BY SizeAssumption DEF ActiveSlots, Slots
<1>4. Min(SlotsAt(tbl, a)) = i /\ Max(SlotsAt(tbl, a)) = i
  BY <1>2, <1>3 DEF Min, Max
<1> QED
  BY <1>1, <1>3, <1>4 DEF TableOK

\* bp_remove_all leaves what was linked.
LEMMA RemoveAll ==
  ASSUME TableOK, MemOK
  PROVE  bp_remove_all(mem, tbl) = Text
<1>1. ASSUME NEW a \in Addr
      PROVE  (IF a \in BpAddrs(tbl) THEN tbl[Max(SlotsAt(tbl, a))].saved ELSE mem[a])
               = Text[a]
  <2>1. CASE a \in BpAddrs(tbl)
    BY <2>1, OnlySlot
  <2>2. CASE a \notin BpAddrs(tbl)
    BY <2>2 DEF MemOK
  <2> QED
    BY <2>1, <2>2
<1>2. Text = [a \in Addr |-> Text[a]]
  BY DEF Text
<1> QED
  BY <1>1, <1>2 DEF bp_remove_all

\* Z0 of an address that has no breakpoint
LEMMA TableAfterZ0 ==
  ASSUME TableOK, MemOK, NEW a \in BpSites, a \in Addr, a \notin BpAddrs(tbl),
         FreeSlots(tbl) # {}, tbl' = Z0Table(mem, tbl, a)
  PROVE  TableOK' /\ BpAddrs(tbl') = BpAddrs(tbl) \cup {a}
<1> DEFINE s == Min(FreeSlots(tbl))
           e == [addr |-> a, saved |-> mem[a], active |-> TRUE]
<1>1. s \in Slots /\ s \notin ActiveSlots(tbl)
  BY FirstSlot DEF FreeSlots
<1>2. tbl' = [tbl EXCEPT ![s] = e]
  BY DEF Z0Table
<1> HIDE DEF s
<1>3. e \in BpEntry /\ e.saved = Text[a]
  BY DEF BpEntry, MemOK
<1>4. tbl' \in [Slots -> BpEntry]
  BY <1>2, <1>3 DEF TableOK
<1>5. tbl'[s] = e /\ \A j \in Slots : j # s => tbl'[j] = tbl[j]
  BY <1>1, <1>2 DEF TableOK
<1>6. ActiveSlots(tbl') = ActiveSlots(tbl) \cup {s}
  BY <1>1, <1>5 DEF ActiveSlots
<1>7. \A j \in ActiveSlots(tbl) : j # s /\ tbl'[j] = tbl[j] /\ tbl[j].addr # a
  BY <1>1, <1>5 DEF ActiveSlots, BpAddrs
<1>8. BpAddrs(tbl') = BpAddrs(tbl) \cup {a}
  BY <1>5, <1>6, <1>7 DEF BpAddrs
<1>9. \A i, j \in ActiveSlots(tbl') : tbl'[i].addr = tbl'[j].addr => i = j
  BY <1>5, <1>6, <1>7 DEF TableOK
<1>10. \A i \in ActiveSlots(tbl') : tbl'[i].saved = Text[tbl'[i].addr]
  BY <1>3, <1>5, <1>6, <1>7 DEF TableOK
<1> QED
  BY <1>4, <1>8, <1>9, <1>10 DEF TableOK

\* z0 of a breakpoint
LEMMA TableAfterz0 ==
  ASSUME TableOK, NEW a, SlotsAt(tbl, a) # {}, tbl' = z0Table(tbl, a)
  PROVE  /\ TableOK'
         /\ a \in BpAddrs(tbl) /\ BpAddrs(tbl') = BpAddrs(tbl) \ {a}
         /\ z0Mem(mem, tbl, a) = [mem EXCEPT ![a] = Text[a]]
<1>1. a \in BpAddrs(tbl)
  BY DEF SlotsAt, BpAddrs
<1>2. PICK i \in ActiveSlots(tbl) :
        /\ i \in Slots
        /\ tbl[i].addr = a /\ tbl[i].saved = Text[a]
        /\ Min(SlotsAt(tbl, a)) = i
  BY <1>1, OnlySlot
<1>3. tbl' = [tbl EXCEPT ![i].active = FALSE]
  BY <1>2 DEF z0Table
<1>4. tbl' \in [Slots -> BpEntry]
  BY <1>2, <1>3 DEF TableOK, BpEntry
<1>5. tbl'[i].active = FALSE /\ \A j \in Slots : j # i => tbl'[j] = tbl[j]
  BY <1>2, <1>3 DEF TableOK, BpEntry
<1>6. ActiveSlots(tbl') = ActiveSlots(tbl) \ {i}
  BY <1>2, <1>5 DEF ActiveSlots
<1>7. \A j \in ActiveSlots(tbl') : tbl'[j] = tbl[j] /\ j \in ActiveSlots(tbl)
  BY <1>5, <1>6 DEF ActiveSlots
<1>8. \A j \in ActiveSlots(tbl) : j # i => tbl[j].addr # a
  BY <1>2 DEF TableOK
<1>9. BpAddrs(tbl') = BpAddrs(tbl) \ {a}
  BY <1>2, <1>6, <1>7, <1>8 DEF BpAddrs
<1>10. TableOK'
  BY <1>4, <1>7, <1>9 DEF TableOK
<1> QED
  BY <1>1, <1>2, <1>9, <1>10 DEF z0Mem

(***************************************************************************)
(* Lemmas about the line                                                   *)
(***************************************************************************)

\* gdb_recv takes the request that waits, and leaves nothing.
LEMMA TakesRequest ==
  ASSUME NEW op \in ClientOps, NEW a \in Addr, Waits(op, a)
  PROVE  /\ Packets # {}
         /\ Request = [op |-> op, a |-> a]
         /\ SubSeq(rx, Min(Packets) + 1, Len(rx)) = <<>>
<1> DEFINE p == [op |-> op, a |-> a]
<1>1. p.op \in ClientOps /\ Ack.op \notin ClientOps
  BY DEF Ack, ClientOps
<1>2. CASE rx = <<p>>
  <2>1. Packets = {1}
    BY <1>1, <1>2 DEF Packets, IsPacket
  <2>2. Min(Packets) = 1
    BY <2>1 DEF Min
  <2> QED
    BY <1>2, <2>1, <2>2 DEF Request
<1>3. CASE rx = <<Ack, p>>
  <2>1. Packets = {2}
    BY <1>1, <1>3 DEF Packets, IsPacket
  <2>2. Min(Packets) = 2
    BY <2>1 DEF Min
  <2> QED
    BY <1>3, <2>1, <2>2 DEF Request
<1> QED
  BY <1>2, <1>3 DEF Waits

\* Neither nothing nor an ACK is a request.
LEMMA NoRequest ==
  ASSUME rx \in {<<>>, <<Ack>>}
  PROVE  Packets = {}
<1>1. Ack.op \notin ClientOps
  BY DEF Ack, ClientOps
<1>2. \A i \in 1..Len(rx) : rx[i] = Ack
  OBVIOUS
<1> QED
  BY <1>1, <1>2 DEF Packets, IsPacket

\* What is sent comes behind an ACK that waits, if there is one.
LEMMA SentBehind ==
  ASSUME NEW p PROVE Append(<<>>, p) = <<p>> /\ Append(<<Ack>>, p) = <<Ack, p>>
<1>1. <<Ack>> \in Seq({Ack, p}) /\ <<Ack, p>> \in Seq({Ack, p}) /\ p \in {Ack, p}
  OBVIOUS
<1>2. Len(Append(<<Ack>>, p)) = 2 /\ Append(<<Ack>>, p) \in Seq({Ack, p})
  BY <1>1
<1>3. Append(<<Ack>>, p)[1] = Ack /\ Append(<<Ack>>, p)[2] = p
  BY <1>1
<1>4. \A i \in 1..2 : Append(<<Ack>>, p)[i] = <<Ack, p>>[i]
  BY <1>3
<1>5. Append(<<Ack>>, p) = <<Ack, p>>
  BY <1>1, <1>2, <1>4, SeqEqual
<1> QED BY <1>5

\* A command is taken from the client that has just sent it.
LEMMA Taken ==
  ASSUME GdbClient, IInv, NEW op \in ClientOps, Take(op)
  PROVE  /\ pc = Serve /\ tx = <<>> /\ rx' = <<>>
         /\ op # "P" => Eip \in Program
         /\ \/ client = "asked" /\ op = "q" /\ gdb_negotiated = FALSE
            \/ client = "asked" /\ op = "?"
            \/ client = "asked" /\ op \in {"Z0", "z0"} /\ Request.a \in BpSites
                 /\ (op = "Z0" => Request.a \notin BpAddrs(tbl))
            \/ client = "asked" /\ op = "P" /\ Request.a = Eip - 1
                 /\ Eip - 1 \in BpAddrs(tbl)
            \/ client = "running" /\ op = resumed /\ stepped = 0
            \/ client = "detaching" /\ op = "D" /\ Undisturbed
            \/ client = "killed" /\ op = "k"
<1>1. pc = Serve /\ Packets # {} /\ Request.op = op
      /\ rx' = SubSeq(rx, Min(Packets) + 1, Len(rx))
  BY DEF Take
<1>2. rx \notin {<<>>, <<Ack>>}
  BY <1>1, NoRequest
<1>3. BpSites \subseteq Addr /\ 0 \in Addr /\ BpAddrs(tbl) \subseteq BpSites
  BY CodeAssumption DEF GdbClient, IInv, TableOK, Code, Work, Poll, Entry
<1> USE DEF IInv, LineOK
<1> USE <1>1
<1>4. client \notin {"idle", "stopped"}
  BY <1>2 DEF IdleOK, StoppedOK, Running
<1>5. CASE client = "asked"
  <2>1. tx = <<>> /\ RequestOK
    BY <1>2, <1>5 DEF AskedOK, Serve, Halt
  <2>2. CASE Waits("q", 0) /\ gdb_negotiated = FALSE /\ Eip \in Program
    BY <1>3, <1>5, <2>1, <2>2, TakesRequest DEF ClientOps
  <2>3. CASE Says("?", 0) /\ Eip \in Program
    <3>1. Waits("?", 0)
      BY <2>3 DEF Says, Waits
    <3> QED BY <1>3, <1>5, <2>1, <2>3, <3>1, TakesRequest DEF ClientOps
  <2>4. ASSUME Eip \in Program, NEW a \in BpSites, Says("Z0", a), a \notin BpAddrs(tbl)
        PROVE  op = "Z0" /\ Request.a = a /\ rx' = <<>>
    <3>1. Waits("Z0", a)
      BY <2>4 DEF Says, Waits
    <3> QED BY <1>3, <3>1, TakesRequest DEF ClientOps
  <2>5. ASSUME Eip \in Program, NEW a \in BpSites, Says("z0", a)
        PROVE  op = "z0" /\ Request.a = a /\ rx' = <<>>
    <3>1. Waits("z0", a)
      BY <2>5 DEF Says, Waits
    <3> QED BY <1>3, <3>1, TakesRequest DEF ClientOps
  <2>6. CASE Says("P", Eip - 1) /\ Eip - 1 \in BpAddrs(tbl)
    <3>1. Waits("P", Eip - 1)
      BY <2>6 DEF Says, Waits
    <3> QED BY <1>3, <1>5, <2>1, <2>6, <3>1, TakesRequest DEF ClientOps
  <2> QED
    BY <1>5, <2>1, <2>2, <2>3, <2>4, <2>5, <2>6 DEF RequestOK
<1>6. CASE client = "running"
  <2>1. tx = <<>> /\ Says(resumed, 0) /\ Eip \in Program /\ stepped = 0
        /\ resumed \in {"c", "s"}
    BY <1>2, <1>6 DEF RunningOK, Serve, Halt
  <2>2. Waits(resumed, 0)
    BY <2>1 DEF Says, Waits
  <2> QED BY <1>3, <1>6, <2>1, <2>2, TakesRequest DEF ClientOps
<1>7. CASE client = "detaching"
  <2>1. tx = <<>> /\ Says("D", 0) /\ Eip \in Program /\ Undisturbed
    BY <1>2, <1>7 DEF DetachingOK, Serve, Halt
  <2>2. Waits("D", 0)
    BY <2>1 DEF Says, Waits
  <2> QED BY <1>3, <1>7, <2>1, <2>2, TakesRequest DEF ClientOps
<1>8. CASE client = "killed"
  <2>1. tx = <<>> /\ Says("k", 0) /\ Eip \in Program
    BY <1>2, <1>8 DEF KilledOK, Serve, Halt
  <2>2. Waits("k", 0)
    BY <2>1 DEF Says, Waits
  <2> QED BY <1>3, <1>8, <2>1, <2>2, TakesRequest DEF ClientOps
<1> QED
  BY <1>4, <1>5, <1>6, <1>7, <1>8

(***************************************************************************)
(* Steps that leave something alone                                        *)
(***************************************************************************)

\* Without a change of the table
LEMMA SameTable ==
  ASSUME TableOK, UNCHANGED tbl
  PROVE  TableOK' /\ BpAddrs(tbl') = BpAddrs(tbl)
BY DEF TableOK, ActiveSlots, BpAddrs

\* Without a change of memory, where the program does not begin to run
LEMMA SameMemory ==
  ASSUME MemOK, UNCHANGED <<mem, tbl>>,
         pc' = pc \/ pc' \notin {Work, Poll, PollInt3, PollClear, Tramp, Entry}
  PROVE  MemOK'
BY DEF MemOK, BpAddrs, ActiveSlots, Program, Tramp, Entry

\* What the client does touches neither the processor nor the stub.
LEMMA ClientKeeps ==
  ASSUME IInv, UNCHANGED <<pc, tf, stack, stub>>
  PROVE  TableOK' /\ MemOK' /\ CpuOK'
<1>1. TableOK' /\ BpAddrs(tbl') = BpAddrs(tbl)
  BY SameTable DEF IInv, stub
<1>2. MemOK'
  BY SameMemory DEF IInv, stub
<1>3. CpuOK'
  BY <1>1 DEF IInv, stub, CpuOK, Eip, ProgramAt, OwnAddress
<1> QED BY <1>1, <1>2, <1>3

(***************************************************************************)
(* The processor in the program and in the handler                         *)
(***************************************************************************)

\* No step of the program leads into an instruction.
LEMMA ProgramOutside == \A p \in Program : p \notin Inside /\ OwnAddress(p) = p
BY DEF Program, Inside, Code, OwnAddress, Work, Poll, PollInt3, PollClear, Tramp, Entry,
       Serve, TrampOut

\* The states in the program
LEMMA CpuInProgram ==
  ASSUME pc' \in Program, tf' \in BOOLEAN, stack' = <<>>, gdb_handler_depth' = 0,
         gdb_negotiated' \in BOOLEAN, gdb_from_poll' \in BOOLEAN,
         gdb_from_poll' = TRUE <=> pc' \in {PollInt3, PollClear}
  PROVE  CpuOK' /\ ProgramAt' = pc'
<1> USE DEF Program, InHandler, Work, Poll, PollInt3, PollClear, Tramp, Entry, Serve,
            TrampOut, Halt
<1>1. ProgramAt' = pc'
  BY ProgramOutside DEF ProgramAt
<1>2. pc' \notin InHandler /\ pc' \notin {Entry, Serve, TrampOut, Halt}
  OBVIOUS
<1> HIDE DEF Program, InHandler
<1> QED BY <1>1, <1>2 DEF CpuOK

\* The states with a trap frame
LEMMA CpuInHandler ==
  ASSUME NEW f \in Frame, stack' = <<f>>, pc' \in InHandler, tf' = FALSE,
         gdb_handler_depth' = IF pc' = Tramp THEN 0 ELSE 1,
         gdb_negotiated' \in BOOLEAN, gdb_from_poll' \in BOOLEAN,
         OwnAddress(f.eip) \in Program,
         f.eip # PollInt3, f.eip \in Program \/ (f.eip \in Inside /\ f.eip - 1 \in BpAddrs(tbl')),
         pc' \in {TrampOut, Halt} => f.eip \in Program,
         gdb_from_poll' = TRUE <=> OwnAddress(f.eip) \in {PollInt3, PollClear}
  PROVE  CpuOK' /\ Eip' = f.eip /\ ProgramAt' = OwnAddress(f.eip)
<1>1. ProgramAt' = OwnAddress(f.eip) /\ Eip' = f.eip
  BY DEF ProgramAt, Eip
<1>2. pc' \notin Program /\ (pc' = Tramp <=> pc' \notin {Entry, Serve, TrampOut, Halt})
  BY DEF Program, InHandler, Work, Poll, PollInt3, PollClear, Tramp, Entry, Serve,
         TrampOut, Halt
<1> QED BY <1>1, <1>2 DEF CpuOK

\* What the invariant says of the frame
LEMMA TheFrame ==
  ASSUME CpuOK, pc \in InHandler
  PROVE  /\ \E f \in Frame : stack = <<f>> /\ Head(stack) = f /\ Tail(stack) = <<>>
         /\ ProgramAt = OwnAddress(Eip)
BY DEF CpuOK, ProgramAt, Eip

(***************************************************************************)
(* The program                                                             *)
(***************************************************************************)

\* The trap frame a program's step leaves
LEMMA Trapped ==
  ASSUME stack = <<>>, NEW eip, Trap(eip)
  PROVE  stack' = <<[eip |-> eip, tf |-> tf]>> /\ pc' = Tramp /\ tf' = FALSE
BY DEF Trap

\* An own instruction of the program that leaves the table alone: it goes on
\* with next, in a trap or without.
LEMMA ProgramStep ==
  ASSUME GdbClient, IInv, NEW c \in Program, NEW next \in Program, Retire(c, next),
         next = PollInt3 => tf = FALSE,
         UNCHANGED <<mem, tbl, gdb_handler_depth, gdb_negotiated>>,
         gdb_from_poll' \in BOOLEAN,
         gdb_from_poll' = TRUE <=> next \in {PollInt3, PollClear}
  PROVE  /\ TableOK' /\ MemOK' /\ CpuOK' /\ BpAddrs(tbl') = BpAddrs(tbl)
         /\ \/ tf = FALSE /\ pc' = next /\ tf' = FALSE
            \/ tf = TRUE /\ pc' = Tramp /\ Head(stack').tf = TRUE
         /\ stepped' = Count
<1>1. pc = c /\ stack = <<>> /\ tf \in BOOLEAN /\ gdb_handler_depth = 0
      /\ gdb_negotiated \in BOOLEAN
  BY DEF Retire, IInv, CpuOK, Program, Work, Poll, PollInt3, PollClear, Entry, Serve,
         TrampOut, Halt
<1>2. TableOK' /\ BpAddrs(tbl') = BpAddrs(tbl)
  BY SameTable DEF IInv
<1>3. CASE tf = TRUE
  <2>1. stack' = <<[eip |-> next, tf |-> TRUE]>> /\ pc' = Tramp /\ tf' = FALSE
    BY <1>1, <1>3, Trapped DEF Retire
  <2>2. MemOK'
    BY <1>1, <1>2, <2>1 DEF IInv, MemOK, Program, Tramp, Entry
  <2>3. [eip |-> next, tf |-> TRUE] \in Frame
    BY DEF Frame, Program, Code
  <2>4. next # PollInt3
    BY <1>3
  <2>5. CpuOK'
    BY <1>1, <2>1, <2>3, <2>4, CpuInHandler, ProgramOutside DEF InHandler, Tramp, TrampOut, Halt
  <2> QED BY <1>2, <1>3, <2>1, <2>2, <2>5 DEF Retire
<1>4. CASE tf = FALSE
  <2>1. stack' = <<>> /\ pc' = next /\ tf' = FALSE
    BY <1>1, <1>4 DEF Retire
  <2>2. MemOK'
    BY <1>1, <1>2, <2>1 DEF IInv, MemOK, Program, Work, Poll, PollInt3, PollClear, Tramp, Entry
  <2>3. CpuOK'
    BY <1>1, <2>1, CpuInProgram
  <2> QED BY <1>2, <1>4, <2>1, <2>2, <2>3 DEF Retire
<1> QED BY <1>1, <1>3, <1>4 DEF Retire

\* What the client may be doing while the program runs
LEMMA ProgramClient ==
  ASSUME IInv, pc \in Program
  PROVE  /\ pc \notin {Tramp, Entry, Serve, TrampOut, Halt} /\ Running /\ Resuming /\ ~Stopped
         /\ \/ client = "idle" /\ tx = <<>> /\ rx \in {<<>>, <<Ack>>} /\ Undisturbed
            \/ client = "asked" /\ tx = <<>> /\ Waits("q", 0) /\ Undisturbed
            \/ client = "running" /\ tx = <<>> /\ rx = <<>>
                 /\ resumed \in {"c", "s"} /\ (resumed = "s" => stepped = 0 /\ tf = TRUE)
            \/ client = "detaching" /\ tx = <<"reply">> /\ rx = <<>> /\ Undisturbed
<1>1. pc \notin {Tramp, Entry, Serve, TrampOut, Halt}
  BY DEF Program, Work, Poll, PollInt3, PollClear, Tramp, Entry, Serve, TrampOut, Halt
<1> QED BY <1>1 DEF IInv, LineOK, IdleOK, AskedOK, StoppedOK, RunningOK, DetachingOK, KilledOK,
                    Running, Resuming, Stopped

\* An own instruction that goes on in the loop: only a client that steps sees
\* a trap after it.
LEMMA LoopStep ==
  ASSUME GdbClient, IInv, NEW c \in Program, NEW next \in {Work, Poll}, Retire(c, next),
         UNCHANGED <<mem, tbl, gdb_handler_depth, gdb_negotiated, tx, client, resumed>>,
         gdb_from_poll' = FALSE,
         rx' = rx \/ (client = "idle" /\ rx' = <<>>)
  PROVE  IInv'
<1>1. next \in Program /\ next \notin {PollInt3, PollClear, Tramp, Entry, Serve, TrampOut, Halt}
      /\ Tramp \notin {PollInt3, PollClear, Serve, TrampOut, Halt} /\ Tramp \notin Program
  BY DEF Program, Work, Poll, PollInt3, PollClear, Tramp, Entry, Serve, TrampOut, Halt
<1>2. /\ TableOK' /\ MemOK' /\ CpuOK' /\ BpAddrs(tbl') = BpAddrs(tbl)
      /\ \/ tf = FALSE /\ pc' = next /\ tf' = FALSE
         \/ tf = TRUE /\ pc' = Tramp
      /\ stepped' = Count
  BY <1>1, ProgramStep
<1>3. pc \in Program
  BY DEF Retire
<1>4. stepped' \in 0..2 /\ (stepped = 0 => stepped' = 1)
  BY <1>2 DEF IInv, LineOK, Count
<1>5. CASE client = "running"
  <2>1. /\ tx' = <<>> /\ rx' = <<>> /\ resumed' \in {"c", "s"} /\ client' = "running"
        /\ resumed' = "s" => stepped' = 1 /\ pc' = Tramp
    BY <1>2, <1>3, <1>4, <1>5, ProgramClient
  <2>2. RunningOK'
    BY <1>1, <1>2, <2>1 DEF RunningOK, Stopped, Resuming
  <2> QED BY <1>1, <1>2, <1>4, <2>1, <2>2 DEF LineOK, IInv
<1>6. CASE client # "running"
  <2>1. Undisturbed /\ pc' = next /\ tf' = FALSE /\ pc' \notin InHandler
    BY <1>1, <1>2, <1>3, <1>6, ProgramClient DEF Undisturbed, InHandler
  <2>2. Undisturbed'
    BY <1>2, <2>1 DEF Undisturbed
  <2>3. Running' /\ ~Stopped'
    BY <1>1, <2>1 DEF Running, Stopped
  <2>4. CASE client = "idle"
    <3>1. IdleOK'
      BY <1>3, <2>2, <2>3, <2>4, ProgramClient DEF IdleOK
    <3> QED BY <1>1, <1>2, <1>4, <2>1, <2>4, <3>1 DEF LineOK, IInv
  <2>5. CASE client = "asked"
    <3>1. AskedOK'
      BY <1>1, <1>3, <2>1, <2>2, <2>3, <2>5, ProgramClient DEF AskedOK, Waits
    <3> QED BY <1>1, <1>2, <1>4, <2>1, <2>5, <3>1 DEF LineOK, IInv
  <2>6. CASE client = "detaching"
    <3>1. DetachingOK'
      BY <1>1, <1>3, <2>1, <2>2, <2>3, <2>6, ProgramClient DEF DetachingOK
    <3> QED BY <1>1, <1>2, <1>4, <2>1, <2>6, <3>1 DEF LineOK, IInv
  <2> QED BY <1>3, <1>6, <2>4, <2>5, <2>6, ProgramClient
<1> QED BY <1>2, <1>5, <1>6 DEF IInv

\* The main loop's work
LEMMA DoWorkStep == GdbClient /\ IInv /\ DoWork => IInv'
<1> SUFFICES ASSUME GdbClient, IInv, DoWork PROVE IInv'
  OBVIOUS
<1>1. pc = Work /\ Retire(Work, Poll) /\ Work \in Program
  BY DEF DoWork, Retire, Program
<1>2. gdb_from_poll = FALSE
  BY <1>1 DEF IInv, CpuOK, ProgramAt, OwnAddress, Program, Inside, Code, Work, Poll, PollInt3,
              PollClear, Tramp, Entry, Serve, TrampOut
<1> QED BY <1>1, <1>2, LoopStep DEF DoWork, stub, line

\* gdb_poll that finds nothing, or an ACK
LEMMA PollStep == GdbClient /\ IInv /\ (PollNothing \/ PollAck) => IInv'
<1> SUFFICES ASSUME GdbClient, IInv, PollNothing \/ PollAck PROVE IInv'
  OBVIOUS
<1>1. pc = Poll /\ Retire(Poll, Work) /\ Poll \in Program
  BY DEF PollNothing, PollAck, Retire, Program
<1>2. gdb_from_poll = FALSE
  BY <1>1 DEF IInv, CpuOK, ProgramAt, OwnAddress, Program, Inside, Code, Work, Poll, PollInt3,
              PollClear, Tramp, Entry, Serve, TrampOut
<1>3. CASE PollNothing
  BY <1>1, <1>2, <1>3, LoopStep DEF PollNothing, stub, line
<1>4. CASE PollAck
  <2>1. client = "idle"
    BY <1>1, <1>4, ProgramClient DEF PollAck, Waits, Ack
  <2> QED BY <1>1, <1>2, <1>4, <2>1, LoopStep DEF PollAck, stub
<1> QED BY <1>3, <1>4

\* The return of gdb_poll
LEMMA PollReturnsStep == GdbClient /\ IInv /\ PollReturns => IInv'
<1> SUFFICES ASSUME GdbClient, IInv, PollReturns PROVE IInv'
  OBVIOUS
<1>1. PollClear \in Program
  BY DEF Program
<1> QED BY <1>1, LoopStep DEF PollReturns, line

\* gdb_poll that finds a packet: it is the first of a client that has found
\* the kernel running.
LEMMA PollTrapsStep == GdbClient /\ IInv /\ PollTraps => IInv'
<1> SUFFICES ASSUME GdbClient, IInv, PollTraps PROVE IInv'
  OBVIOUS
<1>1. pc = Poll /\ Retire(Poll, PollInt3) /\ {Poll, PollInt3} \subseteq Program
  BY DEF PollTraps, Retire, Program
<1>3. client = "asked" /\ tx = <<>> /\ Undisturbed /\ rx' = <<[op |-> "q", a |-> 0]>>
  <2>1. rx # <<>> /\ rx # <<Ack>>
    BY DEF PollTraps
  <2>2. client = "asked" /\ tx = <<>> /\ Undisturbed /\ Waits("q", 0)
    BY <1>1, <2>1, ProgramClient
  <2> DEFINE p == [op |-> "q", a |-> 0]
  <2>3. p # Ack
    BY DEF Ack
  <2>4. rx = <<p>> \/ rx = <<Ack, p>>
    BY <2>2 DEF Waits
  <2> HIDE DEF p
  <2>5. rx' = IF rx # <<>> /\ Head(rx) = Ack THEN Tail(rx) ELSE rx
    BY DEF PollTraps
  <2>6. rx' = <<p>>
    <3>1. CASE rx = <<p>>
      <4>1. Head(rx) = p /\ rx # <<>>
        BY <3>1
      <4> QED BY <2>3, <2>5, <3>1, <4>1
    <3>2. CASE rx = <<Ack, p>>
      <4>1. Head(rx) = Ack /\ Tail(rx) = <<p>> /\ rx # <<>>
        BY <3>2
      <4> QED BY <2>5, <4>1
    <3> QED BY <2>4, <3>1, <3>2
  <2> QED BY <2>2, <2>6 DEF p
<1>2. tf = FALSE
  BY <1>3 DEF Undisturbed
<1>4. /\ TableOK' /\ MemOK' /\ CpuOK' /\ BpAddrs(tbl') = BpAddrs(tbl)
      /\ pc' = PollInt3 /\ tf' = FALSE /\ stepped' = Count
  BY <1>1, <1>2, ProgramStep DEF PollTraps
<1>5. AskedOK'
  <2>1. pc' \notin {Tramp, Entry, Serve, TrampOut, Halt}
    BY <1>4 DEF PollInt3, Tramp, Entry, Serve, TrampOut, Halt
  <2>2. Undisturbed' /\ Waits("q", 0)' /\ tx' = <<>> /\ ~Stopped'
    BY <1>3, <1>4, <2>1 DEF PollTraps, Undisturbed, Waits, InHandler, Stopped
  <2> QED BY <1>3, <2>1, <2>2 DEF AskedOK
<1>6. stepped' \in 0..2
  BY <1>4 DEF IInv, LineOK, Count
<1>7. LineOK'
  BY <1>3, <1>5, <1>6 DEF PollTraps, IInv, LineOK
<1> QED BY <1>4, <1>7 DEF IInv

(***************************************************************************)
(* Traps, and the way into gdb_handler                                     *)
(***************************************************************************)

\* Where an INT3 can be met: at the one of gdb_poll, and at a breakpoint in
\* the program, which only a client that lets the program run has.
LEMMA WhereInt3 ==
  ASSUME GdbClient, IInv, pc \in Code, mem[pc] = CC
  PROVE  pc = PollInt3 \/ (pc \in {Work, Poll} /\ pc \in BpAddrs(tbl))
<1>1. pc = PollInt3 \/ (pc \in BpAddrs(tbl) /\ pc \in {Work, Poll, Entry})
  BY CodeAssumption DEF GdbClient, IInv, TableOK, MemOK, Text, Opcode, CC
<1>2. pc # Entry
  BY CodeAssumption DEF IInv, MemOK, Text, Opcode, CC, Entry, PollInt3
<1> QED BY <1>1, <1>2

\* A fetch of INT3
LEMMA FetchStep == GdbClient /\ IInv /\ FetchInt3 => IInv'
<1> SUFFICES ASSUME GdbClient, IInv, FetchInt3 PROVE IInv'
  OBVIOUS
<1> USE DEF Program, Work, Poll, PollInt3, PollClear, Tramp, Entry, Serve, TrampOut, Halt
<1>1. pc = PollInt3 \/ (pc \in {Work, Poll} /\ pc \in BpAddrs(tbl))
  BY WhereInt3 DEF FetchInt3
<1>2. pc \in Program
  BY <1>1
<1>3. /\ stack = <<>> /\ tf \in BOOLEAN /\ gdb_handler_depth = 0
      /\ gdb_from_poll \in BOOLEAN /\ gdb_negotiated \in BOOLEAN
      /\ gdb_from_poll = TRUE <=> pc \in {PollInt3, PollClear}
  BY <1>2, ProgramOutside DEF IInv, CpuOK, ProgramAt
<1>4. stack' = <<[eip |-> pc + 1, tf |-> tf]>> /\ pc' = Tramp /\ tf' = FALSE
  BY <1>3, Trapped DEF FetchInt3
<1>5. UNCHANGED <<mem, tbl, gdb_handler_depth, gdb_from_poll, gdb_negotiated, rx, tx, client,
                  resumed>>
      /\ stepped' \in {stepped, Count} /\ (pc # PollInt3 => stepped' = stepped)
  BY DEF FetchInt3, stub, line
<1>6. TableOK' /\ BpAddrs(tbl') = BpAddrs(tbl)
  BY <1>5, SameTable DEF IInv
<1>7. MemOK'
  BY <1>2, <1>4, <1>5, <1>6 DEF IInv, MemOK
<1>8. /\ pc + 1 \in Code \cup Inside /\ OwnAddress(pc + 1) \in Program
      /\ pc + 1 \in Program \/ (pc + 1 \in Inside /\ pc + 1 - 1 \in BpAddrs(tbl))
      /\ pc = PollInt3 => OwnAddress(pc + 1) = PollClear /\ pc + 1 \in Program
      /\ pc # PollInt3 => OwnAddress(pc + 1) = pc
      /\ pc + 1 # PollInt3
  BY <1>1 DEF Code, Inside, OwnAddress
<1>9. [eip |-> pc + 1, tf |-> tf] \in Frame
  BY <1>3, <1>8 DEF Frame
<1>10. CpuOK'
  <2> DEFINE f == [eip |-> pc + 1, tf |-> tf]
  <2>1. f.eip = pc + 1
    OBVIOUS
  <2>2. gdb_from_poll' = TRUE <=> OwnAddress(f.eip) \in {PollInt3, PollClear}
    BY <1>1, <1>3, <1>5, <1>8, <2>1
  <2>3. f.eip \in Program \/ (f.eip \in Inside /\ f.eip - 1 \in BpAddrs(tbl'))
    BY <1>6, <1>8, <2>1
  <2>4. pc' = Tramp /\ pc' \in InHandler /\ pc' \notin {TrampOut, Halt}
    BY <1>4 DEF InHandler
  <2>5. f \in Frame /\ stack' = <<f>> /\ OwnAddress(f.eip) \in Program
        /\ f.eip # PollInt3
    BY <1>4, <1>8, <1>9, <2>1
  <2> HIDE DEF f
  <2> QED BY <1>3, <1>4, <1>5, <2>2, <2>3, <2>4, <2>5, CpuInHandler
<1>11. CASE pc = PollInt3
  <2>1. client = "asked" /\ AskedOK
    BY <1>11 DEF IInv, LineOK
  <2>2. tx = <<>> /\ Undisturbed /\ rx = <<[op |-> "q", a |-> 0]>>
    BY <1>11, <2>1 DEF AskedOK
  <2>3. Undisturbed' /\ Waits("q", 0)'
    BY <1>4, <1>5, <1>6, <2>2 DEF Undisturbed, Waits
  <2>4. AskedOK'
    BY <1>3, <1>4, <1>5, <1>11, <2>2, <2>3 DEF AskedOK
  <2>5. stepped' \in 0..2
    BY <1>5 DEF IInv, LineOK, Count
  <2> QED BY <1>4, <1>5, <1>6, <1>7, <1>10, <2>1, <2>4, <2>5 DEF IInv, LineOK
<1>12. CASE pc # PollInt3
  <2>1. ~Undisturbed
    BY <1>1, <1>12 DEF Undisturbed
  <2>2. client = "running" /\ tx = <<>> /\ rx = <<>> /\ resumed \in {"c", "s"}
        /\ (resumed = "s" => stepped = 0)
    BY <1>2, <2>1, ProgramClient
  <2>3. gdb_from_poll = FALSE
    BY <1>1, <1>3, <1>12
  <2>4. RunningOK'
    BY <1>4, <1>5, <1>12, <2>2, <2>3 DEF RunningOK, Stopped, Resuming
  <2>5. stepped' \in 0..2
    BY <1>5, <1>12 DEF IInv, LineOK
  <2> QED BY <1>4, <1>5, <1>6, <1>7, <1>10, <2>2, <2>4, <2>5 DEF IInv, LineOK
<1> QED BY <1>11, <1>12

\* Who is there when gdb_handler is called
LEMMA StopClient ==
  ASSUME IInv, pc \in {Tramp, Entry}
  PROVE  \/ /\ client = "asked" /\ tx = <<>> /\ rx = <<[op |-> "q", a |-> 0]>> /\ Undisturbed
            /\ gdb_from_poll = TRUE
         \/ /\ client = "running" /\ tx = <<>> /\ rx = <<>>
            /\ gdb_from_poll = FALSE
            /\ resumed \in {"c", "s"} /\ (resumed = "s" => stepped <= 1)
<1>1. pc \notin {Serve, TrampOut, Halt}
  BY DEF Tramp, Entry, Serve, TrampOut, Halt
<1>2. client \notin {"idle", "stopped", "detaching", "killed"}
  BY <1>1 DEF IInv, LineOK, IdleOK, StoppedOK, DetachingOK, KilledOK, Stopped
<1> QED BY <1>1, <1>2 DEF IInv, LineOK, AskedOK, RunningOK, Stopped

\* A trampoline on the way in
LEMMA TrampInStep == GdbClient /\ IInv /\ TrampIn => IInv'
<1> SUFFICES ASSUME GdbClient, IInv, TrampIn PROVE IInv'
  OBVIOUS
<1>1. pc = Tramp /\ pc \in InHandler
  BY DEF TrampIn, Retire, InHandler
<1>2. tf = FALSE /\ gdb_handler_depth = 0
  BY <1>1 DEF IInv, CpuOK, Tramp, Entry, Serve, TrampOut, Halt
<1>3. pc' = Entry /\ UNCHANGED <<tf, stack, stepped>> /\ Tramp \notin Program
  BY <1>2 DEF TrampIn, Retire, Program, Tramp, Work, Poll, PollInt3, PollClear
<1>4. /\ mem' = Text /\ gdb_handler_depth' = 1
      /\ UNCHANGED <<tbl, gdb_from_poll, gdb_negotiated, rx, tx, client, resumed>>
  BY <1>2, RemoveAll DEF IInv, TrampIn, line
<1>5. TableOK' /\ BpAddrs(tbl') = BpAddrs(tbl)
  BY <1>4, SameTable DEF IInv
<1>6. MemOK'
  <2>1. Text \in [Addr -> Byte]
    BY CodeAssumption, ByteAssumption DEF Text
  <2> QED BY <1>3, <1>4, <2>1 DEF MemOK, Program, Tramp, Entry, Work, Poll, PollInt3, PollClear
<1>7. CpuOK'
  <2>1. PICK f \in Frame : stack = <<f>> /\ Eip = f.eip /\ ProgramAt = OwnAddress(f.eip)
    BY <1>1, TheFrame DEF IInv, Eip
  <2>2. /\ pc' \in InHandler /\ pc' # Tramp /\ pc' \notin {TrampOut, Halt} /\ stack' = <<f>>
        /\ tf' = FALSE
    BY <1>2, <1>3, <2>1 DEF InHandler, Tramp, Entry, TrampOut, Halt
  <2> QED BY <1>1, <1>4, <1>5, <2>1, <2>2, CpuInHandler DEF IInv, CpuOK
<1>8. LineOK'
  <2>1. pc' \notin {PollInt3, Serve, TrampOut, Halt, Tramp} /\ pc' \notin Program
    BY <1>3 DEF PollInt3, Serve, TrampOut, Halt, Entry, Tramp, Program, Work, Poll, PollClear
  <2>2. CASE client = "asked"
    <3>1. Undisturbed' /\ Waits("q", 0)'
      BY <1>1, <1>3, <1>4, <1>5, <2>2, StopClient DEF Undisturbed, Waits
    <3>2. AskedOK'
      BY <1>1, <1>4, <2>1, <2>2, <3>1, StopClient DEF AskedOK
    <3> QED BY <1>3, <1>4, <2>1, <2>2, <3>2 DEF IInv, LineOK
  <2>3. CASE client = "running"
    <3>1. RunningOK'
      BY <1>1, <1>3, <1>4, <2>1, <2>3, StopClient DEF RunningOK, Resuming
    <3> QED BY <1>3, <1>4, <2>1, <2>3, <3>1 DEF IInv, LineOK
  <2> QED BY <1>1, <2>2, <2>3, StopClient
<1> QED BY <1>5, <1>6, <1>7, <1>8 DEF IInv

\* gdb_handler up to its loop: EIP stays as it is, since the byte before it is
\* not an INT3 but for the one of gdb_poll.
LEMMA HandlerEntryStep == GdbClient /\ IInv /\ HandlerEntry => IInv' /\ ProgramAt' = ProgramAt
<1> SUFFICES ASSUME GdbClient, IInv, HandlerEntry PROVE IInv' /\ ProgramAt' = ProgramAt
  OBVIOUS
<1> DEFINE eip == Eip - IF Int3Before(Eip) THEN 1 ELSE 0
<1>1. /\ pc = Entry /\ pc \in InHandler /\ pc' = Serve /\ SetFrame([Head(stack) EXCEPT !.eip = eip])
      /\ UNCHANGED <<tf, stepped, mem, tbl, gdb_handler_depth, gdb_from_poll, rx, client, resumed>>
      /\ gdb_negotiated' = FALSE
      /\ tx' = IF gdb_from_poll THEN tx ELSE Append(tx, "T05")
  BY DEF HandlerEntry, EnterHandler, InHandler, Eip
<1> HIDE DEF eip
<1>2. PICK f \in Frame : /\ stack = <<f>> /\ Head(stack) = f /\ Tail(stack) = <<>>
                         /\ ProgramAt = OwnAddress(f.eip) /\ Eip = f.eip
  BY <1>1, TheFrame DEF IInv, Eip
<1>3. f.eip # PollInt3
      /\ (f.eip \in Program \/ (f.eip \in Inside /\ f.eip - 1 \in BpAddrs(tbl)))
  BY <1>1, <1>2 DEF IInv, CpuOK
<1>4. Int3Before(f.eip) = FALSE
  <2>1. SUFFICES ASSUME Int3Before(f.eip) PROVE FALSE
    BY DEF Int3Before
  <2>2. gdb_from_poll = FALSE /\ f.eip - 1 \in Addr /\ Text[f.eip - 1] = CC
    BY <1>1, <2>1 DEF Int3Before, IInv, CpuOK, MemOK
  <2>3. f.eip - 1 = PollInt3
    BY <2>2 DEF Text, Opcode, CC
  <2>4. f.eip = PollClear /\ OwnAddress(f.eip) = PollClear
    BY <1>3, <2>3 DEF OwnAddress, Inside, Code, Program, Work, Poll, PollInt3, PollClear, Tramp, Entry,
       Serve, TrampOut
  <2> QED BY <1>2, <2>2, <2>4 DEF IInv, CpuOK
<1>5. eip = f.eip
  BY <1>2, <1>3, <1>4 DEF eip, Program, Inside, Code, Work, Poll, PollInt3, PollClear, Tramp, Entry,
       Serve, TrampOut
<1>6. stack' = <<f>>
  <2>1. [f EXCEPT !.eip = f.eip] = f
    BY DEF Frame
  <2> QED BY <1>1, <1>2, <1>5, <2>1 DEF SetFrame
<1>7. TableOK' /\ BpAddrs(tbl') = BpAddrs(tbl)
  BY <1>1, SameTable DEF IInv
<1>8. MemOK'
  BY <1>1, SameMemory DEF IInv, Serve, Work, Poll, PollInt3, PollClear, Tramp, Entry
<1>9. CpuOK' /\ Eip' = f.eip /\ ProgramAt' = ProgramAt
  <2>1. pc' \in InHandler /\ pc' # Tramp /\ pc' \notin {TrampOut, Halt} /\ tf' = FALSE
        /\ gdb_handler_depth' = 1
    BY <1>1 DEF IInv, CpuOK, InHandler, Tramp, Serve, TrampOut, Halt
  <2> QED BY <1>1, <1>2, <1>3, <1>6, <1>7, <2>1, CpuInHandler DEF IInv, CpuOK
<1>10. LineOK'
  <2>1. pc' = Serve /\ pc' \notin {PollInt3, TrampOut, Halt, Tramp, Entry} /\ pc' \notin Program
    BY <1>1 DEF PollInt3, Serve, TrampOut, Halt, Entry, Tramp, Program, Work, Poll, PollClear
  <2>2. CASE client = "asked"
    <3>1. tx' = <<>> /\ rx' = <<[op |-> "q", a |-> 0]>> /\ BpAddrs(tbl) = {}
      BY <1>1, <2>2, StopClient DEF Undisturbed
    <3>2. f.eip \in Program
      BY <1>3, <3>1
    <3>3. Waits("q", 0)'
      BY <3>1 DEF Waits
    <3>4. RequestOK'
      BY <1>1, <1>9, <3>2, <3>3 DEF RequestOK
    <3>5. AskedOK'
      BY <2>1, <3>1, <3>4 DEF AskedOK, Stopped
    <3> QED BY <1>1, <2>1, <2>2, <3>5 DEF IInv, LineOK
  <2>3. CASE client = "running"
    <3>1. tx' = <<"T05">> /\ rx' = <<>> /\ resumed' \in {"c", "s"} /\ (resumed' = "s" => stepped' <= 1)
      BY <1>1, <2>3, StopClient
    <3>2. RunningOK'
      BY <2>1, <3>1 DEF RunningOK, Resuming, Stopped
    <3> QED BY <1>1, <2>1, <2>3, <3>2 DEF IInv, LineOK
  <2> QED BY <1>1, <2>2, <2>3, StopClient
<1> QED BY <1>7, <1>8, <1>9, <1>10 DEF IInv

(***************************************************************************)
(* The command loop                                                        *)
(***************************************************************************)

\* The states of the command loop, and where it is left
LEMMA ServeDistinct ==
  /\ Serve \in InHandler /\ TrampOut \in InHandler /\ Halt \in InHandler
  /\ Serve \notin Program /\ Serve \notin {Tramp, Entry, TrampOut, Halt, PollInt3}
  /\ TrampOut \notin Program /\ TrampOut \notin {Tramp, Entry, Serve, Halt, PollInt3}
  /\ Halt \notin Program /\ Halt \notin {Tramp, Entry, Serve, TrampOut, PollInt3}
BY DEF InHandler, Program, Work, Poll, PollInt3, PollClear, Tramp, Entry, Serve, TrampOut, Halt

\* What a command that leaves breakpoints alone does to the frame and pc
LEMMA ServeKeeps ==
  ASSUME GdbClient, IInv, pc = Serve, Eip \in Program,
         UNCHANGED <<tf, mem, tbl, gdb_handler_depth, gdb_from_poll>>, gdb_negotiated' \in BOOLEAN,
         pc' \in {Serve, TrampOut, Halt},
         NEW t \in BOOLEAN, stack' = <<[Head(stack) EXCEPT !.tf = t]>>
  PROVE  /\ TableOK' /\ MemOK' /\ CpuOK' /\ BpAddrs(tbl') = BpAddrs(tbl)
         /\ Eip' = Eip /\ Eip' \in Program /\ Head(stack').tf = t /\ ProgramAt' = ProgramAt
<1>1. pc \in InHandler /\ pc' \in InHandler /\ pc' # Tramp
      /\ pc' \notin {Work, Poll, PollInt3, PollClear, Tramp, Entry}
  BY DEF InHandler, Work, Poll, PollInt3, PollClear, Tramp, Entry, Serve, TrampOut, Halt
<1>2. PICK f \in Frame : /\ stack = <<f>> /\ Head(stack) = f
                         /\ ProgramAt = OwnAddress(f.eip) /\ Eip = f.eip
  BY <1>1, TheFrame DEF IInv, Eip
<1>3. TableOK' /\ BpAddrs(tbl') = BpAddrs(tbl)
  BY SameTable DEF IInv
<1>4. MemOK'
  BY <1>1, SameMemory DEF IInv
<1>5. PICK g \in Frame : stack' = <<g>> /\ g.eip = f.eip /\ g.tf = t
  BY <1>2 DEF Frame
<1>6. tf' = FALSE /\ gdb_handler_depth' = 1 /\ gdb_from_poll' \in BOOLEAN
      /\ OwnAddress(g.eip) \in Program
      /\ (gdb_from_poll' = TRUE <=> OwnAddress(g.eip) \in {PollInt3, PollClear})
  BY <1>1, <1>2, <1>5 DEF IInv, CpuOK
<1>7. g.eip \in Program /\ g.eip # PollInt3
  BY <1>1, <1>2, <1>5 DEF IInv, CpuOK
<1>8. CpuOK' /\ Eip' = g.eip /\ ProgramAt' = OwnAddress(g.eip)
  BY <1>1, <1>5, <1>6, <1>7, CpuInHandler
<1> QED BY <1>2, <1>3, <1>4, <1>5, <1>7, <1>8

\* The same for a command that leaves the frame alone
LEMMA ServeKeepsFrame ==
  ASSUME GdbClient, IInv, pc = Serve, Eip \in Program,
         UNCHANGED <<tf, stack, mem, tbl, gdb_handler_depth, gdb_from_poll>>,
         gdb_negotiated' \in BOOLEAN, pc' \in {Serve, TrampOut, Halt}
  PROVE  /\ TableOK' /\ MemOK' /\ CpuOK' /\ BpAddrs(tbl') = BpAddrs(tbl)
         /\ Eip' = Eip /\ Eip' \in Program /\ Head(stack').tf = Head(stack).tf
<1>1. PICK f \in Frame : stack = <<f>> /\ Head(stack) = f
  BY TheFrame, ServeDistinct DEF IInv
<1>2. f.tf \in BOOLEAN /\ stack' = <<[Head(stack) EXCEPT !.tf = f.tf]>>
  BY <1>1 DEF Frame
<1> QED BY <1>1, <1>2, ServeKeeps

\* The line after an answer to a client that has asked
LEMMA Answered ==
  ASSUME LineOK, client = "asked", UNCHANGED <<client, resumed, stepped>>,
         pc' = Serve, tx' = <<"reply">>, rx' = <<>>, Eip' \in Program
  PROVE  LineOK'
<1>1. AskedOK'
  BY ServeDistinct DEF AskedOK, Stopped
<1> QED BY <1>1, ServeDistinct DEF LineOK

\* ? and the commands like it
LEMMA ServeQueryStep == GdbClient /\ IInv /\ ServeQuery => IInv'
<1> SUFFICES ASSUME GdbClient, IInv, ServeQuery PROVE IInv'
  OBVIOUS
<1>1. pc = Serve /\ client \in {"asked", "running"} /\ tx = <<>> /\ rx' = <<>> /\ Eip \in Program
      /\ (client = "running" => resumed = "?")
  <2>1. Take("?") /\ "?" \in ClientOps
    BY DEF ServeQuery, ClientOps
  <2> QED BY <2>1, Taken
<1>2. client = "asked"
  BY <1>1 DEF IInv, LineOK, RunningOK
<1>3. tx' = <<"reply">> /\ UNCHANGED <<cpu, stub, client, resumed>>
  BY <1>1 DEF ServeQuery, Reply
<1>4. TableOK' /\ MemOK' /\ CpuOK' /\ Eip' \in Program
  BY <1>1, <1>3, ServeKeepsFrame DEF cpu, stub, IInv, CpuOK
<1>5. LineOK'
  BY <1>1, <1>2, <1>3, <1>4, Answered DEF IInv, cpu
<1> QED BY <1>4, <1>5 DEF IInv

\* qSupported, the first of a session
LEMMA ServeSupportedStep == GdbClient /\ IInv /\ ServeSupported => IInv'
<1> SUFFICES ASSUME GdbClient, IInv, ServeSupported PROVE IInv'
  OBVIOUS
<1>1. pc = Serve /\ client \in {"asked", "running"} /\ tx = <<>> /\ rx' = <<>> /\ Eip \in Program
      /\ (client = "running" => resumed = "q") /\ (client = "asked" => gdb_negotiated = FALSE)
  <2>1. Take("q") /\ "q" \in ClientOps
    BY DEF ServeSupported, ClientOps
  <2> QED BY <2>1, Taken
<1>2. client = "asked"
  BY <1>1 DEF IInv, LineOK, RunningOK
<1>3. tx' = <<"reply">> /\ gdb_negotiated' = TRUE
      /\ UNCHANGED <<cpu, mem, tbl, gdb_handler_depth, gdb_from_poll, client, resumed>>
  BY <1>1, <1>2 DEF ServeSupported, Reply
<1>4. TableOK' /\ MemOK' /\ CpuOK' /\ Eip' \in Program
  BY <1>1, <1>3, ServeKeepsFrame DEF cpu, IInv
<1>5. LineOK'
  BY <1>1, <1>2, <1>3, <1>4, Answered DEF IInv, cpu
<1> QED BY <1>4, <1>5 DEF IInv

\* Memory and table change together, and the frame stays.
LEMMA ServePatches ==
  ASSUME GdbClient, IInv, pc = Serve, Eip \in Program, TableOK', MemOK',
         UNCHANGED <<cpu, gdb_handler_depth, gdb_from_poll, gdb_negotiated>>
  PROVE  CpuOK' /\ Eip' \in Program
<1>1. PICK f \in Frame : stack = <<f>> /\ Eip = f.eip /\ ProgramAt = OwnAddress(f.eip)
  BY TheFrame, ServeDistinct DEF IInv, Eip
<1>2. /\ pc' \in InHandler /\ pc' # Tramp /\ pc' \notin {TrampOut, Halt} /\ stack' = <<f>>
      /\ tf' = FALSE /\ gdb_handler_depth' = 1
  BY <1>1, ServeDistinct DEF IInv, CpuOK, cpu
<1> QED BY <1>1, <1>2, CpuInHandler DEF IInv, CpuOK

\* Z0
LEMMA ServeZ0Step == GdbClient /\ IInv /\ ServeZ0 => IInv'
<1> SUFFICES ASSUME GdbClient, IInv, ServeZ0 PROVE IInv'
  OBVIOUS
<1>1. pc = Serve /\ client \in {"asked", "running"} /\ tx = <<>> /\ rx' = <<>> /\ Eip \in Program
      /\ (client = "running" => resumed = "Z0")
      /\ (client = "asked" => Request.a \in BpSites /\ Request.a \notin BpAddrs(tbl))
  <2>1. Take("Z0") /\ "Z0" \in ClientOps
    BY DEF ServeZ0, ClientOps
  <2> QED BY <2>1, Taken
<1>2. client = "asked"
  BY <1>1 DEF IInv, LineOK, RunningOK
<1>3. tx' = <<"reply">>
      /\ UNCHANGED <<cpu, gdb_handler_depth, gdb_from_poll, client, resumed, gdb_negotiated>>
  BY <1>1 DEF ServeZ0, Reply
<1>4. TableOK' /\ MemOK'
  <2>1. CASE FreeSlots(tbl) # {}
    <3> DEFINE a == Request.a
    <3>1. a \in Addr /\ a \in BpSites /\ a \notin BpAddrs(tbl)
      BY <1>1, <1>2, CodeAssumption, SitesAssumption
    <3>2. tbl' = Z0Table(mem, tbl, a) /\ mem' = [mem EXCEPT ![a] = CC]
      BY <2>1 DEF ServeZ0, Z0Mem
    <3> HIDE DEF a
    <3>3. TableOK' /\ BpAddrs(tbl') = BpAddrs(tbl) \cup {a}
      BY <2>1, <3>1, <3>2, TableAfterZ0 DEF IInv
    <3>4. MemOK'
      BY <1>1, <1>3, <3>1, <3>2, <3>3, ByteAssumption, ServeDistinct DEF IInv, MemOK, cpu
    <3> QED BY <3>3, <3>4
  <2>2. CASE FreeSlots(tbl) = {}
    <3>1. UNCHANGED <<mem, tbl>> /\ pc' = pc
      BY <1>3, <2>2 DEF ServeZ0, cpu
    <3> QED BY <3>1, SameTable, SameMemory DEF IInv
  <2> QED BY <2>1, <2>2
<1>5. CpuOK' /\ Eip' \in Program
  BY <1>1, <1>3, <1>4, ServePatches
<1>6. LineOK'
  BY <1>1, <1>2, <1>3, <1>5, Answered DEF IInv, cpu
<1> QED BY <1>4, <1>5, <1>6 DEF IInv

\* z0
LEMMA Servez0Step == GdbClient /\ IInv /\ Servez0 => IInv'
<1> SUFFICES ASSUME GdbClient, IInv, Servez0 PROVE IInv'
  OBVIOUS
<1>1. pc = Serve /\ client \in {"asked", "running"} /\ tx = <<>> /\ rx' = <<>> /\ Eip \in Program
      /\ (client = "running" => resumed = "z0") /\ (client = "asked" => Request.a \in BpSites)
  <2>1. Take("z0") /\ "z0" \in ClientOps
    BY DEF Servez0, ClientOps
  <2> QED BY <2>1, Taken
<1>2. client = "asked"
  BY <1>1 DEF IInv, LineOK, RunningOK
<1>3. tx' = <<"reply">>
      /\ UNCHANGED <<cpu, gdb_handler_depth, gdb_from_poll, client, resumed, gdb_negotiated>>
  BY <1>1 DEF Servez0, Reply
<1>4. TableOK' /\ MemOK'
  <2>1. CASE SlotsAt(tbl, Request.a) # {}
    <3> DEFINE a == Request.a
    <3>1. a \in Addr
      BY <1>1, <1>2, CodeAssumption, SitesAssumption
    <3>2. tbl' = z0Table(tbl, a) /\ mem' = z0Mem(mem, tbl, a) /\ SlotsAt(tbl, a) # {}
      BY <2>1 DEF Servez0
    <3> HIDE DEF a
    <3>3. TableOK' /\ BpAddrs(tbl') = BpAddrs(tbl) \ {a} /\ mem' = [mem EXCEPT ![a] = Text[a]]
      BY <3>2, TableAfterz0 DEF IInv
    <3>4. Text[a] \in Byte
      BY <3>1, CodeAssumption, ByteAssumption DEF Text
    <3>5. MemOK'
      BY <1>1, <1>3, <3>1, <3>3, <3>4, ServeDistinct DEF IInv, MemOK, cpu
    <3> QED BY <3>3, <3>5
  <2>2. CASE SlotsAt(tbl, Request.a) = {}
    <3>1. UNCHANGED <<mem, tbl>> /\ pc' = pc
      BY <1>3, <2>2 DEF Servez0, cpu
    <3> QED BY <3>1, SameTable, SameMemory DEF IInv
  <2> QED BY <2>1, <2>2
<1>5. CpuOK' /\ Eip' \in Program
  BY <1>1, <1>3, <1>4, ServePatches
<1>6. LineOK'
  BY <1>1, <1>2, <1>3, <1>5, Answered DEF IInv, cpu
<1> QED BY <1>4, <1>5, <1>6 DEF IInv

\* P of the PC, which moves it back onto the breakpoint it has just passed
LEMMA ServePStep == GdbClient /\ IInv /\ ServeP => IInv' /\ ProgramAt' = ProgramAt
<1> SUFFICES ASSUME GdbClient, IInv, ServeP PROVE IInv' /\ ProgramAt' = ProgramAt
  OBVIOUS
<1>1. pc = Serve /\ client \in {"asked", "running"} /\ tx = <<>> /\ rx' = <<>>
      /\ (client = "running" => resumed = "P")
      /\ (client = "asked" => Request.a = Eip - 1 /\ Eip - 1 \in BpAddrs(tbl))
  <2>1. Take("P") /\ "P" \in ClientOps
    BY DEF ServeP, ClientOps
  <2> QED BY <2>1, Taken
<1>2. client = "asked"
  BY <1>1 DEF IInv, LineOK, RunningOK
<1>3. /\ tx' = <<"reply">> /\ SetFrame([Head(stack) EXCEPT !.eip = Request.a])
      /\ UNCHANGED <<pc, tf, stepped, stub, client, resumed>>
  BY <1>1 DEF ServeP, Reply
<1>4. TableOK' /\ MemOK' /\ BpAddrs(tbl') = BpAddrs(tbl)
  BY <1>3, SameTable, SameMemory DEF IInv, stub
<1>5. PICK f \in Frame : /\ stack = <<f>> /\ Head(stack) = f /\ Tail(stack) = <<>>
                         /\ ProgramAt = OwnAddress(f.eip) /\ Eip = f.eip
  BY <1>1, TheFrame, ServeDistinct DEF IInv, Eip
<1>6. f.eip - 1 \in {Work, Poll, Entry}
  BY <1>1, <1>2, <1>5 DEF IInv, TableOK, GdbClient
<1>7. f.eip \in Program \/ f.eip \in Inside
  BY <1>1, <1>5, ServeDistinct DEF IInv, CpuOK
<1>8. f.eip - 1 \in Program \ {PollInt3} /\ f.eip \in Inside /\ OwnAddress(f.eip) = f.eip - 1
  <2>1. OwnAddress(f.eip) \in Program
    BY <1>5 DEF IInv, CpuOK
  <2> QED BY <1>6, <1>7, <2>1 DEF OwnAddress, Program, Inside, Code, Work, Poll, PollInt3, PollClear,
     Tramp, Entry, Serve, TrampOut
<1>9. PICK g \in Frame : stack' = <<g>> /\ g.eip = f.eip - 1
  <2> DEFINE g == [f EXCEPT !.eip = f.eip - 1]
  <2>1. g \in Frame /\ g.eip = f.eip - 1
    BY <1>8 DEF Frame, Program, Code
  <2>2. stack' = <<g>>
    BY <1>1, <1>2, <1>3, <1>5 DEF SetFrame
  <2> QED BY <2>1, <2>2
<1>10. CpuOK' /\ Eip' \in Program /\ ProgramAt' = ProgramAt
  <2>1. /\ pc' \in InHandler /\ pc' # Tramp /\ pc' \notin {TrampOut, Halt} /\ tf' = FALSE
        /\ gdb_handler_depth' = 1 /\ gdb_from_poll' \in BOOLEAN /\ gdb_negotiated' \in BOOLEAN
    BY <1>1, <1>3, ServeDistinct DEF IInv, CpuOK, stub
  <2>2. OwnAddress(g.eip) = OwnAddress(f.eip)
    BY <1>8, <1>9, ProgramOutside
  <2>3. OwnAddress(g.eip) \in Program /\ g.eip \in Program /\ g.eip # PollInt3
        /\ (gdb_from_poll' = TRUE <=> OwnAddress(g.eip) \in {PollInt3, PollClear})
    BY <1>3, <1>5, <1>8, <1>9, <2>2 DEF IInv, CpuOK, stub
  <2> QED BY <1>5, <1>9, <2>1, <2>2, <2>3, CpuInHandler
<1>11. LineOK'
  BY <1>1, <1>2, <1>3, <1>10, Answered DEF IInv
<1> QED BY <1>4, <1>10, <1>11 DEF IInv

(***************************************************************************)
(* The commands that leave the loop                                        *)
(***************************************************************************)

\* c and s
LEMMA ServeResumeStep == GdbClient /\ IInv /\ (ServeContinue \/ ServeStep) => IInv' /\ ProgramAt' = ProgramAt
<1> SUFFICES ASSUME GdbClient, IInv, ServeContinue \/ ServeStep PROVE IInv' /\ ProgramAt' = ProgramAt
  OBVIOUS
<1>1. PICK op \in {"c", "s"}, t \in BOOLEAN :
        /\ op = "s" => t = TRUE
        /\ Take(op) /\ SetFrame([Head(stack) EXCEPT !.tf = t]) /\ pc' = TrampOut
        /\ UNCHANGED <<tf, stepped, stub, tx, client, resumed>>
  <2>1. CASE ServeContinue
    BY <2>1 DEF ServeContinue
  <2>2. CASE ServeStep
    BY <2>2 DEF ServeStep
  <2> QED BY <2>1, <2>2
<1>2. op \in ClientOps
  BY DEF ClientOps
<1>3. pc = Serve /\ tx = <<>> /\ rx' = <<>> /\ Eip \in Program
      /\ client = "running" /\ resumed = op /\ stepped = 0
  BY <1>1, <1>2, Taken
<1>5. stack' = <<[Head(stack) EXCEPT !.tf = t]>>
  <2>1. PICK f \in Frame : Head(stack) = f /\ Tail(stack) = <<>>
    BY <1>3, TheFrame, ServeDistinct DEF IInv
  <2> DEFINE g == [f EXCEPT !.tf = t]
  <2>2. stack' = <<g>> \o <<>>
    BY <1>1, <2>1 DEF SetFrame
  <2> HIDE DEF g
  <2>3. stack' = <<g>>
    BY <2>2
  <2> QED BY <2>1, <2>3 DEF g
<1>6. TableOK' /\ MemOK' /\ CpuOK' /\ Head(stack').tf = t /\ ProgramAt' = ProgramAt
  BY <1>1, <1>3, <1>5, ServeKeeps DEF stub, IInv, CpuOK
<1>7. RunningOK'
  BY <1>1, <1>3, <1>6, ServeDistinct DEF RunningOK, Stopped
<1>8. LineOK'
  BY <1>1, <1>3, <1>7, ServeDistinct DEF IInv, LineOK
<1> QED BY <1>6, <1>8 DEF IInv

\* D
LEMMA ServeDetachStep == GdbClient /\ IInv /\ ServeDetach => IInv'
<1> SUFFICES ASSUME GdbClient, IInv, ServeDetach PROVE IInv'
  OBVIOUS
<1>1. Take("D") /\ "D" \in ClientOps /\ tx' = Append(tx, "reply") /\ pc' = TrampOut
      /\ UNCHANGED <<tf, stack, stepped, stub, client, resumed>>
  BY DEF ServeDetach, Reply, ClientOps
<1>2. pc = Serve /\ tx = <<>> /\ rx' = <<>> /\ Eip \in Program
      /\ ((client = "detaching" /\ Undisturbed) \/ (client = "running" /\ resumed = "D"))
  BY <1>1, Taken
<1>3. client = "detaching" /\ Undisturbed
  BY <1>2 DEF IInv, LineOK, RunningOK
<1>4. TableOK' /\ MemOK' /\ CpuOK' /\ BpAddrs(tbl') = BpAddrs(tbl)
      /\ Head(stack').tf = Head(stack).tf
  BY <1>1, <1>2, ServeKeepsFrame DEF stub, IInv, CpuOK
<1>5. DetachingOK'
  <2>1. Undisturbed'
    BY <1>1, <1>2, <1>3, <1>4, ServeDistinct DEF Undisturbed
  <2>2. tx' = <<"reply">>
    BY <1>1, <1>2
  <2> QED BY <1>1, <1>2, <2>1, <2>2, ServeDistinct DEF DetachingOK, Stopped
<1>6. LineOK'
  BY <1>1, <1>3, <1>5, ServeDistinct DEF IInv, LineOK
<1> QED BY <1>4, <1>6 DEF IInv

\* k
LEMMA ServeKillStep == GdbClient /\ IInv /\ ServeKill => IInv'
<1> SUFFICES ASSUME GdbClient, IInv, ServeKill PROVE IInv'
  OBVIOUS
<1>1. Take("k") /\ "k" \in ClientOps /\ pc' = Halt
      /\ UNCHANGED <<tf, stack, stepped, stub, tx, client, resumed>>
  BY DEF ServeKill, ClientOps
<1>2. pc = Serve /\ tx = <<>> /\ rx' = <<>> /\ Eip \in Program
      /\ (client = "killed" \/ (client = "running" /\ resumed = "k"))
  BY <1>1, Taken
<1>3. client = "killed"
  BY <1>2 DEF IInv, LineOK, RunningOK
<1>4. TableOK' /\ MemOK' /\ CpuOK'
  BY <1>1, <1>2, ServeKeepsFrame DEF stub, IInv, CpuOK
<1>5. LineOK'
  BY <1>1, <1>2, <1>3, ServeDistinct DEF IInv, LineOK, KilledOK
<1> QED BY <1>4, <1>5 DEF IInv

\* The way out: the breakpoints go in and the program has its frame back.
LEMMA TrampReturnStep == GdbClient /\ IInv /\ TrampReturn => IInv' /\ ProgramAt' = ProgramAt
<1> SUFFICES ASSUME GdbClient, IInv, TrampReturn PROVE IInv' /\ ProgramAt' = ProgramAt
  OBVIOUS
<1>1. /\ pc = TrampOut /\ mem' = bp_insert_all(mem, tbl)
      /\ gdb_handler_depth' = gdb_handler_depth - 1
      /\ pc' = Eip /\ tf' = Head(stack).tf /\ stack' = Tail(stack)
      /\ UNCHANGED <<tbl, gdb_from_poll, gdb_negotiated, rx, tx, client, stepped, resumed>>
  BY DEF TrampReturn, line, Eip
<1>2. PICK f \in Frame : /\ stack = <<f>> /\ Head(stack) = f /\ Tail(stack) = <<>>
                         /\ ProgramAt = OwnAddress(f.eip) /\ Eip = f.eip
  BY <1>1, TheFrame, ServeDistinct DEF IInv, Eip
<1>3. f.eip \in Program /\ f.tf \in BOOLEAN /\ gdb_handler_depth = 1
      /\ ProgramAt = f.eip
  BY <1>1, <1>2, ServeDistinct, ProgramOutside DEF IInv, CpuOK, Frame
<1>4. TableOK' /\ BpAddrs(tbl') = BpAddrs(tbl)
  BY <1>1, SameTable DEF IInv
<1>5. MemOK'
  <2>1. \A a \in Addr : mem'[a] = IF a \in BpAddrs(tbl) THEN CC ELSE mem[a]
    BY <1>1 DEF bp_insert_all
  <2>2. mem' \in [Addr -> Byte]
    BY <1>1, ByteAssumption DEF bp_insert_all, IInv, MemOK
  <2>3. BpAddrs(tbl) \subseteq Addr
    BY CodeAssumption, SitesAssumption DEF IInv, TableOK
  <2>4. pc' # Entry
    BY <1>1, <1>2, <1>3 DEF Program, Work, Poll, PollInt3, PollClear, Entry
  <2> QED BY <1>4, <2>1, <2>2, <2>3, <2>4 DEF IInv, MemOK
<1>6. CpuOK' /\ ProgramAt' = ProgramAt
  <2>1. pc' \in Program /\ tf' \in BOOLEAN /\ stack' = <<>> /\ gdb_handler_depth' = 0
    BY <1>1, <1>2, <1>3
  <2>2. gdb_from_poll' \in BOOLEAN /\ gdb_negotiated' \in BOOLEAN
        /\ (gdb_from_poll' = TRUE <=> pc' \in {PollInt3, PollClear})
    BY <1>1, <1>2, <1>3 DEF IInv, CpuOK
  <2> QED BY <1>1, <1>2, <1>3, <2>1, <2>2, CpuInProgram
<1>7. pc' \in Program /\ pc' \notin InHandler /\ pc' \notin {Tramp, Entry, Serve, TrampOut, Halt}
  BY <1>1, <1>2, <1>3 DEF Program, InHandler, Work, Poll, PollInt3, PollClear, Tramp, Entry, Serve,
     TrampOut, Halt
<1>8. pc # Serve /\ pc # Halt /\ pc \in InHandler
  BY <1>1, ServeDistinct
<1>9. LineOK'
  <2>1. Undisturbed => Undisturbed'
    BY <1>1, <1>2, <1>4, <1>7, <1>8 DEF Undisturbed
  <2>2. ~Stopped' /\ Running'
    BY <1>7 DEF Stopped, Running
  <2>3. pc' # PollInt3
    BY <1>1, <1>2, <1>8 DEF IInv, CpuOK
  <2>4. CASE client = "idle"
    <3>1. IdleOK'
      BY <1>1, <2>1, <2>2, <2>4 DEF IInv, LineOK, IdleOK
    <3> QED BY <1>1, <2>3, <2>4, <3>1 DEF IInv, LineOK
  <2>5. CASE client = "asked"
    <3>1. Undisturbed' /\ tx' = <<>> /\ Waits("q", 0)'
      BY <1>1, <1>8, <2>1, <2>5 DEF IInv, LineOK, AskedOK, Waits
    <3>2. AskedOK'
      BY <1>7, <2>2, <2>3, <3>1 DEF AskedOK
    <3> QED BY <1>1, <2>3, <2>5, <3>2 DEF IInv, LineOK
  <2>6. CASE client = "running"
    <3>1. /\ tx = <<>> /\ rx = <<>> /\ resumed \in {"c", "s"}
          /\ resumed = "s" => stepped = 0 /\ tf' = TRUE
      BY <1>1, <1>8, <2>6 DEF IInv, LineOK, RunningOK, Resuming
    <3>2. RunningOK'
      BY <1>1, <1>7, <2>2, <3>1 DEF RunningOK
    <3> QED BY <1>1, <2>3, <2>6, <3>2 DEF IInv, LineOK
  <2>7. CASE client = "detaching"
    <3>1. DetachingOK'
      BY <1>1, <1>7, <1>8, <2>1, <2>2, <2>7 DEF IInv, LineOK, DetachingOK
    <3> QED BY <1>1, <2>3, <2>7, <3>1 DEF IInv, LineOK
  <2>8. client \notin {"stopped", "killed"}
    BY <1>8 DEF IInv, LineOK, StoppedOK, KilledOK
  <2> QED BY <2>4, <2>5, <2>6, <2>7, <2>8 DEF IInv, LineOK
<1> QED BY <1>4, <1>5, <1>6, <1>9 DEF IInv

(***************************************************************************)
(* The client                                                              *)
(***************************************************************************)

\* A client that has the turn may go on where the frame is, once the PC is not
\* past a breakpoint.
LEMMA TurnOfClient ==
  ASSUME GdbClient, IInv, client = "stopped"
  PROVE  /\ pc = Serve /\ tx = <<>> /\ rx = <<Ack>> /\ tf = FALSE
         /\ Head(stack).tf \in BOOLEAN /\ stack # <<>>
         /\ PastBreakpoint => Eip - 1 \in BpAddrs(tbl)
         /\ ~PastBreakpoint => Eip \in Program
<1>1. pc = Serve /\ tx = <<>> /\ rx = <<Ack>>
  BY DEF IInv, LineOK, StoppedOK
<1>2. PICK f \in Frame : stack = <<f>> /\ Head(stack) = f /\ Eip = f.eip
  BY <1>1, TheFrame, ServeDistinct DEF IInv, Eip
<1>3. tf = FALSE /\ (Eip \in Program \/ (Eip \in Inside /\ Eip - 1 \in BpAddrs(tbl)))
  BY <1>1, ServeDistinct DEF IInv, CpuOK
<1>4. PastBreakpoint <=> Eip - 1 \in BpAddrs(tbl)
  BY <1>2 DEF GdbClient, PastBreakpoint, Eip
<1>5. f.tf \in BOOLEAN
  BY DEF Frame
<1> QED BY <1>1, <1>2, <1>3, <1>4, <1>5

\* A client that finds the kernel running
LEMMA ConnectStep == GdbClient /\ IInv /\ Connect => IInv'
<1> SUFFICES ASSUME GdbClient, IInv, Connect PROVE IInv'
  OBVIOUS
<1>1. /\ client = "idle" /\ client' = "asked" /\ rx' = Append(rx, [op |-> "q", a |-> 0])
      /\ UNCHANGED <<pc, tf, stack, stepped, stub, tx, resumed>>
  BY DEF Connect, Send, ClientStep, cpu
<1>2. TableOK' /\ MemOK' /\ CpuOK'
  BY <1>1, ClientKeeps
<1>3. IdleOK /\ pc # PollInt3
  BY <1>1 DEF IInv, LineOK
<1>4. Undisturbed' /\ Running' /\ ~Stopped' /\ pc' # PollInt3 /\ tx' = <<>>
  BY <1>1, <1>3 DEF IdleOK, Undisturbed, Running, Stopped, stub, BpAddrs, ActiveSlots
<1>5. Waits("q", 0)'
  <2> DEFINE p == [op |-> "q", a |-> 0]
  <2>1. rx \in {<<>>, <<Ack>>} /\ rx' = Append(rx, p)
    BY <1>1, <1>3 DEF IdleOK
  <2> HIDE DEF p
  <2>2. rx' = <<p>> \/ rx' = <<Ack, p>>
    BY <2>1, SentBehind
  <2> QED BY <2>2 DEF p, Waits
<1>6. AskedOK'
  BY <1>4, <1>5 DEF AskedOK, Running, Stopped
<1>7. LineOK'
  BY <1>1, <1>4, <1>6 DEF IInv, LineOK
<1> QED BY <1>2, <1>7 DEF IInv

\* A request, in the command loop
LEMMA RequestStep ==
  ASSUME GdbClient, IInv, client = "stopped", client' = "asked",
         UNCHANGED <<pc, tf, stack, stepped, stub, tx, resumed>>, RequestOK'
  PROVE  IInv'
<1>1. TableOK' /\ MemOK' /\ CpuOK'
  BY ClientKeeps
<1>2. pc' = Serve /\ tx' = <<>>
  BY TurnOfClient
<1>3. AskedOK'
  BY <1>2, ServeDistinct DEF AskedOK, Stopped
<1>4. LineOK'
  BY <1>2, <1>3, ServeDistinct DEF IInv, LineOK
<1> QED BY <1>1, <1>4 DEF IInv

\* The client moves the PC back.
LEMMA FixPcStep == GdbClient /\ IInv /\ FixPc => IInv'
<1> SUFFICES ASSUME GdbClient, IInv, FixPc PROVE IInv'
  OBVIOUS
<1>1. /\ client = "stopped" /\ client' = "asked" /\ PastBreakpoint
      /\ rx' = Append(rx, [op |-> "P", a |-> Eip - 1])
      /\ UNCHANGED <<pc, tf, stack, stepped, stub, tx, resumed>>
  BY DEF FixPc, Send, ClientStep, cpu, Eip
<1>2. rx' = <<Ack, [op |-> "P", a |-> Eip - 1]>> /\ Eip - 1 \in BpAddrs(tbl)
  <2> DEFINE p == [op |-> "P", a |-> Eip - 1]
  <2>1. rx = <<Ack>> /\ rx' = Append(rx, p) /\ Eip - 1 \in BpAddrs(tbl)
    BY <1>1, TurnOfClient
  <2> HIDE DEF p
  <2>2. rx' = <<Ack, p>>
    BY <2>1, SentBehind
  <2> QED BY <2>1, <2>2 DEF p
<1>3. Eip' = Eip /\ BpAddrs(tbl') = BpAddrs(tbl)
  BY <1>1 DEF Eip, stub
<1>4. Says("P", Eip - 1)'
  BY <1>2, <1>3 DEF Says
<1>5. RequestOK'
  BY <1>2, <1>3, <1>4 DEF RequestOK
<1> QED BY <1>1, <1>5, RequestStep

\* Any other request
LEMMA AskStep ==
  ASSUME GdbClient, IInv, NEW op \in {"?", "Z0", "z0"}, NEW a \in BpSites \cup {0}, Ask(op, a),
         op # "?" => a \in BpSites, op = "?" => a = 0,
         op = "Z0" => a \notin BpAddrs(tbl)
  PROVE  IInv'
<1>1. /\ client = "stopped" /\ client' = "asked" /\ ~PastBreakpoint
      /\ rx' = Append(rx, [op |-> op, a |-> a])
      /\ UNCHANGED <<pc, tf, stack, stepped, stub, tx, resumed>>
  BY DEF Ask, Send, ClientStep, cpu
<1>2. rx' = <<Ack, [op |-> op, a |-> a]>> /\ Eip \in Program
  <2> DEFINE p == [op |-> op, a |-> a]
  <2>1. rx = <<Ack>> /\ rx' = Append(rx, p) /\ Eip \in Program
    BY <1>1, TurnOfClient
  <2> HIDE DEF p
  <2>2. rx' = <<Ack, p>>
    BY <2>1, SentBehind
  <2> QED BY <2>1, <2>2 DEF p
<1>3. Eip' = Eip /\ BpAddrs(tbl') = BpAddrs(tbl)
  BY <1>1 DEF Eip, stub
<1>4. Says(op, a)'
  BY <1>2 DEF Says
<1>5. RequestOK'
  BY <1>2, <1>3, <1>4 DEF RequestOK
<1> QED BY <1>1, <1>5, RequestStep

\* What the client sends to let the target go
LEMMA GoEffect ==
  ASSUME GdbClient, IInv, NEW op \in {"c", "s", "k", "D"}, NEW state \in {"running", "killed", "detaching"}, Go(op, state)
  PROVE  /\ client = "stopped" /\ client' = state /\ resumed' = op /\ stepped' = 0
         /\ pc' = Serve /\ tx' = <<>> /\ Says(op, 0)' /\ Eip' \in Program
         /\ UNCHANGED <<tf, stack, stub>>
         /\ TableOK' /\ MemOK' /\ CpuOK'
<1>1. /\ client = "stopped" /\ client' = state /\ ~PastBreakpoint /\ resumed' = op /\ stepped' = 0
      /\ rx' = Append(rx, [op |-> op, a |-> 0])
      /\ UNCHANGED <<pc, tf, stack, stub, tx>>
  BY DEF Go, Send
<1>2. rx' = <<Ack, [op |-> op, a |-> 0]>> /\ Eip \in Program /\ pc = Serve /\ tx = <<>>
  <2> DEFINE p == [op |-> op, a |-> 0]
  <2>1. rx = <<Ack>> /\ rx' = Append(rx, p) /\ Eip \in Program /\ pc = Serve /\ tx = <<>>
    BY <1>1, TurnOfClient
  <2> HIDE DEF p
  <2>2. rx' = <<Ack, p>>
    BY <2>1, SentBehind
  <2> QED BY <2>1, <2>2 DEF p
<1>3. TableOK' /\ MemOK' /\ CpuOK'
  BY <1>1, ClientKeeps
<1>4. Eip' = Eip /\ Says(op, 0)'
  BY <1>1, <1>2 DEF Eip, Says
<1> QED BY <1>1, <1>2, <1>3, <1>4

\* Continue, step and kill
LEMMA GoStep ==
  GdbClient /\ IInv /\ (Go("c", "running") \/ Go("s", "running") \/ Go("k", "killed")) => IInv'
<1>1. ASSUME GdbClient, IInv, NEW op \in {"c", "s"}, Go(op, "running") PROVE IInv'
  <2>1. /\ client' = "running" /\ resumed' = op /\ stepped' = 0
        /\ pc' = Serve /\ tx' = <<>> /\ Says(op, 0)' /\ Eip' \in Program
        /\ TableOK' /\ MemOK' /\ CpuOK'
    BY <1>1, GoEffect
  <2>2. RunningOK'
    BY <2>1, ServeDistinct DEF RunningOK, Stopped, Resuming, Says
  <2>3. LineOK'
    BY <2>1, <2>2, ServeDistinct DEF LineOK
  <2> QED BY <2>1, <2>3 DEF IInv
<1>2. ASSUME GdbClient, IInv, Go("k", "killed") PROVE IInv'
  <2>1. /\ client' = "killed" /\ resumed' = "k" /\ stepped' = 0
        /\ pc' = Serve /\ tx' = <<>> /\ Says("k", 0)' /\ Eip' \in Program
        /\ TableOK' /\ MemOK' /\ CpuOK'
    BY <1>2, GoEffect
  <2>2. LineOK'
    BY <2>1, ServeDistinct DEF LineOK, KilledOK
  <2> QED BY <2>1, <2>2 DEF IInv
<1> QED BY <1>1, <1>2

\* Detach: no breakpoint is left, and no step is under way.
LEMMA DetachStep == GdbClient /\ IInv /\ Detach => IInv'
<1> SUFFICES ASSUME GdbClient, IInv, Detach PROVE IInv'
  OBVIOUS
<1>1. Go("D", "detaching") /\ BpAddrs(tbl) = {}
      /\ (stack # <<>> /\ Head(stack).tf => DetachesAfterStep)
  BY DEF Detach
<1>2. /\ client = "stopped" /\ client' = "detaching" /\ resumed' = "D" /\ stepped' = 0
      /\ pc' = Serve /\ tx' = <<>> /\ Says("D", 0)' /\ Eip' \in Program
      /\ UNCHANGED <<tf, stack, stub>> /\ TableOK' /\ MemOK' /\ CpuOK'
  BY <1>1, GoEffect
<1>3. Head(stack).tf = FALSE /\ tf = FALSE
  BY <1>1, <1>2, TurnOfClient DEF GdbClient
<1>4. Undisturbed'
  BY <1>1, <1>2, <1>3 DEF Undisturbed, stub
<1>5. LineOK'
  BY <1>2, <1>4, ServeDistinct DEF LineOK, DetachingOK, Stopped
<1> QED BY <1>2, <1>5 DEF IInv

\* An answer or a stop reply arrives.
LEMMA ReceiveStep == GdbClient /\ IInv /\ Receive => IInv'
<1> SUFFICES ASSUME GdbClient, IInv, Receive PROVE IInv'
  OBVIOUS
<1>1. /\ tx # <<>> /\ client \in {"asked", "stopped", "running", "detaching"}
      /\ tx' = Tail(tx) /\ rx' = Append(rx, Ack)
      /\ client' = IF client = "detaching" THEN "idle" ELSE "stopped"
      /\ UNCHANGED <<pc, tf, stack, stepped, stub, resumed>>
  BY DEF Receive, cpu
<1>2. TableOK' /\ MemOK' /\ CpuOK'
  BY <1>1, ClientKeeps
<1>3. CASE client = "detaching"
  <2>1. DetachingOK
    BY <1>3 DEF IInv, LineOK
  <2>2. pc # Serve /\ pc # Halt /\ ~Stopped /\ Undisturbed /\ tx = <<"reply">> /\ rx = <<>>
    BY <1>1, <2>1 DEF DetachingOK
  <2>3. Undisturbed'
    BY <1>1, <2>2 DEF Undisturbed, stub
  <2>4. Running' /\ ~Stopped' /\ tx' = <<>> /\ rx' = <<Ack>>
    BY <1>1, <2>2 DEF Running, Stopped
  <2>5. pc' # PollInt3
    BY <1>1, <1>3 DEF IInv, LineOK
  <2>6. LineOK'
    BY <1>1, <1>3, <2>3, <2>4, <2>5 DEF IInv, LineOK, IdleOK
  <2> QED BY <1>2, <2>6 DEF IInv
<1>4. CASE client # "detaching"
  <2>1. /\ pc = Serve /\ rx = <<>> /\ tx \in {<<"reply">>, <<"T05">>}
    BY <1>1, <1>4 DEF IInv, LineOK, AskedOK, StoppedOK, RunningOK
  <2>2. pc' = Serve /\ tx' = <<>> /\ rx' = <<Ack>>
    BY <1>1, <2>1
  <2>3. LineOK'
    BY <1>1, <1>4, <2>2, ServeDistinct DEF IInv, LineOK, StoppedOK
  <2> QED BY <1>2, <2>3 DEF IInv
<1> QED BY <1>3, <1>4

(***************************************************************************)
(* The invariant                                                           *)
(***************************************************************************)

\* The kernel as it is booted
LEMMA InitIInv == GdbClient /\ Init => IInv
<1> SUFFICES ASSUME GdbClient, Init PROVE IInv
  OBVIOUS
<1>1. tbl \in [Slots -> BpEntry] /\ ActiveSlots(tbl) = {} /\ BpAddrs(tbl) = {}
  BY AddrAssumption, ByteAssumption DEF Init, ZeroTable, BpEntry, ActiveSlots, BpAddrs
<1>2. TableOK
  BY <1>1 DEF TableOK
<1>3. mem = Text /\ Text \in [Addr -> Byte]
  BY CodeAssumption, ByteAssumption DEF Init, Text
<1>4. MemOK
  BY <1>1, <1>3 DEF MemOK
<1>5. pc = Work /\ pc \in Program /\ pc \notin {PollInt3, PollClear, Tramp, Entry, Serve, TrampOut, Halt}
  BY DEF Init, Program, Work, Poll, PollInt3, PollClear, Tramp, Entry, Serve, TrampOut, Halt
<1>6. CpuOK
  <2>1. ProgramAt = Work
    BY <1>5, ProgramOutside DEF ProgramAt, Init
  <2> QED BY <1>5, <2>1 DEF CpuOK, Init, InHandler
<1>7. LineOK
  BY <1>1, <1>5 DEF Init, LineOK, IdleOK, Running, Stopped, Undisturbed, InHandler
<1> QED BY <1>2, <1>4, <1>6, <1>7 DEF IInv

\* Every step keeps the invariant.
LEMMA NextIInv == GdbClient /\ IInv /\ [Next]_vars => IInv'
<1> SUFFICES ASSUME GdbClient, IInv, [Next]_vars PROVE IInv'
  OBVIOUS
<1>1. CASE Target
  BY <1>1, DoWorkStep, PollStep, PollTrapsStep, PollReturnsStep, FetchStep, TrampInStep,
     HandlerEntryStep, ServeQueryStep, ServeSupportedStep, ServeZ0Step, Servez0Step, ServePStep,
     ServeResumeStep, ServeDetachStep, ServeKillStep, TrampReturnStep DEF Target
<1>2. CASE Client
  <2>1. CASE Ask("?", 0)
    BY <2>1, AskStep
  <2>2. ASSUME NEW a \in BpSites, a \notin BpAddrs(tbl), Ask("Z0", a) PROVE IInv'
    BY <2>2, AskStep
  <2>3. ASSUME NEW a \in BpSites, Ask("z0", a) PROVE IInv'
    BY <2>3, AskStep
  <2> QED
    BY <1>2, <2>1, <2>2, <2>3, ConnectStep, FixPcStep, GoStep, DetachStep, ReceiveStep DEF Client
<1>3. CASE UNCHANGED vars
  <2>1. UNCHANGED <<pc, tf, stack, stub>> /\ UNCHANGED <<rx, tx, client, resumed, stepped>>
    BY <1>3 DEF vars, cpu, line
  <2>2. TableOK' /\ MemOK' /\ CpuOK'
    BY <2>1, ClientKeeps
  <2>3. BpAddrs(tbl') = BpAddrs(tbl)
    BY <2>1 DEF stub
  <2>4. LineOK'
    BY <2>1, <2>3 DEF IInv, LineOK, IdleOK, AskedOK, StoppedOK, RunningOK, DetachingOK, KilledOK,
       Running, Stopped, Resuming, Undisturbed, RequestOK, Waits, Says, Eip, stub
  <2> QED BY <2>2, <2>4 DEF IInv
<1> QED BY <1>1, <1>2, <1>3 DEF Next, Halted

\* Under a client that behaves as gdb does, the handler, the processor and the
\* line stay in step (gdb_stub.c, tramp.asm).
THEOREM TrapInvariant == ASSUME GdbClient PROVE Spec => []IInv
<1>1. Init => IInv
  BY InitIInv
<1>2. IInv /\ [Next]_vars => IInv'
  BY NextIInv
<1> QED
  BY <1>1, <1>2, PTL DEF Spec

(***************************************************************************)
(* The properties                                                          *)
(***************************************************************************)

\* Every variable keeps its type.
THEOREM TrapTypes == ASSUME GdbClient PROVE Spec => []TypeOK
<1>1. IInv => TypeOK
  <2> SUFFICES ASSUME IInv PROVE TypeOK
    OBVIOUS
  <2> USE DEF IInv
  <2>1. mem \in [Addr -> Byte] /\ tbl \in [Slots -> BpEntry]
    BY DEF MemOK, TableOK
  <2>2. pc \in Code \cup Inside \cup {Halt} /\ tf \in BOOLEAN
        /\ {gdb_from_poll, gdb_negotiated} \subseteq BOOLEAN
    BY DEF CpuOK, Program, InHandler, Code
  <2>3. stack \in Seq(Frame)
    <3>1. <<>> \in Seq(Frame) /\ \A f \in Frame : <<f>> \in Seq(Frame)
      OBVIOUS
    <3>2. stack = <<>> \/ \E f \in Frame : stack = <<f>>
      BY DEF CpuOK
    <3> QED BY <3>1, <3>2
  <2>4. gdb_handler_depth \in 0..MaxNest
    BY NestAssumption DEF CpuOK
  <2>5. tx \in Seq({"T05", "reply"})
    <3>1. tx \in {<<>>, <<"T05">>, <<"reply">>}
      BY DEF LineOK, IdleOK, AskedOK, StoppedOK, RunningOK, DetachingOK, KilledOK
    <3>2. /\ <<>> \in Seq({"T05", "reply"}) /\ <<"T05">> \in Seq({"T05", "reply"})
          /\ <<"reply">> \in Seq({"T05", "reply"})
      OBVIOUS
    <3> QED BY <3>1, <3>2
  <2>6. rx \in Seq(Packet \cup {Break, Ack})
    <3>1. 0 \in Addr /\ BpSites \subseteq Addr /\ BpAddrs(tbl) \subseteq Addr
      BY AddrAssumption, CodeAssumption, SitesAssumption DEF TableOK
    <3>2. ASSUME NEW op \in ClientOps, NEW a \in Addr, Waits(op, a) \/ Says(op, a)
          PROVE  rx \in Seq(Packet \cup {Break, Ack})
      <4> DEFINE p == [op |-> op, a |-> a]
      <4>1. p \in Packet
        BY DEF Packet
      <4>2. rx = <<p>> \/ rx = <<Ack, p>>
        BY <3>2 DEF Waits, Says
      <4> HIDE DEF p
      <4>3. \A x, y \in Packet \cup {Break, Ack} :
              <<x>> \in Seq(Packet \cup {Break, Ack}) /\ <<x, y>> \in Seq(Packet \cup {Break, Ack})
        OBVIOUS
      <4> QED BY <4>1, <4>2, <4>3
    <3>3. rx \in {<<>>, <<Ack>>} \/ \E op \in ClientOps, a \in Addr : Waits(op, a) \/ Says(op, a)
      BY <3>1 DEF LineOK, IdleOK, AskedOK, StoppedOK, RunningOK, DetachingOK, KilledOK, RequestOK,
                  ClientOps
    <3>4. <<>> \in Seq(Packet \cup {Break, Ack}) /\ <<Ack>> \in Seq(Packet \cup {Break, Ack})
      OBVIOUS
    <3> QED BY <3>2, <3>3, <3>4
  <2> QED BY <2>1, <2>2, <2>3, <2>4, <2>5, <2>6 DEF TypeOK, LineOK
<1>2. Spec => []IInv
  BY TrapInvariant
<1> QED
  BY <1>1, <1>2, PTL

\* The target never resumes inside an instruction.
THEOREM NoDerailing == ASSUME GdbClient PROVE Spec => []NeverDerails
<1>1. IInv => NeverDerails
  BY DEF IInv, CpuOK, NeverDerails, Program, InHandler, Inside, Code, Work, Poll, PollInt3, PollClear,
         Tramp, Entry, Serve, TrampOut, Halt
<1>2. Spec => []IInv
  BY TrapInvariant
<1> QED
  BY <1>1, <1>2, PTL

\* gdb_handler and the client never wait for each other.
THEOREM NobodyWaitsForEver == ASSUME GdbClient PROVE Spec => []HandlerWaitsForClient
<1>1. IInv => HandlerWaitsForClient
  <2> SUFFICES ASSUME IInv, pc = Serve, Packets = {}
               PROVE  client \in {"stopped", "killed"} \/ (tx # <<>> /\ client # "idle")
    BY DEF HandlerWaitsForClient
  <2>1. ASSUME NEW op \in ClientOps, NEW a \in Addr, Waits(op, a) \/ Says(op, a) PROVE FALSE
    <3>1. Waits(op, a)
      BY <2>1 DEF Waits, Says
    <3> QED BY <3>1, TakesRequest
  <2>2. 0 \in Addr /\ BpSites \subseteq Addr /\ BpAddrs(tbl) \subseteq Addr
    BY AddrAssumption, CodeAssumption, SitesAssumption DEF IInv, TableOK
  <2>3. ~RequestOK
    BY <2>1, <2>2 DEF RequestOK, ClientOps
  <2>4. client = "running" => tx # <<>>
    BY <2>1, <2>2 DEF IInv, LineOK, RunningOK, ClientOps
  <2>5. client # "detaching"
    BY <2>1, <2>2 DEF IInv, LineOK, DetachingOK, ClientOps
  <2> QED BY <2>3, <2>4, <2>5 DEF IInv, LineOK, IdleOK, AskedOK, Running
<1>2. Spec => []IInv
  BY TrapInvariant
<1> QED
  BY <1>1, <1>2, PTL

\* A stop reply goes to a client that runs the target, an answer to one that
\* has asked, and there is one at a time.
THEOREM ExpectedReplies == ASSUME GdbClient PROVE Spec => []RepliesAreExpected
<1>1. IInv => RepliesAreExpected
  <2> SUFFICES ASSUME IInv, tx # <<>>
               PROVE  Len(tx) = 1 /\ (Head(tx) = "T05" <=> client = "running")
    BY DEF RepliesAreExpected
  <2>1. \/ client = "running" /\ tx = <<"T05">>
        \/ client # "running" /\ tx = <<"reply">>
    BY DEF IInv, LineOK, IdleOK, AskedOK, StoppedOK, RunningOK, DetachingOK, KilledOK
  <2> QED BY <2>1
<1>2. Spec => []IInv
  BY TrapInvariant
<1> QED
  BY <1>1, <1>2, PTL

\* gdb-over-serial-reentrancy.md:98: gdb_handler is never entered twice.
THEOREM NoReentry == ASSUME GdbClient PROVE Spec => []NotReentrant
<1>1. IInv => NotReentrant
  <2>1. ASSUME IInv PROVE Len(stack) <= 1 /\ gdb_handler_depth <= 1
    <3>1. stack = <<>> \/ \E f \in Frame : stack = <<f>>
      BY <2>1 DEF IInv, CpuOK
    <3>2. gdb_handler_depth \in {0, 1}
      BY <2>1 DEF IInv, CpuOK
    <3>3. Len(<<>>) = 0 /\ \A f \in Frame : Len(<<f>>) = 1
      OBVIOUS
    <3>4. Len(stack) = 0 \/ Len(stack) = 1
      BY <3>1, <3>3
    <3> QED BY <3>2, <3>4
  <2> QED BY <2>1 DEF NotReentrant
<1>2. Spec => []IInv
  BY TrapInvariant
<1> QED
  BY <1>1, <1>2, PTL

\* A step ends after one instruction of the program.
THEOREM OneInstruction == ASSUME GdbClient PROVE Spec => []StepIsOne
<1>1. IInv => StepIsOne
  BY DEF IInv, LineOK, RunningOK, StepIsOne
<1>2. Spec => []IInv
  BY TrapInvariant
<1> QED
  BY <1>1, <1>2, PTL

(***************************************************************************)
(* The program's own run is PollLoop                                       *)
(***************************************************************************)

\* Where the program is while it runs
LEMMA AtPc ==
  ASSUME IInv, pc \in Program
  PROVE  stack = <<>> /\ ProgramAt = pc
BY ProgramOutside DEF IInv, CpuOK, ProgramAt

\* An own instruction that goes on with next, with a trap after it or not
LEMMA RetireMoves ==
  ASSUME IInv, NEW c \in Program, NEW next \in Program, Retire(c, next)
  PROVE  ProgramAt = c /\ ProgramAt' = next
<1>1. pc = c /\ stack = <<>> /\ ProgramAt = c
  BY AtPc DEF Retire
<1>2. next \notin Inside /\ OwnAddress(next) = next
  BY ProgramOutside
<1>3. CASE tf
  <2>1. stack' = <<[eip |-> next, tf |-> tf]>>
    BY <1>1, <1>3, Trapped DEF Retire
  <2> QED BY <1>1, <1>2, <2>1 DEF ProgramAt
<1>4. CASE ~tf
  <2>1. stack' = <<>> /\ pc' = next
    BY <1>1, <1>4 DEF Retire
  <2> QED BY <1>1, <1>2, <2>1 DEF ProgramAt
<1> QED BY <1>3, <1>4

\* A fetch of INT3 is a step of the program only in gdb_poll.
LEMMA FetchMoves ==
  ASSUME GdbClient, IInv, FetchInt3
  PROVE  \/ ProgramAt = PollInt3 /\ ProgramAt' = PollClear
         \/ ProgramAt' = ProgramAt
<1>1. pc \in {Work, Poll, PollInt3} /\ pc \in Program
  BY WhereInt3 DEF FetchInt3, Program
<1>2. stack = <<>> /\ ProgramAt = pc
  BY <1>1, AtPc
<1>3. stack' = <<[eip |-> pc + 1, tf |-> tf]>>
  BY <1>2, Trapped DEF FetchInt3
<1>4. ProgramAt' = OwnAddress(pc + 1)
  BY <1>3 DEF ProgramAt
<1>5. OwnAddress(pc + 1) = IF pc = PollInt3 THEN PollClear ELSE pc
  BY <1>1 DEF OwnAddress, Inside, Code, Work, Poll, PollInt3, PollClear, Tramp, Entry, Serve, TrampOut
<1> QED BY <1>2, <1>4, <1>5

\* The processor's steps as the program's
LEMMA TargetIsPollLoop ==
  ASSUME GdbClient, IInv, IInv', Target
  PROVE  [Undebugged!Next]_(Undebugged!vars)
<1> USE DEF Undebugged!Next, Undebugged!vars
<1>1. {Work, Poll, PollInt3, PollClear} \subseteq Program /\ {Tramp, Entry, Serve, TrampOut, Halt} \subseteq InHandler
      /\ Tramp \notin Program
  BY DEF Program, InHandler, Tramp, Work, Poll, PollInt3, PollClear
<1>2. CASE DoWork
  <2>1. Retire(Work, Poll) /\ gdb_from_poll' = gdb_from_poll
    BY <1>2 DEF DoWork, stub
  <2> QED BY <1>1, <2>1, RetireMoves DEF Undebugged!DoWork
<1>3. CASE PollNothing \/ PollAck
  <2>1. Retire(Poll, Work) /\ gdb_from_poll' = gdb_from_poll
    BY <1>3 DEF PollNothing, PollAck, stub
  <2> QED BY <1>1, <2>1, RetireMoves DEF Undebugged!DoPoll
<1>4. CASE PollTraps
  <2>1. Retire(Poll, PollInt3) /\ gdb_from_poll' = TRUE
    BY <1>4 DEF PollTraps
  <2> QED BY <1>1, <2>1, RetireMoves DEF Undebugged!DoPoll
<1>5. CASE PollReturns
  <2>1. Retire(PollClear, Work) /\ gdb_from_poll' = FALSE
    BY <1>5 DEF PollReturns
  <2> QED BY <1>1, <2>1, RetireMoves DEF Undebugged!DoClear
<1>6. CASE FetchInt3
  <2>1. gdb_from_poll' = gdb_from_poll
    BY <1>6 DEF FetchInt3, stub
  <2> QED BY <1>6, <2>1, FetchMoves DEF Undebugged!DoInt3
<1>7. CASE TrampIn
  <2>1. pc = Tramp /\ pc \in InHandler /\ tf = FALSE
    BY <1>1, <1>7 DEF TrampIn, Retire, IInv, CpuOK
  <2>2. UNCHANGED <<stack, gdb_from_poll>>
    BY <1>7, <2>1 DEF TrampIn, Retire
  <2>3. stack # <<>>
    BY <2>1 DEF IInv, CpuOK
  <2> QED BY <2>2, <2>3 DEF ProgramAt
<1>8. CASE HandlerEntry
  <2>1. gdb_from_poll' = gdb_from_poll
    BY <1>8 DEF HandlerEntry, EnterHandler
  <2> QED BY <1>8, <2>1, HandlerEntryStep
<1>9. CASE ServeContinue \/ ServeStep
  <2>1. gdb_from_poll' = gdb_from_poll
    BY <1>9 DEF ServeContinue, ServeStep, stub
  <2> QED BY <1>9, <2>1, ServeResumeStep
<1>10. CASE ServeP
  <2>1. gdb_from_poll' = gdb_from_poll
    BY <1>10 DEF ServeP, stub
  <2> QED BY <1>10, <2>1, ServePStep
<1>11. CASE TrampReturn
  <2>1. gdb_from_poll' = gdb_from_poll
    BY <1>11 DEF TrampReturn
  <2> QED BY <1>11, <2>1, TrampReturnStep
<1>12. CASE ServeQuery \/ ServeSupported \/ ServeZ0 \/ Servez0 \/ ServeDetach \/ ServeKill
  <2>1. pc = Serve /\ UNCHANGED <<stack, gdb_from_poll>>
    BY <1>12 DEF ServeQuery, ServeSupported, ServeZ0, Servez0, ServeDetach, ServeKill, Take, stub, cpu
  <2>2. stack # <<>>
    BY <2>1, TheFrame, ServeDistinct DEF IInv
  <2> QED BY <2>1, <2>2 DEF ProgramAt
<1> QED
  BY <1>2, <1>3, <1>4, <1>5, <1>6, <1>7, <1>8, <1>9, <1>10, <1>11, <1>12 DEF Target

\* What the client does is nothing to the program.
LEMMA ClientIsNoStep ==
  ASSUME Client \/ UNCHANGED vars
  PROVE  UNCHANGED Undebugged!vars
<1>1. UNCHANGED <<pc, stack, gdb_from_poll>>
  BY DEF Client, Connect, FixPc, Receive, Detach, Ask, Go, Send, ClientStep, cpu, stub, vars
<1> QED BY <1>1 DEF Undebugged!vars, ProgramAt

\* The kernel that is debugged runs as PollLoop does: whatever stops, steps,
\* breakpoints and resumes come between, the program's own instructions follow
\* each other as they would without a client.
THEOREM PollLoopImplemented == ASSUME GdbClient PROVE Spec => Transparent
<1>1. Init => Undebugged!Init
  <2> SUFFICES ASSUME Init PROVE Undebugged!Init
    OBVIOUS
  <2>1. stack = <<>> /\ pc = Work /\ gdb_from_poll = FALSE /\ Work \in Program
    BY DEF Init, Program
  <2> QED BY <2>1, ProgramOutside DEF Undebugged!Init, ProgramAt
<1>2. IInv /\ [Next]_vars => [Undebugged!Next]_(Undebugged!vars)
  BY NextIInv, TargetIsPollLoop, ClientIsNoStep DEF Next, Halted
<1>3. Spec => []IInv
  BY TrapInvariant
<1> QED
  BY <1>1, <1>2, <1>3, PTL DEF Spec, Transparent, Undebugged!Spec
=============================================================================
