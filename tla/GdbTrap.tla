------------------------------ MODULE GdbTrap ------------------------------
(***************************************************************************)
(* A kernel that debugs itself: one processor runs the main loop, the trap *)
(* trampolines and gdb_handler, and a client at the other end of the       *)
(* serial line patches the very code that serves it.                       *)
(* (gdb-stub/gdb_stub.c, gdb-stub/tramp.asm, gdb-stub/gdb_idt.c)           *)
(*                                                                         *)
(* The processor is modelled by its instruction fetches.  The code is cut  *)
(* where something can happen: each cut is an instruction that can carry a *)
(* breakpoint, and a step executes the code from one cut to the next.      *)
(* Memory and the breakpoint table are those of BpOps, so a fetch that     *)
(* finds 0xCC traps, in the handler as in the program.                     *)
(*                                                                         *)
(* The serial line carries whole packets here; bytes, checksums and ACKs   *)
(* of single packets are framing and not modelled in this module.          *)
(***************************************************************************)
EXTENDS BpOps, Sequences

CONSTANTS
  BpSites,      \* where the client sets breakpoints
  FixesPc,      \* TRUE: after a stop the client moves a PC that is one past a
                \* breakpoint back onto it, as gdb does on x86
  DetachesAfterStep, \* TRUE: the client may detach from where a step ended
  MaxNest       \* bound: trap frames on the stack

(***************************************************************************)
(* The code.  Work and Poll stand for the first bytes of the main loop's   *)
(* work and of gdb_poll; PollInt3 is the one-byte int $3 of gdb_poll and   *)
(* PollClear the instruction after it.  Tramp is a trampoline up to the    *)
(* end of bp_remove_all, Entry is gdb_handler up to its loop, Serve one    *)
(* round of the loop (gdb_recv and what it calls), TrampOut bp_insert_all   *)
(* and the way out to iret.  An address one past any of them but PollInt3  *)
(* is the inside of an instruction.                                        *)
(***************************************************************************)
Work == 0
Poll == 2
PollInt3 == 4
PollClear == 5
Tramp == 7
Entry == 9
Serve == 11
TrampOut == 13
Halt == 15      \* after cli; hlt

Code == {Work, Poll, PollInt3, PollClear, Tramp, Entry, Serve, TrampOut}
Program == {Work, Poll, PollInt3, PollClear}
Inside == {c + 1 : c \in Code \ {PollInt3}}
Opcode == 144   \* a first byte that is not 0xCC

ASSUME CodeAssumption == Addr = Code /\ Opcode \in Byte
ASSUME SitesAssumption == BpSites \subseteq Code \ {PollInt3}
ASSUME NestAssumption == MaxNest \in Nat \ {0}

VARIABLES
  mem, tbl,       \* memory and bp_table
  pc, tf,         \* the processor: next fetch, EFLAGS.TF
  stack,          \* trap frames, the innermost first
  gdb_handler_depth,
  gdb_from_poll,
  gdb_negotiated, \* this session has answered a qSupported
  rx, tx,         \* the serial line, to and from the target
  client,         \* the client's state
  \* history variables:
  stepped,        \* own instructions retired since the client said go (0..2)
  resumed         \* how the client last resumed: "c", "s" or "D"

cpu == <<pc, tf, stack, stepped>>
stub == <<mem, tbl, gdb_handler_depth, gdb_from_poll, gdb_negotiated>>
line == <<rx, tx>>
vars == <<cpu, stub, line, client, resumed>>

Frame == [eip : Code \cup Inside \cup {Halt}, tf : BOOLEAN]
ClientOps == {"q", "?", "Z0", "z0", "P", "s", "c", "D", "k"}
Packet == [op : ClientOps, a : Addr]
Break == [op |-> "^C", a |-> 0]
Ack == [op |-> "+", a |-> 0]
IsPacket(p) == p.op \in ClientOps

Init ==
  /\ mem = [a \in Addr |-> IF a = PollInt3 THEN CC ELSE Opcode]
  /\ tbl = ZeroTable
  /\ pc = Work /\ tf = FALSE /\ stack = <<>>
  /\ gdb_handler_depth = 0 /\ gdb_from_poll = FALSE /\ gdb_negotiated = FALSE
  /\ rx = <<>> /\ tx = <<>>
  /\ client = "idle"
  /\ stepped = 0 /\ resumed = "c"

----------------------------------------------------------------------------
(***************************************************************************)
(* The processor                                                           *)
(***************************************************************************)

\* An exception pushes EFLAGS and EIP and clears TF (an interrupt gate); both
\* vectors lead to the same sequence of steps.
Trap(eip) ==
  /\ Len(stack) < MaxNest
  /\ stack' = <<[eip |-> eip, tf |-> tf]>> \o stack
  /\ pc' = Tramp
  /\ tf' = FALSE

Count == IF stepped < 2 THEN stepped + 1 ELSE 2

\* The instruction at c is fetched whole and next follows it; with TF set,
\* INT1 comes after it.
Retire(c, next) ==
  /\ pc = c
  /\ mem[c] # CC
  /\ IF tf THEN Trap(next) ELSE pc' = next /\ UNCHANGED <<tf, stack>>
  /\ stepped' = IF c \in Program THEN Count ELSE stepped

\* INT3: EIP is pushed past the one byte of it.
FetchInt3 ==
  /\ pc \in Code
  /\ mem[pc] = CC
  /\ Trap(pc + 1)
  /\ stepped' = IF pc = PollInt3 THEN Count ELSE stepped
  /\ UNCHANGED <<stub, line, client, resumed>>

----------------------------------------------------------------------------
(***************************************************************************)
(* The program                                                             *)
(***************************************************************************)

DoWork ==
  /\ Retire(Work, Poll)
  /\ UNCHANGED <<stub, line, client, resumed>>

PollNothing ==
  /\ rx = <<>>
  /\ Retire(Poll, Work)
  /\ UNCHANGED <<stub, line, client, resumed>>

\* Mutant of PollAck: everything that waits is drained with the ACK.
PollAckDrains ==
  /\ rx # <<>> /\ Head(rx) = Ack
  /\ Retire(Poll, Work)
  /\ rx' = <<>>
  /\ UNCHANGED <<stub, tx, client, resumed>>

\* A leading ACK is dropped; with nothing behind it gdb_poll returns.
PollAck ==
  /\ rx = <<Ack>>
  /\ Retire(Poll, Work)
  /\ rx' = <<>>
  /\ UNCHANGED <<stub, tx, client, resumed>>

\* Mutant of PollTraps: gdb_from_poll is not set.
PollTrapsUnmarked ==
  LET waiting == IF rx # <<>> /\ Head(rx) = Ack THEN Tail(rx) ELSE rx
  IN  /\ waiting # <<>>
      /\ Retire(Poll, PollInt3)
      /\ rx' = waiting
      /\ UNCHANGED <<stub, tx, client, resumed>>

\* The first byte of what is in rx becomes gdb_pending_byte; gdb_recv takes
\* it from there, so what it begins is still the head of the line.
PollTraps ==
  LET waiting == IF rx # <<>> /\ Head(rx) = Ack THEN Tail(rx) ELSE rx
  IN  /\ waiting # <<>>
      /\ Retire(Poll, PollInt3)
      /\ rx' = waiting
      /\ gdb_from_poll' = TRUE
      /\ UNCHANGED <<mem, tbl, gdb_handler_depth, tx, client, resumed, gdb_negotiated>>

\* Mutant of PollReturns: gdb_from_poll stays set.
PollReturnsMarked ==
  /\ Retire(PollClear, Work)
  /\ UNCHANGED <<stub, line, client, resumed>>

PollReturns ==
  /\ Retire(PollClear, Work)
  /\ gdb_from_poll' = FALSE
  /\ UNCHANGED <<mem, tbl, gdb_handler_depth, line, client, resumed, gdb_negotiated>>

----------------------------------------------------------------------------
(***************************************************************************)
(* The trampolines and gdb_handler                                         *)
(***************************************************************************)

\* Mutant of TrampIn: gdb_handler is called without bp_remove_all.
TrampInPatched ==
  /\ Retire(Tramp, Entry)
  /\ gdb_handler_depth' = gdb_handler_depth + 1
  /\ UNCHANGED <<mem, tbl, gdb_from_poll, line, client, resumed, gdb_negotiated>>

TrampIn ==
  /\ Retire(Tramp, Entry)
  /\ gdb_handler_depth' = gdb_handler_depth + 1
  /\ mem' = bp_remove_all(mem, tbl)
  /\ UNCHANGED <<tbl, gdb_from_poll, line, client, resumed, gdb_negotiated>>

\* The frame a session works on is the innermost.
SetFrame(f) == stack' = <<f>> \o Tail(stack)

\* gdb_handler up to its loop: the EIP fix-up, a new session, the stop reply.
Int3Before(eip) ==
  ~gdb_from_poll /\ eip > 0 /\ eip - 1 \in Addr /\ mem[eip - 1] = CC

EnterHandler(eip) ==
  /\ pc = Entry
  /\ mem[Entry] # CC
  /\ SetFrame([Head(stack) EXCEPT !.eip = eip])
  /\ pc' = Serve
  /\ UNCHANGED <<tf, stepped, mem, tbl, gdb_handler_depth, gdb_from_poll, rx, client,
                 resumed>>

\* Mutants of HandlerEntry: the stop reply is sent on every entry; EIP is
\* backed up at every stop.
HandlerEntryAlwaysStops ==
  /\ EnterHandler(Head(stack).eip)
  /\ gdb_negotiated' = FALSE
  /\ tx' = Append(tx, "T05")
HandlerEntryAlwaysBacksUp ==
  /\ EnterHandler(Head(stack).eip - IF ~gdb_from_poll /\ Head(stack).eip > 0 THEN 1 ELSE 0)
  /\ gdb_negotiated' = FALSE
  /\ tx' = IF gdb_from_poll THEN tx ELSE Append(tx, "T05")
HandlerEntry ==
  /\ EnterHandler(Head(stack).eip - IF Int3Before(Head(stack).eip) THEN 1 ELSE 0)
  /\ gdb_negotiated' = FALSE
  /\ tx' = IF gdb_from_poll THEN tx ELSE Append(tx, "T05")

\* gdb_recv drops what comes before a packet.
Packets == {i \in 1..Len(rx) : IsPacket(rx[i])}
Request == rx[Min(Packets)]

Take(op) ==
  /\ pc = Serve
  /\ mem[Serve] # CC
  /\ Packets # {}
  /\ Request.op = op
  /\ rx' = SubSeq(rx, Min(Packets) + 1, Len(rx))

Reply(r) == tx' = Append(tx, r)

\* Queries, register and memory reads: an answer and no change
ServeQuery ==
  /\ Take("?")
  /\ Reply("reply")
  /\ UNCHANGED <<cpu, stub, client, resumed>>

\* qSupported: answered once a session, and not a second time
ServeSupported ==
  /\ Take("q")
  /\ IF gdb_negotiated THEN UNCHANGED tx ELSE Reply("reply")
  /\ gdb_negotiated' = TRUE
  /\ UNCHANGED <<cpu, mem, tbl, gdb_handler_depth, gdb_from_poll, client, resumed>>

ServeZ0 ==
  /\ Take("Z0")
  /\ IF FreeSlots(tbl) # {}
     THEN /\ tbl' = Z0Table(mem, tbl, Request.a)
          /\ mem' = Z0Mem(mem, Request.a)
     ELSE UNCHANGED <<mem, tbl>>
  /\ Reply("reply")
  /\ UNCHANGED <<cpu, gdb_handler_depth, gdb_from_poll, client, resumed, gdb_negotiated>>

Servez0 ==
  /\ Take("z0")
  /\ IF SlotsAt(tbl, Request.a) # {}
     THEN /\ tbl' = z0Table(tbl, Request.a)
          /\ mem' = z0Mem(mem, tbl, Request.a)
     ELSE UNCHANGED <<mem, tbl>>
  /\ Reply("reply")
  /\ UNCHANGED <<cpu, gdb_handler_depth, gdb_from_poll, client, resumed, gdb_negotiated>>

\* P of the program counter
ServeP ==
  /\ Take("P")
  /\ SetFrame([Head(stack) EXCEPT !.eip = Request.a])
  /\ Reply("reply")
  /\ UNCHANGED <<pc, tf, stepped, stub, client, resumed>>

\* c, s and their vCont forms write TF in the saved EFLAGS and send nothing.
ServeContinue ==
  /\ Take("c")
  /\ SetFrame([Head(stack) EXCEPT !.tf = FALSE])
  /\ pc' = TrampOut
  /\ UNCHANGED <<tf, stepped, stub, tx, client, resumed>>

\* Mutant of ServeStep: TF is not set.
ServeStepNoTF ==
  /\ Take("s")
  /\ pc' = TrampOut
  /\ UNCHANGED <<tf, stack, stepped, stub, tx, client, resumed>>

ServeStep ==
  /\ Take("s")
  /\ SetFrame([Head(stack) EXCEPT !.tf = TRUE])
  /\ pc' = TrampOut
  /\ UNCHANGED <<tf, stepped, stub, tx, client, resumed>>

\* Mutant of ServeDetach: the loop ends without the answer.
ServeDetachSilent ==
  /\ Take("D")
  /\ pc' = TrampOut
  /\ UNCHANGED <<tf, stack, stepped, stub, tx, client, resumed>>

ServeDetach ==
  /\ Take("D")
  /\ Reply("reply")
  /\ pc' = TrampOut
  /\ UNCHANGED <<tf, stack, stepped, stub, client, resumed>>

ServeKill ==
  /\ Take("k")
  /\ pc' = Halt
  /\ UNCHANGED <<tf, stack, stepped, stub, tx, client, resumed>>

\* Mutants of TrampReturn: EFLAGS are not restored; the depth is not counted
\* down.
TrampReturnNoFlags ==
  /\ pc = TrampOut
  /\ mem[TrampOut] # CC
  /\ mem' = bp_insert_all(mem, tbl)
  /\ gdb_handler_depth' = gdb_handler_depth - 1
  /\ pc' = Head(stack).eip
  /\ tf' = FALSE
  /\ stack' = Tail(stack)
  /\ UNCHANGED <<tbl, gdb_from_poll, line, client, stepped, resumed, gdb_negotiated>>
TrampReturnUncounted ==
  /\ pc = TrampOut
  /\ mem[TrampOut] # CC
  /\ mem' = bp_insert_all(mem, tbl)
  /\ pc' = Head(stack).eip
  /\ tf' = Head(stack).tf
  /\ stack' = Tail(stack)
  /\ UNCHANGED <<tbl, gdb_handler_depth, gdb_from_poll, line, client, stepped,
                 resumed, gdb_negotiated>>

\* bp_insert_all, the pops and iret
TrampReturn ==
  /\ pc = TrampOut
  /\ mem[TrampOut] # CC
  /\ mem' = bp_insert_all(mem, tbl)
  /\ gdb_handler_depth' = gdb_handler_depth - 1
  /\ pc' = Head(stack).eip
  /\ tf' = Head(stack).tf
  /\ stack' = Tail(stack)
  /\ UNCHANGED <<tbl, gdb_from_poll, line, client, stepped, resumed, gdb_negotiated>>

\* hlt with interrupts off
Halted == pc = Halt /\ UNCHANGED vars

Target ==
  \/ DoWork \/ PollNothing \/ PollAck \/ PollTraps \/ PollReturns
  \/ FetchInt3 \/ TrampIn \/ HandlerEntry
  \/ ServeQuery \/ ServeSupported \/ ServeZ0 \/ Servez0 \/ ServeP
  \/ ServeContinue \/ ServeStep \/ ServeDetach \/ ServeKill
  \/ TrampReturn

----------------------------------------------------------------------------
(***************************************************************************)
(* The client, one request at a time                                       *)
(***************************************************************************)

Send(op, a) == rx' = Append(rx, [op |-> op, a |-> a])
ClientStep == UNCHANGED <<cpu, stub, tx>>

Connect ==
  /\ client = "idle"
  /\ Send("q", 0)
  /\ client' = "asked"
  /\ ClientStep /\ UNCHANGED resumed

\* The PC is one past a breakpoint: gdb moves it back before anything else.
PastBreakpoint ==
  FixesPc /\ stack # <<>> /\ Head(stack).eip - 1 \in BpAddrs(tbl)

FixPc ==
  /\ client = "stopped"
  /\ PastBreakpoint
  /\ Send("P", Head(stack).eip - 1)
  /\ client' = "asked"
  /\ ClientStep /\ UNCHANGED resumed

Ask(op, a) ==
  /\ client = "stopped"
  /\ ~PastBreakpoint
  /\ Send(op, a)
  /\ client' = "asked"
  /\ ClientStep /\ UNCHANGED resumed

Go(op, state) ==
  /\ client = "stopped"
  /\ ~PastBreakpoint
  /\ Send(op, 0)
  /\ client' = state
  /\ resumed' = op
  /\ stepped' = 0
  /\ UNCHANGED <<pc, tf, stack, stub, tx>>

\* gdb takes its breakpoints out before it detaches.
Detach ==
  /\ BpAddrs(tbl) = {}
  /\ stack # <<>> /\ Head(stack).tf => DetachesAfterStep
  /\ Go("D", "detaching")

Interrupt ==
  /\ client = "running"
  /\ Break \notin Range(rx)
  /\ rx' = Append(rx, Break)
  /\ ClientStep /\ UNCHANGED <<client, resumed>>

\* Every packet is acknowledged.  A client that is gone reads nothing.
Receive ==
  /\ tx # <<>>
  /\ client \in {"asked", "stopped", "running", "detaching"}
  /\ tx' = Tail(tx)
  /\ rx' = Append(rx, Ack)
  /\ client' = IF client = "detaching" THEN "idle" ELSE "stopped"
  /\ UNCHANGED <<cpu, stub, resumed>>

Client ==
  \/ Connect \/ FixPc \/ Receive \/ Detach
  \/ Ask("?", 0)
  \/ \E a \in BpSites : (a \notin BpAddrs(tbl) /\ Ask("Z0", a)) \/ Ask("z0", a)
  \/ Go("c", "running") \/ Go("s", "running") \/ Go("k", "killed")

Next == Target \/ Client \/ Halted

\* The same with a client that may send ^C while the program runs
NextWithBreak == Next \/ Interrupt

\* The processor runs and the client reads what it is sent.
Fairness == WF_vars(Target) /\ WF_vars(Receive)

Spec == Init /\ [][Next]_vars
SpecWithBreak == Init /\ [][NextWithBreak]_vars
FairSpec == Spec /\ Fairness

----------------------------------------------------------------------------
(***************************************************************************)
(* Properties                                                              *)
(***************************************************************************)

\* Every variable keeps its type; the reentrancy counter stays within the trap
\* frames there are, and both lines carry only what the two ends send.
TypeOK ==
  /\ mem \in [Addr -> Byte]
  /\ tbl \in [Slots -> BpEntry]
  /\ pc \in Code \cup Inside \cup {Halt}
  /\ tf \in BOOLEAN
  /\ stack \in Seq(Frame)
  /\ gdb_handler_depth \in 0..MaxNest
  /\ {gdb_from_poll, gdb_negotiated} \subseteq BOOLEAN
  /\ rx \in Seq(Packet \cup {Break, Ack})
  /\ tx \in Seq({"T05", "reply"})
  /\ client \in {"idle", "asked", "stopped", "running", "detaching",
                "killed"}
  /\ stepped \in 0..2
  /\ resumed \in {"c", "s", "D", "k"}

\* The target never resumes inside an instruction: a stop at a breakpoint, in
\* whatever order breakpoints come and go, leaves a PC that can be run from.
NeverDerails == pc \notin Inside

\* gdb_handler waits for a packet only while there is a client that holds the
\* target and has the turn to send one, or a message on its way to it that
\* will give it the turn.  Otherwise kernel and client wait for each other.
HandlerWaitsForClient ==
  pc = Serve /\ Packets = {} =>
    client \in {"stopped", "killed"} \/ (tx # <<>> /\ client # "idle")

\* Stop replies go to a client that waits for one, and answers to a client
\* that asked: the two kinds of handler entry are never taken for each other.
RepliesAreExpected ==
  tx # <<>> =>
    /\ Len(tx) = 1
    /\ Head(tx) = "T05" <=> client = "running"

\* gdb-over-serial-reentrancy.md:98: with bp_remove_all first, "reentrancy is
\* prevented" and no depth counter is needed.  It holds for breakpoints in the
\* program, gdb_poll and the entry of gdb_handler; Z0 patches memory at once,
\* so one in the code of the command loop would trap in the handler.
NotReentrant == gdb_handler_depth <= 1 /\ Len(stack) <= 1

\* A step ends after one instruction of the program, in a stop.
StepIsOne == client = "running" /\ resumed = "s" => stepped <= 1

\* Stops, steps and resumes leave the program's own run as it is undebugged.
OwnAddress(e) == IF e \in Inside THEN e - 1 ELSE e
ProgramAt ==
  OwnAddress(IF stack = <<>> THEN pc ELSE stack[Len(stack)].eip)
Undebugged == INSTANCE PollLoop WITH
  at <- ProgramAt, from_poll <- gdb_from_poll
Transparent == Undebugged!Spec

\* A client is never left waiting: a request is answered whatever the program
\* is doing when it arrives and whatever sessions went before, a step is
\* reported, and a detach lets the client go.
ClientIsAnswered ==
  /\ client = "asked" ~> client = "stopped"
  /\ client = "running" /\ resumed = "s" ~> client = "stopped"
  /\ client = "detaching" ~> client = "idle"
=============================================================================
