------------------------------ MODULE TrapFrame ------------------------------
(***************************************************************************)
(* What an exception does with the registers: the interrupt table          *)
(* (gdb-stub/gdb_idt.c), the frame the trampolines build                   *)
(* (gdb-stub/tramp.asm), struct regs over that frame and the g, G and P    *)
(* of gdb_handler (gdb-stub/gdb_stub.c), down to the digits.               *)
(*                                                                         *)
(* A register is a number of BYTES bytes of two digits each.  The stack is *)
(* the words pushed on it, the last one first; ESP is its depth.  Memory,  *)
(* breakpoints and the order of traps are GdbTrap's: here the handler is   *)
(* called, reads and writes its frame, and returns.                        *)
(***************************************************************************)
EXTENDS Integers, SequencesExt

CONSTANTS
  BYTES, DIGIT,       \* 4 bytes of digits below 16 in the code
  STACK_TOP,          \* ESP of an empty stack
  int1_tramp, int3_tramp, default_tramp,   \* addresses
  Vectors,            \* the exceptions that come
  ErrorVectors,       \* those for which the processor pushes an error code
  TF, INTF,             \* the weights of two bits of EFLAGS; 0x100 and 0x200
  CodeSel, DataSels,  \* selectors that can be loaded into CS, into the others
  FirstRegs,          \* the registers of the program when it begins
  Values,             \* what the program and the client write to a register
  MaxWrites           \* bound on the writes of the client, and of the program

Word == 0..((DIGIT * DIGIT) ^ BYTES - 1)
HALF == DIGIT ^ BYTES

\* Mutant of StructRegs: the segment registers behind the general ones.
StructRegsSegmentsLast == <<"edi", "esi", "ebp", "_esp", "ebx", "edx", "ecx", "eax",
                            "ss", "ds", "es", "fs", "gs", "eip", "cs", "eflags">>

StructRegs == <<"ds", "es", "fs", "gs", "ss",
                "edi", "esi", "ebp", "_esp", "ebx", "edx", "ecx", "eax",
                "eip", "cs", "eflags">>
GdbRegs == <<"eax", "ecx", "edx", "ebx", "_esp", "ebp", "esi", "edi",
             "eip", "eflags", "cs", "ss", "ds", "es", "fs", "gs">>
Fields == 1..16
DataSegs == {"ds", "es", "fs", "gs", "ss"}
Regs == {StructRegs[i] : i \in Fields} \ {"_esp"}

ASSUME WidthAssumption == {BYTES, DIGIT} \subseteq Nat \ {0, 1} /\ STACK_TOP \in Word
ASSUME FirstAssumption == FirstRegs \in [Regs -> Word] /\ FirstRegs["cs"] = CodeSel
ASSUME ValuesAssumption == Values \cup DataSels \cup {CodeSel, TF, INTF} \subseteq Word
ASSUME TrampAssumption == {int1_tramp, int3_tramp, default_tramp} \subseteq Word
ASSUME BoundAssumption == MaxWrites \in Nat

VARIABLES
  cpu,      \* the registers but ESP
  stack,
  mode,     \* "program", "tramp" (at the start of one) or "handler"
  reply,    \* the digits of the last g, or nothing
  writes,   \* counts the writes, up to MaxWrites
  \* history variables:
  prog,     \* the registers the program is to run with
  own       \* the program's own stack

vars == <<cpu, stack, mode, reply, writes, prog, own>>

----------------------------------------------------------------------------
(***************************************************************************)
(* The interrupt table                                                     *)
(***************************************************************************)
\* Mutant of set_gate: the high half is not shifted down.
set_gateUnshifted(addr) ==
  [offset_lo |-> addr % HALF, sel |-> CodeSel, offset_hi |-> addr % HALF]

set_gate(addr) ==
  [offset_lo |-> addr % HALF, sel |-> CodeSel, offset_hi |-> (addr \div HALF) % HALF]

gdb_idt_init ==
  [n \in Vectors |-> set_gate(IF n = 1 THEN int1_tramp
                              ELSE IF n = 3 THEN int3_tramp ELSE default_tramp)]

----------------------------------------------------------------------------
(***************************************************************************)
(* The frame.  Pushes puts words on the stack in the order given.          *)
(***************************************************************************)
Pushes(s, words) == Reverse(words) \o s
ESP(s) == (STACK_TOP - BYTES * Len(s)) % ((DIGIT * DIGIT) ^ BYTES)

\* The processor, on exception n with registers c: the gates clear both.
WithBit(v, bit, set) ==
  v - (IF (v \div bit) % 2 = 1 THEN bit ELSE 0) + (IF set THEN bit ELSE 0)

Exception(n, c, s, code) ==
  LET gate == gdb_idt_init[n]
      error == IF n \in ErrorVectors THEN <<code>> ELSE <<>>
  IN  /\ stack' = Pushes(s, <<c["eflags"], c["cs"], c["eip"]>> \o error)
      /\ cpu' = [c EXCEPT !["eflags"] = WithBit(WithBit(@, TF, FALSE), INTF, FALSE),
                          !["cs"] = gate.sel,
                          !["eip"] = gate.offset_lo + HALF * gate.offset_hi]
      /\ mode' = "tramp"

\* pusha and the five pushes, and their counterparts
pusha == <<"eax", "ecx", "edx", "ebx", "_esp", "ebp", "esi", "edi">>
pushSegs == <<"ss", "gs", "fs", "es", "ds">>
popSegs == <<"ds", "es", "fs", "gs", "ss">>

Saved(c, s) ==
  LET before == [reg \in Regs \cup {"_esp"} |-> IF reg = "_esp" THEN ESP(s) ELSE c[reg]]
  IN  Pushes(Pushes(s, [i \in 1..8 |-> before[pusha[i]]]),
             [i \in 1..5 |-> c[pushSegs[i]]])

\* pops, popa (which leaves ESP alone) and iret.  Registers are popped from
\* the top of the stack, in this order:
Popped == popSegs \o Reverse(pusha) \o <<"eip", "cs", "eflags">>

Restored(s) ==
  [reg \in Regs |-> s[CHOOSE i \in Fields : Popped[i] = reg]]

----------------------------------------------------------------------------
(***************************************************************************)
(* gdb_handler on the frame: r points to the top of the stack.             *)
(***************************************************************************)
Field(name) == CHOOSE i \in Fields : StructRegs[i] = name

\* The digits of a word, low byte first, high digit of a byte first
byteOf(v, b) == (v \div (DIGIT * DIGIT) ^ b) % (DIGIT * DIGIT)
hexWord(v) ==
  [k \in 0..(2 * BYTES - 1) |->
     IF k % 2 = 0 THEN byteOf(v, k \div 2) \div DIGIT ELSE byteOf(v, k \div 2) % DIGIT]

\* Mutant of pack_regs: a register's high byte goes first.
pack_regsBigEndian(r) ==
  [i \in Fields |-> LET d == hexWord(r[Field(GdbRegs[i])])
                    IN  [k \in DOMAIN d |-> d[2 * (BYTES - 1 - (k \div 2)) + (k % 2)]]]

\* Sixteen groups of digits
pack_regs(r) == [i \in Fields |-> hexWord(r[Field(GdbRegs[i])])]

\* The word in a group of digits
unhexWord(d) ==
  LET low[b \in 0..BYTES] ==
        IF b = 0 THEN 0
        ELSE low[b - 1] + (d[2 * b - 2] * DIGIT + d[2 * b - 1]) * (DIGIT * DIGIT) ^ (b - 1)
  IN  low[BYTES]

SetField(s, name, v) == [s EXCEPT ![Field(name)] = v]

unpack_regs(d, s) ==
  [f \in DOMAIN s |->
     IF f \in Fields THEN unhexWord(d[CHOOSE i \in Fields : GdbRegs[i] = StructRegs[f]])
     ELSE s[f]]

----------------------------------------------------------------------------
Init ==
  /\ cpu = FirstRegs /\ prog = FirstRegs
  /\ stack = <<0>> /\ own = <<0>>     \* the return address of setup_main
  /\ mode = "program"
  /\ reply = <<>>
  /\ writes = 0

TFSet(c) == (c["eflags"] \div TF) % 2 = 1
Written(reg, v) == [prog EXCEPT ![reg] = v]

\* An instruction of the program changes a register and maybe the stack; with
\* TF set, INT1 follows it.
Run(reg, v, push) ==
  /\ mode = "program"
  /\ writes < MaxWrites
  /\ writes' = writes + 1
  /\ prog' = Written(reg, v)
  /\ own' = IF push THEN <<v>> \o own ELSE own
  /\ IF TFSet(cpu) THEN Exception(1, prog', own', 0)
     ELSE cpu' = prog' /\ stack' = own' /\ UNCHANGED mode
  /\ UNCHANGED reply

\* Any other exception, INT3 among them
Raise(n, code) ==
  /\ mode = "program"
  /\ n # 1
  /\ Exception(n, cpu, stack, code)
  /\ UNCHANGED <<reply, writes, prog, own>>

\* A trampoline up to the call; the C code then uses the registers.
TrampIn ==
  /\ mode = "tramp"
  /\ cpu["eip"] \in {int1_tramp, int3_tramp}
  /\ stack' = Saved(cpu, stack)
  /\ cpu' = [cpu EXCEPT !["eax"] = ESP(stack'), !["ecx"] = 0, !["edx"] = 0]
  /\ mode' = "handler"
  /\ UNCHANGED <<reply, writes, prog, own>>

\* g
ServeRead ==
  /\ mode = "handler"
  /\ reply = <<>>
  /\ reply' = pack_regs(stack)
  /\ UNCHANGED <<cpu, stack, mode, writes, prog, own>>

\* A client writes to a segment register what it can hold.
ClientWrites(reg, v) ==
  /\ mode = "handler"
  /\ writes < MaxWrites
  /\ reg \in DataSegs => v \in DataSels
  /\ reg = "cs" => v = CodeSel
  /\ writes' = writes + 1
  /\ prog' = IF reg = "_esp" THEN prog ELSE Written(reg, v)
  /\ reply' = <<>>
  /\ UNCHANGED <<cpu, mode, own>>

\* P of a register, by its number
ServeWrite(i, v) ==
  /\ ClientWrites(GdbRegs[i], v)
  /\ stack' = SetField(stack, GdbRegs[i], unhexWord(hexWord(v)))

\* G: the client changes one register of what it has read and sends it all.
ServeWriteAll(i, v) ==
  /\ reply # <<>>
  /\ ClientWrites(GdbRegs[i], v)
  /\ stack' = unpack_regs([reply EXCEPT ![i] = hexWord(v)], stack)

\* c and s; then the trampoline from its pops to iret
Resume(step) ==
  LET s == SetField(stack, "eflags", WithBit(stack[Field("eflags")], TF, step))
  IN  /\ mode = "handler"
      /\ cpu' = Restored(s)
      /\ stack' = SubSeq(s, Len(Popped) + 1, Len(s))
      /\ mode' = "program"
      /\ prog' = Written("eflags", WithBit(prog["eflags"], TF, step))
      /\ reply' = <<>>
      /\ UNCHANGED <<writes, own>>

\* A gate nobody has asked for: iret and nothing else
DefaultTramp ==
  /\ mode = "tramp"
  /\ cpu["eip"] = default_tramp
  /\ cpu' = [cpu EXCEPT !["eip"] = stack[1], !["cs"] = stack[2], !["eflags"] = stack[3]]
  /\ stack' = SubSeq(stack, 4, Len(stack))
  /\ mode' = "program"
  /\ UNCHANGED <<reply, writes, prog, own>>

Next ==
  \/ \E reg \in {"eax", "ebp"}, v \in Values, push \in BOOLEAN : Run(reg, v, push)
  \/ \E n \in Vectors, code \in Values : Raise(n, code)
  \/ TrampIn \/ ServeRead
  \/ \E i \in Fields, v \in Values : ServeWrite(i, v) \/ ServeWriteAll(i, v)
  \/ \E step \in BOOLEAN : Resume(step)
  \/ DefaultTramp

Spec == Init /\ [][Next]_vars

----------------------------------------------------------------------------
(***************************************************************************)
(* Properties                                                              *)
(***************************************************************************)

\* Registers and stack hold words, and every exception leads to a trampoline.
TypeOK ==
  /\ cpu \in [Regs -> Word] /\ prog \in [Regs -> Word]
  /\ stack \in Seq(Word) /\ own \in Seq(Word)
  /\ mode \in {"program", "tramp", "handler"}
  /\ mode = "tramp" => cpu["eip"] \in {int1_tramp, int3_tramp, default_tramp}
  /\ reply \in {<<>>} \cup [Fields -> [0..(2 * BYTES - 1) -> 0..(DIGIT - 1)]]
  /\ writes \in 0..MaxWrites

\* gdb-stub_internal.md:98-99: struct regs is "laid out to exactly match" what
\* the trampoline pushed.  What gdb decodes from the answer to a g is every
\* register as the program left it or the client wrote it.  ESP is the one of
\* pusha, three words below the program's (tramp.asm:22-23).
DecodedByGdb(d) ==
  LET value[b \in 0..BYTES] ==     \* x86 registers are little-endian
        IF b = BYTES THEN 0
        ELSE d[2 * b] * DIGIT + d[2 * b + 1] + DIGIT * DIGIT * value[b + 1]
  IN  value[0]

ShowsProgram ==
  reply # <<>> =>
    \A i \in Fields : GdbRegs[i] # "_esp" => DecodedByGdb(reply[i]) = prog[GdbRegs[i]]

\* Whatever exceptions came, whatever the client read and wrote in between, the
\* program runs on with its own registers but for those the client wrote, and
\* with its own stack: a write of ESP is answered OK and has no effect, and an
\* exception without a handler leaves no trace (tramp.asm:85-87).
ResumesAsWritten == mode = "program" => cpu = prog /\ stack = own
=============================================================================
