--------------------------- MODULE TrapFrameProofs ---------------------------
(***************************************************************************)
(* Theorems about TrapFrame, for registers of the code's width: what gdb   *)
(* is shown is what the program has in its registers, and the program runs *)
(* on with exactly those, whatever exceptions come and whatever the client *)
(* writes.                                                                 *)
(***************************************************************************)
EXTENDS TrapFrame, SequenceTheorems, TLAPS

(***************************************************************************)
(* The hypotheses of the theorems                                          *)
(***************************************************************************)

\* The processor of the code: words of four bytes of two hexadecimal digits,
\* TF and IF in their places in EFLAGS.
X86 == BYTES = 4 /\ DIGIT = 16 /\ TF = 256 /\ INTF = 512

\* The exceptions that come have no error code: one that has would leave it on
\* top of the stack, and the iret of default_tramp takes it for EIP.  INT1 has a
\* gate.
NoErrorCodes == ErrorVectors \cap Vectors = {} /\ 1 \in Vectors

(***************************************************************************)
(* The inductive invariant                                                 *)
(***************************************************************************)
\* Once the trampoline has saved the registers, the frame is struct regs over
\* the program's registers, but for the ESP of pusha; under it is the stack of
\* the program.
FRAME == 16
FrameOK ==
  /\ stack \in Seq(Word) /\ Len(stack) = FRAME + Len(own)
  /\ \A f \in Fields : StructRegs[f] # "_esp" => stack[f] = prog[StructRegs[f]]
  /\ \A k \in 1..Len(own) : stack[FRAME + k] = own[k]

\* Before that, the three words that the processor pushes
TrampOK ==
  /\ stack \in Seq(Word) /\ Len(stack) = 3 + Len(own)
  /\ stack[1] = prog["eip"] /\ stack[2] = prog["cs"] /\ stack[3] = prog["eflags"]
  /\ \A k \in 1..Len(own) : stack[3 + k] = own[k]
  /\ cpu["eip"] \in {int1_tramp, int3_tramp, default_tramp}
  /\ \A reg \in Regs \ {"eip", "cs", "eflags"} : cpu[reg] = prog[reg]

IInv ==
  /\ cpu \in [Regs -> Word] /\ prog \in [Regs -> Word] /\ own \in Seq(Word)
  /\ mode \in {"program", "tramp", "handler"}
  /\ mode = "program" => cpu = prog /\ stack = own
  /\ mode = "tramp" => TrampOK
  /\ mode = "handler" => FrameOK
  /\ reply # <<>> => mode = "handler" /\ reply = pack_regs(stack)
  /\ writes \in 0..MaxWrites

(***************************************************************************)
(* Words and their digits                                                  *)
(***************************************************************************)

\* The words of the code
LEMMA WordIs ==
  ASSUME X86, NEW v
  PROVE  v \in Word <=> v \in Nat /\ v < 4294967296
<1> QED BY SMT DEF X86, Word

LEMMA HalfIs ==
  ASSUME X86
  PROVE  HALF = 65536
<1> QED BY SMT DEF X86, HALF

\* The weights of the bytes of a word
LEMMA Weights ==
  ASSUME X86
  PROVE  /\ (DIGIT * DIGIT) ^ 0 = 1 /\ (DIGIT * DIGIT) ^ 1 = 256
         /\ (DIGIT * DIGIT) ^ 2 = 65536 /\ (DIGIT * DIGIT) ^ 3 = 16777216
         /\ DIGIT * DIGIT = 256
<1> QED BY SMT DEF X86

\* The bytes of a word
LEMMA Bytes ==
  ASSUME X86, NEW v \in Word
  PROVE  /\ byteOf(v, 0) = v % 256
         /\ byteOf(v, 1) = (v \div 256) % 256
         /\ byteOf(v, 2) = (v \div 65536) % 256
         /\ byteOf(v, 3) = (v \div 16777216) % 256
<1>1. v \in Nat
  BY WordIs
<1>2. v \div 1 = v
  BY <1>1
<1>3. \A b : byteOf(v, b) = (v \div (DIGIT * DIGIT) ^ b) % (DIGIT * DIGIT)
  BY DEF byteOf
<1>4. byteOf(v, 0) = (v \div 1) % 256
  BY SMT, <1>1, <1>3, Weights
<1>5. byteOf(v, 1) = (v \div 256) % 256
  BY SMT, <1>1, <1>3, Weights
<1>6. byteOf(v, 2) = (v \div 65536) % 256
  BY SMT, <1>1, <1>3, Weights
<1>7. byteOf(v, 3) = (v \div 16777216) % 256
  BY SMT, <1>1, <1>3, Weights
<1> QED BY SMT, <1>2, <1>4, <1>5, <1>6, <1>7

\* A word is its bytes, the low one first.
LEMMA WordOfBytes ==
  ASSUME X86, NEW v \in Word
  PROVE  /\ \A b \in 0..3 : byteOf(v, b) \in 0..255
         /\ v = byteOf(v, 0) + byteOf(v, 1) * 256 + byteOf(v, 2) * 65536
                  + byteOf(v, 3) * 16777216
<1> DEFINE b0 == byteOf(v, 0)
           b1 == byteOf(v, 1)
           b2 == byteOf(v, 2)
           b3 == byteOf(v, 3)
<1>1. v \in Nat /\ v < 4294967296
  BY SMT, WordIs
<1>2. /\ b0 = v % 256 /\ b1 = (v \div 256) % 256
      /\ b2 = (v \div 65536) % 256 /\ b3 = (v \div 16777216) % 256
  BY SMT, Bytes
<1>3. b0 \in 0..255 /\ b1 \in 0..255 /\ b2 \in 0..255 /\ b3 \in 0..255
  BY SMT, <1>1, <1>2
<1>4. v = b0 + b1 * 256 + b2 * 65536 + b3 * 16777216
  <2> DEFINE q1 == v \div 256
             q2 == v \div 65536
             q3 == v \div 16777216
  <2>1. q1 \in Nat /\ v = 256 * q1 + (v % 256)
    BY SMT, <1>1
  <2>2. q2 \in Nat /\ q1 = 256 * q2 + (q1 % 256)
    BY SMT, <1>1
  <2>3. q3 \in 0..255 /\ q2 = 256 * q3 + (q2 % 256)
    BY SMT, <1>1
  <2>4. b0 = v % 256 /\ b1 = q1 % 256 /\ b2 = q2 % 256 /\ b3 = q3 % 256
    BY <1>2
  <2> HIDE DEF q1, q2, q3, b0, b1, b2, b3
  <2>5. b3 = q3
    BY SMT, <2>3, <2>4
  <2> QED BY SMT, <1>1, <1>3, <2>1, <2>2, <2>3, <2>4, <2>5
<1> QED BY SMT, <1>3, <1>4

\* Its digits, in the order they are sent
LEMMA Digits ==
  ASSUME X86, NEW v \in Word
  PROVE  /\ hexWord(v) \in [0..7 -> 0..15]
         /\ \A b \in 0..3 : hexWord(v)[2 * b] * 16 + hexWord(v)[2 * b + 1] = byteOf(v, b)
<1> DEFINE h == hexWord(v)
<1>1. h = [k \in 0..7 |-> IF k % 2 = 0 THEN byteOf(v, k \div 2) \div 16
                                       ELSE byteOf(v, k \div 2) % 16]
  BY SMT DEF hexWord, X86
<1>2. \A b \in 0..3 : byteOf(v, b) \in 0..255
  BY SMT, WordOfBytes
<1>3. \A k \in 0..7 : k \div 2 \in 0..3
  BY SMT
<1>4. ASSUME NEW x \in 0..255
      PROVE  x \div 16 \in 0..15 /\ x % 16 \in 0..15 /\ (x \div 16) * 16 + (x % 16) = x
  BY SMT
<1>5. h \in [0..7 -> 0..15]
  BY SMT, <1>1, <1>2, <1>3, <1>4
<1>6. ASSUME NEW b \in 0..3 PROVE h[2 * b] * 16 + h[2 * b + 1] = byteOf(v, b)
  <2>1. /\ 2 * b \in 0..7 /\ (2 * b) % 2 = 0 /\ (2 * b) \div 2 = b
        /\ 2 * b + 1 \in 0..7 /\ (2 * b + 1) % 2 = 1 /\ (2 * b + 1) \div 2 = b
    BY SMT
  <2>2. h[2 * b] = byteOf(v, b) \div 16 /\ h[2 * b + 1] = byteOf(v, b) % 16
    BY SMT, <1>1, <2>1
  <2> QED BY SMT, <1>2, <1>4, <2>2
<1> QED BY SMT, <1>5, <1>6

\* The number that unhexWord adds up
LEMMA UnhexIs ==
  ASSUME X86, NEW d \in [0..7 -> 0..15]
  PROVE  unhexWord(d) = (d[0] * 16 + d[1]) + (d[2] * 16 + d[3]) * 256
                          + (d[4] * 16 + d[5]) * 65536 + (d[6] * 16 + d[7]) * 16777216
<1> DEFINE Step(low, b) ==
             IF b = 0 THEN 0
             ELSE low[b - 1] + (d[2 * b - 2] * DIGIT + d[2 * b - 1]) * (DIGIT * DIGIT) ^ (b - 1)
           low == CHOOSE f : f = [b \in 0..BYTES |-> Step(f, b)]
           x0 == d[0] * 16 + d[1]
           x1 == d[2] * 16 + d[3]
           x2 == d[4] * 16 + d[5]
           x3 == d[6] * 16 + d[7]
           y2 == x0 + x1 * 256
           y3 == y2 + x2 * 65536
           y4 == y3 + x3 * 16777216
           g == [b \in 0..4 |-> IF b = 0 THEN 0 ELSE IF b = 1 THEN x0 ELSE IF b = 2 THEN y2
                                ELSE IF b = 3 THEN y3 ELSE y4]
<1>1. /\ x0 \in 0..255 /\ x1 \in 0..255 /\ x2 \in 0..255 /\ x3 \in 0..255
      /\ y2 \in Nat /\ y3 \in Nat /\ y4 \in Nat
  <2>1. \A k \in 0..7 : d[k] \in 0..15
    OBVIOUS
  <2>2. x0 \in 0..255 /\ x1 \in 0..255 /\ x2 \in 0..255 /\ x3 \in 0..255
    BY SMT, <2>1
  <2> HIDE DEF x0, x1, x2, x3
  <2>3. y2 \in Nat
    BY SMT, <2>2
  <2>4. y3 \in Nat
    BY SMT, <2>2, <2>3
  <2>5. y4 \in Nat
    BY SMT, <2>2, <2>4
  <2> QED BY <2>2, <2>3, <2>4, <2>5
<1>2. /\ Step(g, 0) = 0 /\ Step(g, 1) = x0 /\ Step(g, 2) = y2 /\ Step(g, 3) = y3
      /\ Step(g, 4) = y4
  <2>1. 256 ^ 0 = 1 /\ 256 ^ 1 = 256 /\ 256 ^ 2 = 65536 /\ 256 ^ 3 = 16777216 /\ 16 * 16 = 256
    BY SMT
  <2>2. g[0] = 0 /\ g[1] = x0 /\ g[2] = y2 /\ g[3] = y3
    BY SMT
  <2>3. Step(g, 1) = 0 + x0 * 1
    BY SMT, <2>1, <2>2 DEF X86
  <2>4. Step(g, 2) = x0 + x1 * 256
    BY SMT, <2>1, <2>2 DEF X86
  <2>5. Step(g, 3) = y2 + x2 * 65536
    BY SMT, <2>1, <2>2 DEF X86
  <2>6. Step(g, 4) = y3 + x3 * 16777216
    BY SMT, <2>1, <2>2 DEF X86
  <2> QED BY SMT, <1>1, <2>3, <2>4, <2>5, <2>6
<1>3. g = [b \in 0..BYTES |-> Step(g, b)]
  <2>1. BYTES = 4 /\ \A b \in 0..4 : b = 0 \/ b = 1 \/ b = 2 \/ b = 3 \/ b = 4
    BY SMT DEF X86
  <2>2. ASSUME NEW b \in 0..4 PROVE g[b] = Step(g, b)
    <3>1. g[0] = 0 /\ g[1] = x0 /\ g[2] = y2 /\ g[3] = y3 /\ g[4] = y4
      BY SMT
    <3> HIDE DEF g, Step
    <3> QED BY SMT, <1>2, <2>1, <3>1
  <2>3. g = [b \in 0..4 |-> g[b]]
    BY SMT
  <2> HIDE DEF g, Step
  <2> QED BY SMT, <2>1, <2>2, <2>3
<1>4. low = [b \in 0..BYTES |-> Step(low, b)]
  <2> HIDE DEF g
  <2>1. \E f : f = [b \in 0..BYTES |-> Step(f, b)]
    BY Zenon, <1>3
  <2> QED BY Zenon, <2>1
<1>5. unhexWord(d) = low[4]
  BY SMT DEF unhexWord, X86
<1> HIDE DEF low, x0, x1, x2, x3
<1>6. /\ low[0] = Step(low, 0) /\ low[1] = Step(low, 1) /\ low[2] = Step(low, 2)
      /\ low[3] = Step(low, 3) /\ low[4] = Step(low, 4)
  BY SMT, <1>4 DEF X86
<1>7. 256 ^ 0 = 1 /\ 256 ^ 1 = 256 /\ 256 ^ 2 = 65536 /\ 256 ^ 3 = 16777216 /\ 16 * 16 = 256
  BY SMT
<1>8. low[0] = 0
  BY SMT, <1>6
<1>9. low[1] = x0
  <2>1. low[1] = low[0] + x0 * 1
    BY SMT, <1>6, <1>7 DEF X86, x0
  <2> QED BY SMT, <1>1, <1>8, <2>1
<1>10. low[2] = y2
  <2>1. low[2] = low[1] + x1 * 256
    BY SMT, <1>6, <1>7 DEF X86, x1
  <2> QED BY SMT, <1>9, <2>1
<1>11. low[3] = y3
  <2>1. low[3] = low[2] + x2 * 65536
    BY SMT, <1>6, <1>7 DEF X86, x2
  <2> QED BY SMT, <1>10, <2>1
<1>12. low[4] = y4
  <2>1. low[4] = low[3] + x3 * 16777216
    BY SMT, <1>6, <1>7 DEF X86, x3
  <2> QED BY SMT, <1>11, <2>1
<1> QED BY SMT, <1>5, <1>12 DEF x0, x1, x2, x3

\* The number that gdb reads, the high byte first
LEMMA DecodedIs ==
  ASSUME X86, NEW d \in [0..7 -> 0..15]
  PROVE  DecodedByGdb(d) = (d[0] * 16 + d[1]) + 256 * ((d[2] * 16 + d[3])
                             + 256 * ((d[4] * 16 + d[5]) + 256 * (d[6] * 16 + d[7])))
<1> DEFINE Step(value, b) ==
             IF b = BYTES THEN 0
             ELSE d[2 * b] * DIGIT + d[2 * b + 1] + DIGIT * DIGIT * value[b + 1]
           value == CHOOSE f : f = [b \in 0..BYTES |-> Step(f, b)]
           x0 == d[0] * 16 + d[1]
           x1 == d[2] * 16 + d[3]
           x2 == d[4] * 16 + d[5]
           x3 == d[6] * 16 + d[7]
           y2 == x2 + 256 * x3
           y1 == x1 + 256 * y2
           y0 == x0 + 256 * y1
           g == [b \in 0..4 |-> IF b = 0 THEN y0 ELSE IF b = 1 THEN y1 ELSE IF b = 2 THEN y2
                                ELSE IF b = 3 THEN x3 ELSE 0]
<1>1. /\ x0 \in Nat /\ x1 \in Nat /\ x2 \in Nat /\ x3 \in Nat
      /\ y2 \in Nat /\ y1 \in Nat /\ y0 \in Nat
  <2>1. \A k \in 0..7 : d[k] \in 0..15
    OBVIOUS
  <2>2. x0 \in Nat /\ x1 \in Nat /\ x2 \in Nat /\ x3 \in Nat
    BY SMT, <2>1
  <2> HIDE DEF x0, x1, x2, x3
  <2>3. y2 \in Nat
    BY SMT, <2>2
  <2>4. y1 \in Nat
    BY SMT, <2>2, <2>3
  <2>5. y0 \in Nat
    BY SMT, <2>2, <2>4
  <2> QED BY <2>2, <2>3, <2>4, <2>5
<1>2. /\ Step(g, 4) = 0 /\ Step(g, 3) = x3 /\ Step(g, 2) = y2 /\ Step(g, 1) = y1
      /\ Step(g, 0) = y0
  <2>1. g[4] = 0 /\ g[3] = x3 /\ g[2] = y2 /\ g[1] = y1
    BY SMT
  <2>2. Step(g, 3) = x3 + 256 * 0
    BY SMT, <2>1 DEF X86
  <2>3. Step(g, 2) = x2 + 256 * x3
    BY SMT, <2>1 DEF X86
  <2>4. Step(g, 1) = x1 + 256 * y2
    BY SMT, <2>1 DEF X86
  <2>5. Step(g, 0) = x0 + 256 * y1
    BY SMT, <2>1 DEF X86
  <2>6. Step(g, 4) = 0
    BY SMT DEF X86
  <2> QED BY SMT, <1>1, <2>2, <2>3, <2>4, <2>5, <2>6
<1>3. g = [b \in 0..BYTES |-> Step(g, b)]
  <2>1. BYTES = 4 /\ \A b \in 0..4 : b = 0 \/ b = 1 \/ b = 2 \/ b = 3 \/ b = 4
    BY SMT DEF X86
  <2>2. ASSUME NEW b \in 0..4 PROVE g[b] = Step(g, b)
    <3>1. g[0] = y0 /\ g[1] = y1 /\ g[2] = y2 /\ g[3] = x3 /\ g[4] = 0
      BY SMT
    <3> HIDE DEF g, Step
    <3> QED BY SMT, <1>2, <2>1, <3>1
  <2>3. g = [b \in 0..4 |-> g[b]]
    BY SMT
  <2> HIDE DEF g, Step
  <2> QED BY SMT, <2>1, <2>2, <2>3
<1>4. value = [b \in 0..BYTES |-> Step(value, b)]
  <2> HIDE DEF g
  <2>1. \E f : f = [b \in 0..BYTES |-> Step(f, b)]
    BY Zenon, <1>3
  <2> QED BY Zenon, <2>1
<1>5. DecodedByGdb(d) = value[0]
  BY SMT DEF DecodedByGdb
<1> HIDE DEF value, x0, x1, x2, x3
<1>6. /\ value[0] = Step(value, 0) /\ value[1] = Step(value, 1) /\ value[2] = Step(value, 2)
      /\ value[3] = Step(value, 3) /\ value[4] = Step(value, 4)
  BY SMT, <1>4 DEF X86
<1>7. value[4] = 0
  BY SMT, <1>6 DEF X86
<1>8. value[3] = x3
  <2>1. value[3] = x3 + 256 * value[4]
    BY SMT, <1>6 DEF X86, x3
  <2> QED BY SMT, <1>1, <1>7, <2>1
<1>9. value[2] = y2
  <2>1. value[2] = x2 + 256 * value[3]
    BY SMT, <1>6 DEF X86, x2
  <2> QED BY <1>8, <2>1
<1>10. value[1] = y1
  <2>1. value[1] = x1 + 256 * value[2]
    BY SMT, <1>6 DEF X86, x1
  <2> QED BY <1>9, <2>1
<1>11. value[0] = y0
  <2>1. value[0] = x0 + 256 * value[1]
    BY SMT, <1>6 DEF X86, x0
  <2> QED BY <1>10, <2>1
<1> QED BY SMT, <1>5, <1>11 DEF x0, x1, x2, x3

\* Both read the word that hexWord wrote (hex_byte, v2h, h2v).
LEMMA RoundTrip ==
  ASSUME X86, NEW v \in Word
  PROVE  unhexWord(hexWord(v)) = v /\ DecodedByGdb(hexWord(v)) = v
<1> DEFINE d == hexWord(v)
           b0 == byteOf(v, 0)
           b1 == byteOf(v, 1)
           b2 == byteOf(v, 2)
           b3 == byteOf(v, 3)
<1>1. d \in [0..7 -> 0..15]
  BY Digits
<1>2. /\ d[0] * 16 + d[1] = b0 /\ d[2] * 16 + d[3] = b1
      /\ d[4] * 16 + d[5] = b2 /\ d[6] * 16 + d[7] = b3
  <2>1. \A b \in 0..3 : d[2 * b] * 16 + d[2 * b + 1] = byteOf(v, b)
    BY Digits
  <2> HIDE DEF d
  <2>2. d[2 * 0] * 16 + d[2 * 0 + 1] = b0
    BY SMT, <2>1
  <2>3. d[2 * 1] * 16 + d[2 * 1 + 1] = b1
    BY SMT, <2>1
  <2>4. d[2 * 2] * 16 + d[2 * 2 + 1] = b2
    BY SMT, <2>1
  <2>5. d[2 * 3] * 16 + d[2 * 3 + 1] = b3
    BY SMT, <2>1
  <2>6. /\ 2 * 0 = 0 /\ 2 * 0 + 1 = 1 /\ 2 * 1 = 2 /\ 2 * 1 + 1 = 3
        /\ 2 * 2 = 4 /\ 2 * 2 + 1 = 5 /\ 2 * 3 = 6 /\ 2 * 3 + 1 = 7
    BY SMT
  <2> QED BY SMT, <2>2, <2>3, <2>4, <2>5, <2>6
<1>3. /\ b0 \in Nat /\ b1 \in Nat /\ b2 \in Nat /\ b3 \in Nat
      /\ v = b0 + b1 * 256 + b2 * 65536 + b3 * 16777216
  BY SMT, WordOfBytes
<1> HIDE DEF d, b0, b1, b2, b3
<1>4. unhexWord(d) = b0 + b1 * 256 + b2 * 65536 + b3 * 16777216
  BY SMT, <1>1, <1>2, UnhexIs
<1>5. DecodedByGdb(d) = b0 + 256 * (b1 + 256 * (b2 + 256 * b3))
  BY SMT, <1>1, <1>2, DecodedIs
<1>6. b0 + 256 * (b1 + 256 * (b2 + 256 * b3)) = b0 + b1 * 256 + b2 * 65536 + b3 * 16777216
  BY SMT, <1>3
<1> QED BY <1>3, <1>4, <1>5, <1>6 DEF d

\* A gate leads where set_gate was told to.
LEMMA GateLeads ==
  ASSUME X86, NEW addr \in Word
  PROVE  set_gate(addr).offset_lo + HALF * set_gate(addr).offset_hi = addr
<1>1. addr \in Nat /\ addr < 4294967296
  BY WordIs
<1>2. addr \div 65536 \in Nat /\ addr \div 65536 < 65536
  BY SMT, <1>1
<1>3. (addr % 65536) + 65536 * ((addr \div 65536) % 65536) = addr
  <2> DEFINE q == addr \div 65536
  <2>1. (addr % 65536) + 65536 * q = addr
    BY SMT, <1>1
  <2> HIDE DEF q
  <2>2. q % 65536 = q
    BY SMT, <1>2 DEF q
  <2> QED BY SMT, <2>1, <2>2 DEF q
<1> QED BY SMT, <1>3, HalfIs DEF set_gate

\* Setting or clearing TF or IF leaves a word.
LEMMA BitIsWord ==
  ASSUME X86, NEW v \in Word, NEW bit \in {TF, INTF}, NEW set \in BOOLEAN
  PROVE  WithBit(v, bit, set) \in Word
<1>1. v \in Nat /\ v < 4294967296
  BY WordIs
<1>2. bit = 256 \/ bit = 512
  BY DEF X86
<1> DEFINE q == v \div bit
<1>3. CASE bit = 256
  <2>1. q \in Nat /\ v = 256 * q + (v % 256) /\ v % 256 \in 0..255 /\ q < 16777216
    BY SMT, <1>1, <1>3
  <2>2. q % 2 = 1 => v >= 256
    BY SMT, <1>1, <2>1
  <2>3. q % 2 # 1 => v + 256 < 4294967296
    <3> HIDE DEF q
    <3>1. q % 2 # 1 => q + 1 < 16777216
      BY SMT, <2>1
    <3> QED BY SMT, <1>1, <2>1, <3>1
  <2>4. WithBit(v, bit, set) \in Nat /\ WithBit(v, bit, set) < 4294967296
    BY SMT, <1>1, <1>3, <2>2, <2>3 DEF WithBit
  <2> QED BY <2>4, WordIs
<1>4. CASE bit = 512
  <2>1. q \in Nat /\ v = 512 * q + (v % 512) /\ v % 512 \in 0..511 /\ q < 8388608
    BY SMT, <1>1, <1>4
  <2>2. q % 2 = 1 => v >= 512
    BY SMT, <1>1, <2>1
  <2>3. q % 2 # 1 => v + 512 < 4294967296
    <3> HIDE DEF q
    <3>1. q % 2 # 1 => q + 1 < 8388608
      BY SMT, <2>1
    <3> QED BY SMT, <1>1, <2>1, <3>1
  <2>4. WithBit(v, bit, set) \in Nat /\ WithBit(v, bit, set) < 4294967296
    BY SMT, <1>1, <1>4, <2>2, <2>3 DEF WithBit
  <2> QED BY <2>4, WordIs
<1> QED BY <1>2, <1>3, <1>4

(***************************************************************************)
(* The registers and where the frame has them                              *)
(***************************************************************************)

\* Where GdbRegs finds a register in struct regs
Place == <<13, 12, 11, 10, 9, 8, 7, 6, 14, 16, 15, 5, 1, 2, 3, 4>>

\* The sixteen fields
LEMMA FieldIsOneOf ==
  \A k \in Fields : \/ k = 1 \/ k = 2 \/ k = 3 \/ k = 4 \/ k = 5 \/ k = 6 \/ k = 7 \/ k = 8
                    \/ k = 9 \/ k = 10 \/ k = 11 \/ k = 12 \/ k = 13 \/ k = 14 \/ k = 15
                    \/ k = 16
<1> QED BY DEF Fields

\* The names of struct regs differ.
LEMMA NamesDiffer ==
  ASSUME NEW f \in Fields, NEW g \in Fields, StructRegs[f] = StructRegs[g]
  PROVE  f = g
<1> QED BY FieldIsOneOf DEF StructRegs

\* GdbRegs has the names of struct regs, in another order.
LEMMA GdbNames ==
  ASSUME NEW i \in Fields
  PROVE  Place[i] \in Fields /\ StructRegs[Place[i]] = GdbRegs[i]
<1> QED BY FieldIsOneOf DEF StructRegs, GdbRegs, Place, Fields

\* The field of a name
LEMMA FieldIs ==
  ASSUME NEW f \in Fields
  PROVE  Field(StructRegs[f]) = f
<1>1. \E k \in Fields : StructRegs[k] = StructRegs[f]
  OBVIOUS
<1> QED BY <1>1, NamesDiffer DEF Field

LEMMA FieldOfGdb ==
  ASSUME NEW i \in Fields
  PROVE  Field(GdbRegs[i]) \in Fields /\ StructRegs[Field(GdbRegs[i])] = GdbRegs[i]
<1> QED BY GdbNames, FieldIs

\* Every name of struct regs is one of GdbRegs.
LEMMA GdbHasAll ==
  ASSUME NEW f \in Fields
  PROVE  \E i \in Fields : GdbRegs[i] = StructRegs[f]
<1> DEFINE Inv == <<13, 14, 15, 16, 12, 8, 7, 6, 5, 4, 3, 2, 1, 9, 11, 10>>
<1>2. Inv[f] \in Fields /\ GdbRegs[Inv[f]] = StructRegs[f]
  BY FieldIsOneOf DEF StructRegs, GdbRegs, Fields
<1> QED BY <1>2

\* The names that Regs takes from the table
LEMMA RegNames ==
  /\ \A f \in Fields : StructRegs[f] # "_esp" => StructRegs[f] \in Regs
  /\ {"eflags", "cs", "eip", "eax", "ecx", "edx", "ebx", "ebp", "esi", "edi"} \subseteq Regs
  /\ DataSegs \subseteq Regs
  /\ \A reg \in Regs : \E f \in Fields : StructRegs[f] = reg /\ reg # "_esp"
<1>1. \A f \in Fields : StructRegs[f] # "_esp" => StructRegs[f] \in Regs
  BY DEF Regs
<1>2. 1..16 = Fields /\ \A k \in 1..16 : k \in Fields
  BY DEF Fields
<1>3. {"eflags", "cs", "eip", "eax", "ecx", "edx", "ebx", "ebp", "esi", "edi"} \subseteq Regs
  <2>1. /\ StructRegs[16] = "eflags" /\ StructRegs[15] = "cs" /\ StructRegs[14] = "eip"
        /\ StructRegs[13] = "eax" /\ StructRegs[12] = "ecx" /\ StructRegs[11] = "edx"
        /\ StructRegs[10] = "ebx" /\ StructRegs[8] = "ebp" /\ StructRegs[7] = "esi"
        /\ StructRegs[6] = "edi"
    BY DEF StructRegs
  <2>2. /\ "eflags" # "_esp" /\ "cs" # "_esp" /\ "eip" # "_esp" /\ "eax" # "_esp"
        /\ "ecx" # "_esp" /\ "edx" # "_esp" /\ "ebx" # "_esp" /\ "ebp" # "_esp"
        /\ "esi" # "_esp" /\ "edi" # "_esp"
    OBVIOUS
  <2>3. /\ 16 \in Fields /\ 15 \in Fields /\ 14 \in Fields /\ 13 \in Fields /\ 12 \in Fields
        /\ 11 \in Fields /\ 10 \in Fields /\ 8 \in Fields /\ 7 \in Fields /\ 6 \in Fields
    BY DEF Fields
  <2>4. /\ "eflags" \in Regs /\ "cs" \in Regs /\ "eip" \in Regs /\ "eax" \in Regs
        /\ "ecx" \in Regs /\ "edx" \in Regs /\ "ebx" \in Regs /\ "ebp" \in Regs
        /\ "esi" \in Regs /\ "edi" \in Regs
    BY <1>1, <2>1, <2>2, <2>3
  <2> QED BY <2>4
<1>4. DataSegs \subseteq Regs
  <2>1. /\ StructRegs[1] = "ds" /\ StructRegs[2] = "es" /\ StructRegs[3] = "fs"
        /\ StructRegs[4] = "gs" /\ StructRegs[5] = "ss"
    BY DEF StructRegs
  <2>2. 1 \in Fields /\ 2 \in Fields /\ 3 \in Fields /\ 4 \in Fields /\ 5 \in Fields
    BY DEF Fields
  <2> QED BY <1>1, <2>1, <2>2 DEF DataSegs
<1>5. \A reg \in Regs : \E f \in Fields : StructRegs[f] = reg /\ reg # "_esp"
  BY DEF Regs
<1> QED BY <1>1, <1>3, <1>4, <1>5

\* gdb_stub.h:10-25 against tramp.asm: the trampoline pops registers in the
\* order of struct regs, and puts the general ones where they were pushed.
LEMMA PopsStructRegs ==
  Popped = StructRegs
<1>1. Reverse(pusha) = <<"edi", "esi", "ebp", "_esp", "ebx", "edx", "ecx", "eax">>
  <2> DEFINE r == <<"edi", "esi", "ebp", "_esp", "ebx", "edx", "ecx", "eax">>
  <2>1. Len(pusha) = 8 /\ Reverse(pusha) = [i \in 1..8 |-> pusha[8 - i + 1]]
    BY DEF Reverse, pusha
  <2>2. \A i \in 1..8 : pusha[8 - i + 1] = r[i]
    <3>1. \A k \in 1..8 : \/ k = 1 \/ k = 2 \/ k = 3 \/ k = 4 \/ k = 5 \/ k = 6 \/ k = 7 \/ k = 8
      OBVIOUS
    <3> QED BY <3>1 DEF pusha
  <2>3. r = [i \in 1..8 |-> r[i]]
    OBVIOUS
  <2> HIDE DEF r
  <2>4. Reverse(pusha) = r
    BY <2>1, <2>2, <2>3
  <2> QED BY <2>4 DEF r
<1> DEFINE a == popSegs
           r == <<"edi", "esi", "ebp", "_esp", "ebx", "edx", "ecx", "eax">>
           t == <<"eip", "cs", "eflags">>
           p == (a \o r) \o t
           S == {a[i] : i \in 1..5} \cup {r[i] : i \in 1..8} \cup {t[i] : i \in 1..3}
<1>2. a \in Seq(S) /\ r \in Seq(S) /\ t \in Seq(S) /\ Len(a) = 5 /\ Len(r) = 8 /\ Len(t) = 3
  <2>1. /\ a = [i \in 1..5 |-> a[i]] /\ r = [i \in 1..8 |-> r[i]] /\ t = [i \in 1..3 |-> t[i]]
        /\ Len(a) = 5 /\ Len(r) = 8 /\ Len(t) = 3
    BY DEF popSegs
  <2> HIDE DEF a, r, t
  <2>2. a \in [1..5 -> S] /\ r \in [1..8 -> S] /\ t \in [1..3 -> S]
    BY <2>1
  <2> HIDE DEF S
  <2>3. \A n \in Nat : \A f \in [1..n -> S] : f \in Seq(S)
    OBVIOUS
  <2> QED BY <2>1, <2>2, <2>3
<1>3. /\ p \in Seq(S) /\ Len(p) = 16
      /\ \A i \in 1..16 : p[i] = IF i <= 5 THEN a[i] ELSE IF i <= 13 THEN r[i - 5] ELSE t[i - 13]
  <2>1. PICK m \in Nat, n \in Nat, k \in Nat, mn \in Nat, l \in Nat :
            m = 5 /\ n = 8 /\ k = 3 /\ mn = m + n /\ l = mn + k /\ mn = 13 /\ l = 16
    OBVIOUS
  <2> DEFINE ar == a \o r
  <2>2. a \in Seq(S) /\ r \in Seq(S) /\ t \in Seq(S) /\ Len(a) = m /\ Len(r) = n /\ Len(t) = k
    BY <1>2, <2>1
  <2> HIDE DEF a, r, t, S, p
  <2>3. ar \in Seq(S) /\ Len(ar) = m + n
    BY <2>2
  <2>4. \A i \in 1..(m + n) : ar[i] = IF i <= m THEN a[i] ELSE r[i - m]
    BY <2>2
  <2>5. ar \in Seq(S) /\ Len(ar) = mn
    BY <2>1, <2>3
  <2> HIDE DEF ar
  <2>6. ar \o t \in Seq(S) /\ Len(ar \o t) = mn + k
    BY <2>2, <2>5
  <2>7. \A i \in 1..(mn + k) : (ar \o t)[i] = IF i <= mn THEN ar[i] ELSE t[i - mn]
    <3>1. \A i \in 1..(Len(ar) + Len(t)) :
            (ar \o t)[i] = IF i <= Len(ar) THEN ar[i] ELSE t[i - Len(ar)]
      <4>1. ar \in Seq(S) /\ t \in Seq(S)
        BY <2>2, <2>5
      <4> QED BY <4>1
    <3> QED BY <3>1, <2>2, <2>5, Zenon
  <2>8. p = ar \o t
    BY DEF p, ar
  <2>9. p \in Seq(S) /\ Len(p) = 16
    BY <2>1, <2>6, <2>8
  <2>10. ASSUME NEW i \in 1..16
         PROVE  p[i] = IF i <= 5 THEN a[i] ELSE IF i <= 13 THEN r[i - 5] ELSE t[i - 13]
    <3>1. p[i] = IF i <= 13 THEN ar[i] ELSE t[i - 13]
      BY <2>1, <2>7, <2>8
    <3>2. i <= 13 => ar[i] = IF i <= 5 THEN a[i] ELSE r[i - 5]
      BY <2>1, <2>4
    <3>3. i <= 5 => i <= 13
      OBVIOUS
    <3> QED BY <3>1, <3>2, <3>3
  <2> QED BY <2>9, <2>10
<1>4. ASSUME NEW i \in 1..16 PROVE p[i] = StructRegs[i]
  <2>1. \/ i = 1 \/ i = 2 \/ i = 3 \/ i = 4 \/ i = 5 \/ i = 6 \/ i = 7 \/ i = 8
        \/ i = 9 \/ i = 10 \/ i = 11 \/ i = 12 \/ i = 13 \/ i = 14 \/ i = 15 \/ i = 16
    OBVIOUS
  <2> HIDE DEF p
  <2>2. p[i] = IF i <= 5 THEN a[i] ELSE IF i <= 13 THEN r[i - 5] ELSE t[i - 13]
    BY <1>3
  <2> QED BY <2>1, <2>2 DEF popSegs, StructRegs
<1>5. StructRegs = [i \in 1..16 |-> StructRegs[i]]
  BY DEF StructRegs
<1>6. p = [i \in 1..16 |-> p[i]]
  <2> HIDE DEF p, S
  <2> QED BY <1>3
<1>7. p = StructRegs
  <2> HIDE DEF p
  <2> QED BY <1>4, <1>5, <1>6
<1> QED BY <1>1, <1>7 DEF Popped

(***************************************************************************)
(* The stack                                                               *)
(***************************************************************************)

\* What a push of several words leaves: they, the last one first, over what
\* was there.
LEMMA PushesIs ==
  ASSUME NEW s \in Seq(Word), NEW w \in Seq(Word)
  PROVE  /\ Pushes(s, w) \in Seq(Word) /\ Len(Pushes(s, w)) = Len(w) + Len(s)
         /\ \A i \in 1..Len(w) : Pushes(s, w)[i] = w[Len(w) - i + 1]
         /\ \A k \in 1..Len(s) : Pushes(s, w)[Len(w) + k] = s[k]
<1> DEFINE r == Reverse(w)
<1>1. r \in Seq(Word) /\ Len(r) = Len(w) /\ \A i \in 1..Len(w) : r[i] = w[Len(w) - i + 1]
  <2>1. r = [i \in 1..Len(w) |-> w[Len(w) - i + 1]]
    BY DEF Reverse
  <2>2. \A i \in 1..Len(w) : Len(w) - i + 1 \in 1..Len(w)
    OBVIOUS
  <2>3. Len(w) \in Nat /\ \A i \in 1..Len(w) : w[i] \in Word
    OBVIOUS
  <2> HIDE DEF r
  <2> QED BY <2>1, <2>2, <2>3
<1>2. Pushes(s, w) = r \o s
  BY DEF Pushes
<1> HIDE DEF r
<1>3. /\ r \o s \in Seq(Word) /\ Len(r \o s) = Len(w) + Len(s)
      /\ \A i \in 1..Len(w) : (r \o s)[i] = r[i]
      /\ \A k \in 1..Len(s) : (r \o s)[Len(w) + k] = s[k]
  <2>1. \A i \in 1..(Len(r) + Len(s)) :
          (r \o s)[i] = IF i <= Len(r) THEN r[i] ELSE s[i - Len(r)]
    BY <1>1
  <2>2. r \o s \in Seq(Word) /\ Len(r \o s) = Len(w) + Len(s)
    <3>1. r \in Seq(Word)
      BY <1>1
    <3>2. r \o s \in Seq(Word) /\ Len(r \o s) = Len(r) + Len(s)
      BY <3>1
    <3> QED BY <1>1, <3>2
  <2> QED BY <1>1, <2>1, <2>2
<1> QED BY <1>1, <1>2, <1>3

\* Names of eight and five registers, in the order of their pushes
LEMMA PushedNames ==
  /\ \A j \in 1..8 : pusha[8 - j + 1] = StructRegs[5 + j]
  /\ \A j \in 1..5 : pushSegs[5 - j + 1] = StructRegs[j]
<1>1. \A j \in 1..8 : j = 1 \/ j = 2 \/ j = 3 \/ j = 4 \/ j = 5 \/ j = 6 \/ j = 7 \/ j = 8
  OBVIOUS
<1>2. \A j \in 1..5 : j = 1 \/ j = 2 \/ j = 3 \/ j = 4 \/ j = 5
  OBVIOUS
<1>3. \A j \in 1..8 : pusha[8 - j + 1] = StructRegs[5 + j]
  BY <1>1 DEF pusha, StructRegs
<1>4. \A j \in 1..5 : pushSegs[5 - j + 1] = StructRegs[j]
  BY <1>2 DEF pushSegs, StructRegs
<1> QED BY <1>3, <1>4

\* ESP is a word, however deep the stack.
LEMMA ESPWord ==
  ASSUME X86, NEW s \in Seq(Word)
  PROVE  ESP(s) \in Word
<1>1. STACK_TOP \in Nat
  BY WidthAssumption, WordIs
<1>2. PICK x \in Int : x = STACK_TOP - BYTES * Len(s)
  <2>1. PICK l \in Nat : l = Len(s)
    OBVIOUS
  <2>2. PICK y \in Int : y = STACK_TOP - 4 * l
    BY <1>1
  <2> QED BY <2>1, <2>2 DEF X86
<1>3. ESP(s) = x % ((DIGIT * DIGIT) ^ BYTES)
  BY <1>2 DEF ESP
<1>4. ESP(s) = x % 4294967296
  <2>1. (DIGIT * DIGIT) ^ BYTES = 4294967296
    BY SMT DEF X86
  <2> QED BY SMT, <1>3, <2>1
<1>5. ESP(s) \in Nat /\ ESP(s) < 4294967296
  BY SMT, <1>4
<1> QED BY SMT, <1>5, WordIs

\* tramp.asm:18-40: what the trampoline saves is struct regs but for the three
\* words of the processor, which are below.
LEMMA SavedIs ==
  ASSUME X86, NEW c \in [Regs -> Word], NEW s \in Seq(Word)
  PROVE  /\ Saved(c, s) \in Seq(Word) /\ Len(Saved(c, s)) = 13 + Len(s)
         /\ \A f \in 1..13 : StructRegs[f] # "_esp" => Saved(c, s)[f] = c[StructRegs[f]]
         /\ \A k \in 1..Len(s) : Saved(c, s)[13 + k] = s[k]
<1> DEFINE before == [reg \in Regs \cup {"_esp"} |-> IF reg = "_esp" THEN ESP(s) ELSE c[reg]]
           w8 == [i \in 1..8 |-> before[pusha[i]]]
           w5 == [i \in 1..5 |-> c[pushSegs[i]]]
           t == Pushes(s, w8)
           u == Pushes(t, w5)
<1>1. \A i \in 1..8 : pusha[i] \in Regs \cup {"_esp"}
  <2>1. \A i \in 1..8 : 8 - (8 - i + 1) + 1 = i /\ 8 - i + 1 \in 1..8
    OBVIOUS
  <2>2. \A i \in 1..8 : 5 + (8 - i + 1) \in Fields /\ pusha[i] = StructRegs[5 + (8 - i + 1)]
    BY <2>1, PushedNames DEF Fields
  <2> QED BY <2>2, RegNames
<1>2. \A i \in 1..5 : pushSegs[i] \in Regs
  <2>1. \A i \in 1..5 : pushSegs[i] \in DataSegs
    <3>1. \A j \in 1..5 : j = 1 \/ j = 2 \/ j = 3 \/ j = 4 \/ j = 5
      OBVIOUS
    <3> QED BY <3>1 DEF pushSegs, DataSegs
  <2> QED BY <2>1, RegNames
<1>3. before \in [Regs \cup {"_esp"} -> Word]
  BY ESPWord
<1> HIDE DEF before
<1>4. w8 \in Seq(Word) /\ Len(w8) = 8
  BY <1>1, <1>3
<1>5. w5 \in Seq(Word) /\ Len(w5) = 5
  BY <1>2
<1>6. Saved(c, s) = u
  BY DEF Saved, before
<1>7. /\ t \in Seq(Word) /\ Len(t) = 8 + Len(s)
      /\ \A i \in 1..8 : t[i] = w8[8 - i + 1]
      /\ \A k \in 1..Len(s) : t[8 + k] = s[k]
  <2>1. w8 \in Seq(Word)
    BY <1>4
  <2> HIDE DEF w8
  <2>2. /\ t \in Seq(Word) /\ Len(t) = Len(w8) + Len(s)
        /\ \A i \in 1..Len(w8) : t[i] = w8[Len(w8) - i + 1]
        /\ \A k \in 1..Len(s) : t[Len(w8) + k] = s[k]
    BY <2>1, PushesIs
  <2>3. Len(w8) = 8
    BY <1>4
  <2> QED BY <2>2, <2>3, Zenon
<1>8. /\ u \in Seq(Word) /\ Len(u) = 5 + Len(t)
      /\ \A i \in 1..5 : u[i] = w5[5 - i + 1]
      /\ \A k \in 1..Len(t) : u[5 + k] = t[k]
  <2>1. w5 \in Seq(Word) /\ t \in Seq(Word)
    BY <1>5, <1>7
  <2> HIDE DEF w5, t
  <2>2. /\ u \in Seq(Word) /\ Len(u) = Len(w5) + Len(t)
        /\ \A i \in 1..Len(w5) : u[i] = w5[Len(w5) - i + 1]
        /\ \A k \in 1..Len(t) : u[Len(w5) + k] = t[k]
    BY <2>1, PushesIs
  <2>3. Len(w5) = 5
    BY <1>5
  <2> QED BY <2>2, <2>3, Zenon
<1> HIDE DEF t, u
<1>9. \A f \in 1..5 : u[f] = c[StructRegs[f]]
  <2>1. \A i \in 1..5 : 5 - i + 1 \in 1..5
    OBVIOUS
  <2>2. \A i \in 1..5 : w5[5 - i + 1] = c[pushSegs[5 - i + 1]]
    BY <2>1
  <2> QED BY <1>8, <2>2, PushedNames
<1>10. ASSUME NEW j \in 1..8, StructRegs[5 + j] # "_esp" PROVE u[5 + j] = c[StructRegs[5 + j]]
  <2>1. 8 - j + 1 \in 1..8 /\ j \in 1..Len(t)
    BY <1>7
  <2>2. u[5 + j] = t[j] /\ t[j] = w8[8 - j + 1]
    BY <1>7, <1>8, <2>1
  <2>3. w8[8 - j + 1] = before[StructRegs[5 + j]]
    BY <2>1, PushedNames
  <2>4. StructRegs[5 + j] \in Regs \cup {"_esp"}
    BY <1>1, <2>1, PushedNames
  <2>5. before[StructRegs[5 + j]] = c[StructRegs[5 + j]]
    BY <1>10, <2>4 DEF before
  <2> QED BY <2>2, <2>3, <2>5
<1>11. ASSUME NEW f \in 1..13, StructRegs[f] # "_esp" PROVE u[f] = c[StructRegs[f]]
  <2>1. CASE f <= 5
    BY <1>9, <2>1
  <2>2. CASE f > 5
    <3>1. PICK j \in 1..8 : f = 5 + j
      <4>1. f - 5 \in 1..8 /\ f = 5 + (f - 5)
        BY <2>2
      <4> QED BY <4>1
    <3> QED BY <1>10, <1>11, <3>1
  <2> QED BY <2>1, <2>2
<1>12. ASSUME NEW k \in 1..Len(s) PROVE u[13 + k] = s[k]
  <2>1. 8 + k \in 1..Len(t) /\ 13 + k = 5 + (8 + k)
    BY <1>7
  <2> QED BY <1>7, <1>8, <2>1
<1>13. Len(u) = 13 + Len(s)
  BY <1>7, <1>8
<1> QED BY <1>6, <1>8, <1>11, <1>12, <1>13

(***************************************************************************)
(* The steps                                                               *)
(***************************************************************************)

\* An exception with registers c and stack s: the processor pushes three words
\* and enters a trampoline.
LEMMA ExceptionIs ==
  ASSUME X86, NoErrorCodes, NEW n \in Vectors, NEW c \in [Regs -> Word], NEW s \in Seq(Word),
         NEW code \in Values \cup {0}, Exception(n, c, s, code)
  PROVE  /\ stack' \in Seq(Word) /\ Len(stack') = 3 + Len(s)
         /\ stack'[1] = c["eip"] /\ stack'[2] = c["cs"] /\ stack'[3] = c["eflags"]
         /\ \A k \in 1..Len(s) : stack'[3 + k] = s[k]
         /\ cpu' \in [Regs -> Word]
         /\ cpu'["eip"] \in {int1_tramp, int3_tramp, default_tramp}
         /\ \A reg \in Regs \ {"eip", "cs", "eflags"} : cpu'[reg] = c[reg]
         /\ mode' = "tramp"
<1> DEFINE w == <<c["eflags"], c["cs"], c["eip"]>>
<1>1. {"eflags", "cs", "eip"} \subseteq Regs
  BY RegNames
<1>2. c["eflags"] \in Word /\ c["cs"] \in Word /\ c["eip"] \in Word
  BY <1>1
<1>3. w \in Seq(Word) /\ Len(w) = 3 /\ w[1] = c["eflags"] /\ w[2] = c["cs"] /\ w[3] = c["eip"]
  BY <1>2
<1>4. stack' = Pushes(s, w)
  <2>1. n \notin ErrorVectors
    BY DEF NoErrorCodes
  <2>2. stack' = Pushes(s, w \o <<>>)
    BY <2>1 DEF Exception
  <2>3. w \o <<>> = w
    BY <1>3, ConcatEmptySeq
  <2> QED BY <2>2, <2>3
<1>5. /\ stack' \in Seq(Word) /\ Len(stack') = 3 + Len(s)
      /\ \A i \in 1..3 : stack'[i] = w[3 - i + 1]
      /\ \A k \in 1..Len(s) : stack'[3 + k] = s[k]
  <2>1. w \in Seq(Word)
    BY <1>3
  <2>2. Len(w) = 3
    BY <1>3
  <2> HIDE DEF w
  <2>3. /\ Pushes(s, w) \in Seq(Word) /\ Len(Pushes(s, w)) = Len(w) + Len(s)
        /\ \A i \in 1..Len(w) : Pushes(s, w)[i] = w[Len(w) - i + 1]
        /\ \A k \in 1..Len(s) : Pushes(s, w)[Len(w) + k] = s[k]
    BY <2>1, PushesIs
  <2> QED BY <1>4, <2>2, <2>3, Zenon
<1>6. stack'[1] = w[3] /\ stack'[2] = w[2] /\ stack'[3] = w[1]
  <2> HIDE DEF w
  <2>1. 1 \in 1..3 /\ 2 \in 1..3 /\ 3 \in 1..3 /\ 3 - 1 + 1 = 3 /\ 3 - 2 + 1 = 2 /\ 3 - 3 + 1 = 1
    OBVIOUS
  <2> QED BY <1>5, <2>1
<1> DEFINE addr == IF n = 1 THEN int1_tramp ELSE IF n = 3 THEN int3_tramp ELSE default_tramp
           fl == WithBit(WithBit(c["eflags"], TF, FALSE), INTF, FALSE)
<1>7. cpu' = [c EXCEPT !["eflags"] = fl, !["cs"] = CodeSel, !["eip"] = addr]
  <2>1. gdb_idt_init[n] = set_gate(addr)
    BY DEF gdb_idt_init
  <2>2. set_gate(addr).sel = CodeSel
    BY DEF set_gate
  <2>3. set_gate(addr).offset_lo + HALF * set_gate(addr).offset_hi = addr
    BY GateLeads, TrampAssumption
  <2> HIDE DEF addr
  <2>4. cpu' = [c EXCEPT !["eflags"] = fl, !["cs"] = gdb_idt_init[n].sel,
                         !["eip"] = gdb_idt_init[n].offset_lo + HALF * gdb_idt_init[n].offset_hi]
    BY DEF Exception
  <2> QED BY <2>1, <2>2, <2>3, <2>4
<1>8. fl \in Word
  <2>1. WithBit(c["eflags"], TF, FALSE) \in Word
    BY <1>2, BitIsWord
  <2> QED BY <2>1, BitIsWord
<1>9. addr \in {int1_tramp, int3_tramp, default_tramp} /\ addr \in Word /\ CodeSel \in Word
  BY TrampAssumption, ValuesAssumption
<1> HIDE DEF addr, fl
<1>10. cpu' \in [Regs -> Word]
  BY <1>1, <1>7, <1>8, <1>9
<1>11. cpu'["eip"] = addr /\ \A reg \in Regs \ {"eip", "cs", "eflags"} : cpu'[reg] = c[reg]
  BY <1>1, <1>7
<1>12. mode' = "tramp"
  BY DEF Exception
<1> QED BY <1>3, <1>5, <1>6, <1>9, <1>10, <1>11, <1>12

\* In a trampoline, with the program's registers and stack
LEMMA Entered ==
  ASSUME X86, NoErrorCodes, NEW n \in Vectors, NEW c \in [Regs -> Word], NEW s \in Seq(Word),
         NEW code \in Values \cup {0}, Exception(n, c, s, code),
         prog' = c, own' = s, reply' = <<>>, writes' \in 0..MaxWrites
  PROVE  IInv'
<1>1. TrampOK' /\ mode' = "tramp" /\ cpu' \in [Regs -> Word]
  BY ExceptionIs DEF TrampOK
<1> QED BY <1>1 DEF IInv

\* An instruction of the program
LEMMA RunStep ==
  ASSUME X86, NoErrorCodes, IInv, NEW reg \in {"eax", "ebp"}, NEW v \in Values,
         NEW push \in BOOLEAN, Run(reg, v, push)
  PROVE  IInv'
<1>1. v \in Word /\ reg \in Regs
  BY ValuesAssumption, RegNames
<1>2. prog' \in [Regs -> Word]
  BY <1>1 DEF Run, Written, IInv
<1>3. own' \in Seq(Word)
  <2>1. <<v>> \in Seq(Word) /\ own \in Seq(Word)
    BY <1>1 DEF IInv
  <2>2. <<v>> \o own \in Seq(Word)
    BY <2>1
  <2> QED BY <2>1, <2>2 DEF Run
<1>4. reply' = <<>> /\ writes' \in 0..MaxWrites
  BY BoundAssumption DEF Run, IInv
<1>5. CASE TFSet(cpu)
  <2>1. Exception(1, prog', own', 0)
    BY <1>5 DEF Run
  <2>2. PICK c \in [Regs -> Word], s \in Seq(Word) : c = prog' /\ s = own'
    BY <1>2, <1>3
  <2>3. Exception(1, c, s, 0)
    BY <2>1, <2>2
  <2>4. 1 \in Vectors /\ 0 \in Values \cup {0}
    BY DEF NoErrorCodes
  <2> QED BY <1>4, <2>2, <2>3, <2>4, Entered
<1>6. CASE ~TFSet(cpu)
  BY <1>2, <1>3, <1>4, <1>6 DEF Run, IInv
<1> QED BY <1>5, <1>6

\* Any other exception
LEMMA RaiseStep ==
  ASSUME X86, NoErrorCodes, IInv, NEW n \in Vectors, NEW code \in Values, Raise(n, code)
  PROVE  IInv'
<1>1. /\ mode = "program" /\ cpu = prog /\ stack = own /\ reply = <<>>
      /\ cpu \in [Regs -> Word] /\ stack \in Seq(Word) /\ writes \in 0..MaxWrites
  BY DEF Raise, IInv
<1>2. /\ Exception(n, cpu, stack, code)
      /\ reply' = reply /\ writes' = writes /\ prog' = prog /\ own' = own
  BY DEF Raise
<1>3. PICK c \in [Regs -> Word], s \in Seq(Word) : c = cpu /\ s = stack
  BY <1>1
<1>4. Exception(n, c, s, code) /\ prog' = c /\ own' = s /\ reply' = <<>>
      /\ writes' \in 0..MaxWrites
  BY <1>1, <1>2, <1>3
<1> QED BY <1>4, Entered

\* A trampoline up to the call of gdb_handler
LEMMA TrampInStep ==
  ASSUME X86, IInv, TrampIn
  PROVE  IInv'
<1>1. /\ mode = "tramp" /\ stack' = Saved(cpu, stack) /\ mode' = "handler"
      /\ cpu' = [cpu EXCEPT !["eax"] = ESP(stack'), !["ecx"] = 0, !["edx"] = 0]
      /\ reply' = reply /\ writes' = writes /\ prog' = prog /\ own' = own
  BY DEF TrampIn
<1>2. TrampOK /\ cpu \in [Regs -> Word] /\ stack \in Seq(Word) /\ reply = <<>>
  BY <1>1 DEF IInv, TrampOK
<1>3. /\ stack' \in Seq(Word) /\ Len(stack') = 13 + Len(stack)
      /\ \A f \in 1..13 : StructRegs[f] # "_esp" => stack'[f] = cpu[StructRegs[f]]
      /\ \A k \in 1..Len(stack) : stack'[13 + k] = stack[k]
  BY <1>1, <1>2, SavedIs
<1>4. cpu' \in [Regs -> Word]
  <2>1. PICK s \in Seq(Word) : s = stack'
    BY <1>3
  <2>2. ESP(s) \in Word /\ 0 \in Word
    BY ESPWord, WordIs
  <2> QED BY <1>1, <1>2, <2>1, <2>2
<1>5. FrameOK'
  <2>1. Len(own) \in Nat
    BY DEF IInv
  <2>2. Len(stack') = FRAME + Len(own)
    BY <1>2, <1>3, <2>1 DEF TrampOK, FRAME
  <2>3. ASSUME NEW f \in Fields, StructRegs[f] # "_esp" PROVE stack'[f] = prog[StructRegs[f]]
    <3>1. CASE f \in 1..13
      <4>1. StructRegs[f] \in Regs
        BY <2>3, RegNames
      <4>2. StructRegs[f] \notin {"eip", "cs", "eflags"}
        <5>1. StructRegs[14] = "eip" /\ StructRegs[15] = "cs" /\ StructRegs[16] = "eflags"
          BY DEF StructRegs
        <5>2. 14 \in Fields /\ 15 \in Fields /\ 16 \in Fields /\ f # 14 /\ f # 15 /\ f # 16
          BY <3>1 DEF Fields
        <5> QED BY <5>1, <5>2, NamesDiffer
      <4> QED BY <1>2, <1>3, <2>3, <3>1, <4>1, <4>2 DEF TrampOK
    <3>2. CASE f \notin 1..13
      <4>1. f = 13 + 1 \/ f = 13 + 2 \/ f = 13 + 3
        BY <3>2 DEF Fields
      <4>2. StructRegs[13 + 1] = "eip" /\ StructRegs[13 + 2] = "cs" /\ StructRegs[13 + 3] = "eflags"
        BY DEF StructRegs
      <4>3. 1 \in 1..Len(stack) /\ 2 \in 1..Len(stack) /\ 3 \in 1..Len(stack)
        BY <1>2, <2>1 DEF TrampOK
      <4>4. /\ stack'[13 + 1] = prog["eip"] /\ stack'[13 + 2] = prog["cs"]
            /\ stack'[13 + 3] = prog["eflags"]
        BY <1>2, <1>3, <4>3 DEF TrampOK
      <4> QED BY <4>1, <4>2, <4>4
    <3> QED BY <3>1, <3>2
  <2>4. ASSUME NEW k \in 1..Len(own) PROVE stack'[FRAME + k] = own[k]
    <3>1. 3 + k \in 1..Len(stack) /\ FRAME + k = 13 + (3 + k)
      BY <1>2, <2>1 DEF TrampOK, FRAME
    <3> QED BY <1>2, <1>3, <3>1 DEF TrampOK
  <2> QED BY <1>1, <1>3, <2>2, <2>3, <2>4 DEF FrameOK
<1> QED BY <1>1, <1>2, <1>4, <1>5 DEF IInv

\* g
LEMMA ServeReadStep ==
  ASSUME IInv, ServeRead
  PROVE  IInv'
<1>1. reply' = pack_regs(stack) /\ stack' = stack /\ mode = "handler"
  BY DEF ServeRead
<1>2. FrameOK' <=> FrameOK
  BY DEF ServeRead, FrameOK
<1>3. reply' = pack_regs(stack)'
  BY <1>1
<1> QED BY <1>1, <1>2, <1>3 DEF IInv, ServeRead, TrampOK

\* A write of one field is a write of the register, and of nothing else.
LEMMA FieldWrite ==
  ASSUME IInv, mode = "handler", NEW i \in Fields, NEW v \in Word,
         prog' = IF GdbRegs[i] = "_esp" THEN prog ELSE [prog EXCEPT ![GdbRegs[i]] = v],
         stack' = SetField(stack, GdbRegs[i], v), own' = own
  PROVE  FrameOK' /\ prog' \in [Regs -> Word]
<1>1. FrameOK /\ prog \in [Regs -> Word] /\ own \in Seq(Word)
  BY DEF IInv
<1>2. PICK F \in Fields : F = Field(GdbRegs[i]) /\ StructRegs[F] = GdbRegs[i]
  BY FieldOfGdb
<1>3. prog' \in [Regs -> Word]
  BY <1>1
<1>4. stack' \in Seq(Word)
  <2>1. F \in 1..Len(stack)
    <3>1. Len(stack) = FRAME + Len(own) /\ Len(own) \in Nat
      BY <1>1 DEF FrameOK
    <3> QED BY <3>1 DEF Fields, FRAME
  <2> QED BY <1>1, <1>2, <2>1 DEF SetField, FrameOK
<1>5. PICK p \in [Regs -> Word], s \in Seq(Word) : p = prog' /\ s = stack'
  BY <1>3, <1>4
<1>6. /\ s = [stack EXCEPT ![F] = v]
      /\ p = IF GdbRegs[i] = "_esp" THEN prog ELSE [prog EXCEPT ![GdbRegs[i]] = v]
  BY <1>2, <1>5 DEF SetField
<1>7. stack \in Seq(Word) /\ Len(stack) = FRAME + Len(own) /\ Len(own) \in Nat
  BY <1>1 DEF FrameOK
<1>8. Len(s) = Len(stack) /\ F \in 1..Len(stack)
      /\ \A k \in 1..Len(stack) : s[k] = IF k = F THEN v ELSE stack[k]
  <2>1. F \in 1..Len(stack)
    BY <1>7 DEF Fields, FRAME
  <2>2. DOMAIN stack = 1..Len(stack) /\ DOMAIN s = DOMAIN stack /\ DOMAIN s = 1..Len(s)
    BY <1>6, <1>7
  <2>3. Len(s) = Len(stack)
    BY <1>6, <1>7
  <2> QED BY <1>6, <2>1, <2>2, <2>3
<1>9. ASSUME NEW f \in Fields, StructRegs[f] # "_esp" PROVE s[f] = p[StructRegs[f]]
  <2>0. StructRegs[f] \in Regs /\ f \in 1..Len(stack)
    <3>1. StructRegs[f] \in Regs
      BY <1>9, RegNames
    <3>2. f \in 1..Len(stack)
      BY <1>7 DEF Fields, FRAME
    <3> QED BY <3>1, <3>2
  <2>1. CASE f = F
    BY <1>1, <1>2, <1>6, <1>8, <1>9, <2>0, <2>1
  <2>2. CASE f # F
    <3>1. StructRegs[f] # GdbRegs[i]
      BY <1>2, <2>2, NamesDiffer
    <3>2. p[StructRegs[f]] = prog[StructRegs[f]]
      BY <1>1, <1>6, <2>0, <3>1
    <3>3. stack[f] = prog[StructRegs[f]]
      BY <1>1, <1>9 DEF FrameOK
    <3> QED BY <1>8, <2>0, <2>2, <3>2, <3>3
  <2> QED BY <2>1, <2>2
<1>10. ASSUME NEW k \in 1..Len(own) PROVE s[FRAME + k] = own[k]
  <2>1. FRAME + k \in 1..Len(stack) /\ FRAME + k # F
    BY <1>7 DEF Fields, FRAME
  <2> QED BY <1>1, <1>8, <2>1 DEF FrameOK
<1> QED BY <1>4, <1>5, <1>7, <1>8, <1>9, <1>10 DEF FrameOK

\* What P and G leave
LEMMA Wrote ==
  ASSUME X86, IInv, NEW i \in Fields, NEW v \in Values, ClientWrites(GdbRegs[i], v),
         stack' = SetField(stack, GdbRegs[i], v)
  PROVE  IInv'
<1>1. /\ mode = "handler" /\ mode' = mode /\ cpu' = cpu /\ own' = own /\ reply' = <<>>
      /\ writes' \in 0..MaxWrites
  BY BoundAssumption DEF ClientWrites, IInv
<1>2. v \in Word
  BY ValuesAssumption
<1>3. prog' = IF GdbRegs[i] = "_esp" THEN prog ELSE [prog EXCEPT ![GdbRegs[i]] = v]
  BY DEF ClientWrites, Written
<1>4. FrameOK' /\ prog' \in [Regs -> Word]
  BY <1>1, <1>2, <1>3, FieldWrite
<1> QED BY <1>1, <1>4 DEF IInv

\* P of a register
LEMMA ServeWriteStep ==
  ASSUME X86, IInv, NEW i \in Fields, NEW v \in Values, ServeWrite(i, v)
  PROVE  IInv'
<1>1. v \in Word /\ unhexWord(hexWord(v)) = v
  BY RoundTrip, ValuesAssumption
<1>2. ClientWrites(GdbRegs[i], v) /\ stack' = SetField(stack, GdbRegs[i], v)
  BY <1>1 DEF ServeWrite
<1> QED BY <1>2, Wrote

\* GdbRegs has no name twice.
LEMMA GdbDiffer ==
  ASSUME NEW i \in Fields, NEW j \in Fields, GdbRegs[i] = GdbRegs[j]
  PROVE  i = j
<1>1. Place[i] = Place[j]
  BY GdbNames, NamesDiffer
<1> QED BY <1>1, FieldIsOneOf DEF Place

\* pack_regs, unpack_regs: a client that has read all registers, changes one
\* and writes them all has written that one and nothing else.
LEMMA UnpackIs ==
  ASSUME X86, NEW s \in Seq(Word), Len(s) >= FRAME, NEW i \in Fields, NEW v \in Word
  PROVE  unpack_regs([pack_regs(s) EXCEPT ![i] = hexWord(v)], s) = SetField(s, GdbRegs[i], v)
<1> DEFINE d == [pack_regs(s) EXCEPT ![i] = hexWord(v)]
           u == unpack_regs(d, s)
<1>1. PICK F \in Fields : F = Field(GdbRegs[i]) /\ StructRegs[F] = GdbRegs[i]
  BY FieldOfGdb
<1>2. Fields \subseteq DOMAIN s /\ \A f \in DOMAIN s : s[f] \in Word
  BY DEF Fields, FRAME
<1>3. d \in [Fields -> {hexWord(w) : w \in Word}]
      /\ \A j \in Fields : d[j] = IF j = i THEN hexWord(v) ELSE hexWord(s[Field(GdbRegs[j])])
  BY <1>2, FieldOfGdb DEF pack_regs
<1> HIDE DEF d
<1>4. u = [f \in DOMAIN s |->
             IF f \in Fields THEN unhexWord(d[CHOOSE j \in Fields : GdbRegs[j] = StructRegs[f]])
             ELSE s[f]]
  BY DEF unpack_regs
<1> HIDE DEF u
<1>5. ASSUME NEW f \in Fields PROVE u[f] = IF f = F THEN v ELSE s[f]
  <2>1. PICK j \in Fields : j = CHOOSE k \in Fields : GdbRegs[k] = StructRegs[f]
    BY GdbHasAll
  <2>2. GdbRegs[j] = StructRegs[f]
    BY <2>1, GdbHasAll
  <2>3. u[f] = unhexWord(d[j])
    BY <1>2, <1>4, <2>1
  <2>4. Field(GdbRegs[j]) = f
    BY <2>2, FieldIs
  <2>5. j = i <=> f = F
    BY <1>1, <2>2, NamesDiffer, GdbDiffer
  <2>6. d[j] = IF f = F THEN hexWord(v) ELSE hexWord(s[f])
    BY <1>3, <2>4, <2>5
  <2>7. s[f] \in Word
    BY <1>2
  <2> QED BY <2>3, <2>6, <2>7, RoundTrip
<1>6. ASSUME NEW f \in DOMAIN s PROVE u[f] = [s EXCEPT ![F] = v][f]
  <2>1. CASE f \in Fields
    BY <1>2, <1>5, <2>1
  <2>2. CASE f \notin Fields
    BY <1>4, <2>2
  <2> QED BY <2>1, <2>2
<1>7. u = [s EXCEPT ![F] = v]
  <2>1. u = [f \in DOMAIN s |-> u[f]]
    BY <1>4
  <2>2. [s EXCEPT ![F] = v] = [f \in DOMAIN s |-> [s EXCEPT ![F] = v][f]]
    OBVIOUS
  <2> QED BY <1>6, <2>1, <2>2
<1> QED BY <1>1, <1>7 DEF SetField, u, d

\* G
LEMMA ServeWriteAllStep ==
  ASSUME X86, IInv, NEW i \in Fields, NEW v \in Values, ServeWriteAll(i, v)
  PROVE  IInv'
<1>1. reply = pack_regs(stack) /\ FrameOK
  BY DEF ServeWriteAll, IInv
<1>2. v \in Word /\ stack \in Seq(Word) /\ Len(stack) >= FRAME
  <2>1. Len(stack) = FRAME + Len(own) /\ Len(own) \in Nat
    BY <1>1 DEF FrameOK, IInv
  <2> QED BY <1>1, <2>1, ValuesAssumption DEF FrameOK, FRAME
<1>3. ClientWrites(GdbRegs[i], v) /\ stack' = SetField(stack, GdbRegs[i], v)
  BY <1>1, <1>2, UnpackIs DEF ServeWriteAll
<1> QED BY <1>3, Wrote

\* The pops take every register from its field.
LEMMA RestoredIs ==
  ASSUME NEW s, NEW f \in Fields, StructRegs[f] \in Regs
  PROVE  Restored(s)[StructRegs[f]] = s[f]
<1>1. (CHOOSE i \in Fields : Popped[i] = StructRegs[f]) = f
  <2>1. (CHOOSE i \in Fields : Popped[i] = StructRegs[f]) = Field(StructRegs[f])
    BY PopsStructRegs DEF Field
  <2> QED BY <2>1, FieldIs
<1> QED BY <1>1 DEF Restored

\* c and s
LEMMA ResumeStep ==
  ASSUME X86, IInv, NEW step \in BOOLEAN, Resume(step)
  PROVE  IInv'
<1> DEFINE w == WithBit(stack[Field("eflags")], TF, step)
           s == SetField(stack, "eflags", w)
<1>1. /\ mode = "handler" /\ cpu' = Restored(s) /\ stack' = SubSeq(s, Len(Popped) + 1, Len(s))
      /\ mode' = "program" /\ reply' = <<>> /\ writes' = writes /\ own' = own
      /\ prog' = [prog EXCEPT !["eflags"] = WithBit(prog["eflags"], TF, step)]
  BY DEF Resume, Written
<1>2. FrameOK /\ prog \in [Regs -> Word] /\ own \in Seq(Word) /\ writes \in 0..MaxWrites
  BY <1>1 DEF IInv
<1>3. Field("eflags") = 16 /\ 16 \in Fields /\ "eflags" \in Regs /\ StructRegs[16] = "eflags"
  <2>1. StructRegs[16] = "eflags" /\ 16 \in Fields
    BY DEF StructRegs, Fields
  <2> QED BY <2>1, FieldIs, RegNames
<1>4. stack[16] = prog["eflags"] /\ prog["eflags"] \in Word
  <2>1. "eflags" # "_esp"
    OBVIOUS
  <2> QED BY <1>2, <1>3, <2>1 DEF FrameOK
<1>5. w = WithBit(prog["eflags"], TF, step) /\ w \in Word
  BY <1>3, <1>4, BitIsWord
<1> HIDE DEF w
<1>6. s = [stack EXCEPT ![16] = w]
  BY <1>3 DEF SetField
<1>7. stack \in Seq(Word) /\ Len(stack) = FRAME + Len(own) /\ Len(own) \in Nat
  BY <1>2 DEF FrameOK
<1>8. s \in Seq(Word) /\ Len(s) = Len(stack)
      /\ \A k \in 1..Len(stack) : s[k] = IF k = 16 THEN w ELSE stack[k]
  <2>1. 16 \in 1..Len(stack)
    BY <1>7 DEF FRAME
  <2>2. stack \in Seq(Word)
    BY <1>7
  <2>3. [stack EXCEPT ![16] = w] \in Seq(Word) /\ Len([stack EXCEPT ![16] = w]) = Len(stack)
    BY <1>5, <2>1, <2>2
  <2>4. \A k \in 1..Len(stack) : [stack EXCEPT ![16] = w][k] = IF k = 16 THEN w ELSE stack[k]
    BY <2>1, <2>2
  <2> QED BY <1>6, <2>3, <2>4
<1> HIDE DEF s
<1>9. prog' \in [Regs -> Word]
  BY <1>1, <1>2, <1>5
<1>10. ASSUME NEW f \in Fields, StructRegs[f] # "_esp" PROVE s[f] = prog'[StructRegs[f]]
  <2>1. f \in 1..Len(stack)
    BY <1>7 DEF Fields, FRAME
  <2>2. StructRegs[f] \in Regs
    BY <1>10, RegNames
  <2>3. CASE f = 16
    BY <1>1, <1>2, <1>3, <1>5, <1>8, <2>1, <2>3
  <2>4. CASE f # 16
    <3>1. StructRegs[f] # "eflags"
      BY <1>3, <2>4, NamesDiffer
    <3>2. prog'[StructRegs[f]] = prog[StructRegs[f]]
      BY <1>1, <1>2, <2>2, <3>1
    <3>3. stack[f] = prog[StructRegs[f]]
      BY <1>2, <1>10 DEF FrameOK
    <3> QED BY <1>8, <2>1, <2>4, <3>2, <3>3
  <2> QED BY <2>3, <2>4
<1>11. cpu' = prog'
  <2>1. ASSUME NEW reg \in Regs PROVE Restored(s)[reg] = prog'[reg]
    <3>1. PICK f \in Fields : StructRegs[f] = reg /\ reg # "_esp"
      BY RegNames
    <3>2. Restored(s)[StructRegs[f]] = s[f]
      BY <3>1, RestoredIs
    <3> QED BY <1>10, <3>1, <3>2
  <2>2. Restored(s) = [reg \in Regs |-> Restored(s)[reg]]
    BY DEF Restored
  <2>3. prog' = [reg \in Regs |-> prog'[reg]]
    BY <1>9
  <2> QED BY <1>1, <2>1, <2>2, <2>3
<1>12. stack' = own
  <2>1. Len(Popped) = FRAME
    <3>1. Len(StructRegs) = 16
      BY DEF StructRegs
    <3> QED BY <3>1, PopsStructRegs DEF FRAME
  <2>2. stack' = SubSeq(s, FRAME + 1, Len(s))
    BY <1>1, <2>1
  <2>3. PICK m \in Nat, l \in Nat : m = FRAME /\ l = Len(own) /\ Len(s) = m + l /\ m = 16
    BY <1>7, <1>8 DEF FRAME
  <2>4. \A k \in 1..l : s[m + k] = own[k]
    <3>1. ASSUME NEW k \in 1..l PROVE s[m + k] = own[k]
      <4>1. m + k \in 1..Len(stack) /\ m + k # 16
        BY <1>7, <2>3
      <4>2. s[m + k] = stack[m + k]
        BY <1>8, <4>1
      <4> QED BY <1>2, <2>3, <4>2 DEF FrameOK
    <3> QED BY <3>1
  <2>5. /\ SubSeq(s, m + 1, m + l) \in Seq(Word) /\ Len(SubSeq(s, m + 1, m + l)) = l
        /\ \A k \in 1..l : SubSeq(s, m + 1, m + l)[k] = s[m + k]
    BY <1>8, <2>3
  <2>6. SubSeq(s, m + 1, m + l) = own
    BY <1>2, <2>3, <2>4, <2>5, SeqEqual
  <2> QED BY <2>2, <2>3, <2>6
<1> QED BY <1>1, <1>2, <1>9, <1>11, <1>12 DEF IInv

\* tramp.asm:85-87
LEMMA DefaultStep ==
  ASSUME IInv, DefaultTramp
  PROVE  IInv'
<1>1. /\ mode = "tramp" /\ mode' = "program" /\ stack' = SubSeq(stack, 4, Len(stack))
      /\ cpu' = [cpu EXCEPT !["eip"] = stack[1], !["cs"] = stack[2], !["eflags"] = stack[3]]
      /\ reply' = reply /\ writes' = writes /\ prog' = prog /\ own' = own
  BY DEF DefaultTramp
<1>2. /\ TrampOK /\ prog \in [Regs -> Word] /\ cpu \in [Regs -> Word] /\ own \in Seq(Word)
      /\ reply = <<>> /\ writes \in 0..MaxWrites
  BY <1>1 DEF IInv
<1>3. cpu' = prog
  <2>1. {"eip", "cs", "eflags"} \subseteq Regs
    BY RegNames
  <2>2. \A reg \in Regs : cpu'[reg] = prog[reg]
    BY <1>1, <1>2, <2>1 DEF TrampOK
  <2>3. cpu' = [reg \in Regs |-> cpu'[reg]] /\ prog = [reg \in Regs |-> prog[reg]]
    BY <1>1, <1>2
  <2> QED BY <2>2, <2>3
<1>4. stack' = own
  <2>1. PICK m \in Nat, l \in Nat : m = 3 /\ l = Len(own) /\ Len(stack) = m + l
    <3>1. Len(own) \in Nat /\ Len(stack) = 3 + Len(own)
      BY <1>2 DEF TrampOK
    <3> QED BY <3>1
  <2>2. /\ SubSeq(stack, m + 1, m + l) \in Seq(Word) /\ Len(SubSeq(stack, m + 1, m + l)) = l
        /\ \A k \in 1..l : SubSeq(stack, m + 1, m + l)[k] = stack[m + k]
    <3>1. stack \in Seq(Word)
      BY <1>2 DEF TrampOK
    <3> QED BY <2>1, <3>1
  <2>3. \A k \in 1..l : stack[m + k] = own[k]
    BY <1>2, <2>1 DEF TrampOK
  <2>4. SubSeq(stack, m + 1, m + l) = own
    BY <1>2, <2>1, <2>2, <2>3, SeqEqual
  <2>5. m + 1 = 4
    BY <2>1
  <2> QED BY <1>1, <2>1, <2>4, <2>5
<1> QED BY <1>1, <1>2, <1>3, <1>4 DEF IInv

(***************************************************************************)
(* The theorems                                                            *)
(***************************************************************************)

\* The program before the first exception
LEMMA InitIInv ==
  ASSUME X86, Init
  PROVE  IInv
<1>1. 0 \in Word
  BY WordIs
<1>2. <<0>> \in Seq(Word)
  BY <1>1
<1> QED BY <1>2, FirstAssumption, BoundAssumption DEF Init, IInv

\* Every step keeps the invariant.
LEMMA NextIInv ==
  ASSUME X86, NoErrorCodes, IInv, [Next]_vars
  PROVE  IInv'
<1>1. CASE \E reg \in {"eax", "ebp"}, v \in Values, push \in BOOLEAN : Run(reg, v, push)
  BY <1>1, RunStep
<1>2. CASE \E n \in Vectors, code \in Values : Raise(n, code)
  BY <1>2, RaiseStep
<1>3. CASE TrampIn
  BY <1>3, TrampInStep
<1>4. CASE ServeRead
  BY <1>4, ServeReadStep
<1>5. CASE \E i \in Fields, v \in Values : ServeWrite(i, v) \/ ServeWriteAll(i, v)
  BY <1>5, ServeWriteStep, ServeWriteAllStep
<1>6. CASE \E step \in BOOLEAN : Resume(step)
  BY <1>6, ResumeStep
<1>7. CASE DefaultTramp
  BY <1>7, DefaultStep
<1>8. CASE UNCHANGED vars
  <2>1. /\ cpu' = cpu /\ stack' = stack /\ mode' = mode /\ reply' = reply /\ writes' = writes
        /\ prog' = prog /\ own' = own
    BY <1>8 DEF vars
  <2>2. (FrameOK' <=> FrameOK) /\ (TrampOK' <=> TrampOK)
    BY <2>1 DEF FrameOK, TrampOK
  <2>3. pack_regs(stack)' = pack_regs(stack)
    BY <2>1
  <2> QED BY <2>1, <2>2, <2>3 DEF IInv
<1> QED BY <1>1, <1>2, <1>3, <1>4, <1>5, <1>6, <1>7, <1>8 DEF Next

\* The frame that the trampolines build is struct regs over the program's
\* registers, and stays so under everything a client writes (gdb_idt.c,
\* tramp.asm, gdb_handler).
THEOREM FrameInvariant ==
  ASSUME X86, NoErrorCodes
  PROVE  Spec => []IInv
<1>1. Init => IInv
  BY InitIInv
<1>2. IInv /\ [Next]_vars => IInv'
  BY NextIInv
<1> QED
  BY <1>1, <1>2, PTL DEF Spec

\* Registers and stack hold words of four bytes, and every exception leads to
\* a trampoline (set_gate).
THEOREM FrameTypes ==
  ASSUME X86, NoErrorCodes
  PROVE  Spec => []TypeOK
<1>1. IInv => TypeOK
  <2> SUFFICES ASSUME IInv PROVE TypeOK
    OBVIOUS
  <2>1. stack \in Seq(Word)
    BY DEF IInv, TrampOK, FrameOK
  <2>2. reply \in {<<>>} \cup [Fields -> [0..(2 * BYTES - 1) -> 0..(DIGIT - 1)]]
    <3>1. CASE reply = <<>>
      BY <3>1
    <3>2. CASE reply # <<>>
      <4>1. FrameOK /\ reply = [i \in Fields |-> hexWord(stack[Field(GdbRegs[i])])]
        BY <3>2 DEF IInv, pack_regs
      <4>2. ASSUME NEW i \in Fields PROVE hexWord(stack[Field(GdbRegs[i])]) \in [0..7 -> 0..15]
        <5>1. Field(GdbRegs[i]) \in 1..Len(stack)
          <6>1. Len(stack) = FRAME + Len(own) /\ Len(own) \in Nat
            BY <4>1 DEF IInv, FrameOK
          <6> QED BY <6>1, FieldOfGdb DEF Fields, FRAME
        <5>2. stack[Field(GdbRegs[i])] \in Word
          BY <2>1, <5>1
        <5> QED BY <5>2, Digits
      <4>3. 2 * BYTES - 1 = 7 /\ DIGIT - 1 = 15
        BY SMT DEF X86
      <4> QED BY <4>1, <4>2, <4>3
    <3> QED BY <3>1, <3>2
  <2> QED BY <2>1, <2>2 DEF IInv, TypeOK, TrampOK
<1> QED
  BY <1>1, FrameInvariant, PTL

\* gdb-stub_internal.md:98-99: what gdb decodes from the answer to a g is every
\* register as the program left it or the client wrote it (pack_regs).
THEOREM GdbSeesProgram ==
  ASSUME X86, NoErrorCodes
  PROVE  Spec => []ShowsProgram
<1>1. IInv => ShowsProgram
  <2> SUFFICES ASSUME IInv, reply # <<>>, NEW i \in Fields, GdbRegs[i] # "_esp"
               PROVE  DecodedByGdb(reply[i]) = prog[GdbRegs[i]]
    BY DEF ShowsProgram
  <2>1. FrameOK /\ reply[i] = hexWord(stack[Field(GdbRegs[i])])
    BY DEF IInv, pack_regs
  <2>2. PICK f \in Fields : f = Field(GdbRegs[i]) /\ StructRegs[f] = GdbRegs[i]
    BY FieldOfGdb
  <2>3. stack[f] = prog[GdbRegs[i]]
    BY <2>1, <2>2 DEF FrameOK
  <2>4. stack[f] \in Word
    <3>1. Len(stack) = FRAME + Len(own) /\ Len(own) \in Nat
      BY <2>1 DEF IInv, FrameOK
    <3>2. f \in 1..Len(stack)
      BY <3>1 DEF Fields, FRAME
    <3> QED BY <2>1, <3>2 DEF FrameOK
  <2> QED BY <2>1, <2>2, <2>3, <2>4, RoundTrip
<1> QED
  BY <1>1, FrameInvariant, PTL

\* The program runs on with its own registers, but for those the client wrote,
\* and with its own stack (the pops of tramp.asm, G, P, c and s).
THEOREM ProgramResumes ==
  ASSUME X86, NoErrorCodes
  PROVE  Spec => []ResumesAsWritten
<1>1. IInv => ResumesAsWritten
  BY DEF IInv, ResumesAsWritten
<1> QED
  BY <1>1, FrameInvariant, PTL
=============================================================================
