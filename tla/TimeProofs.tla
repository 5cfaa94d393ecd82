----------------------------- MODULE TimeProofs -----------------------------
(***************************************************************************)
(* Theorems on Time, for every counter, gap and clock that meets the       *)
(* assumptions: frames and delays last what they count, and a timestamp is *)
(* the time of one instant.                                                *)
(***************************************************************************)
EXTENDS Time, TLAPS

----------------------------------------------------------------------------
(***************************************************************************)
(* Numbers                                                                 *)
(***************************************************************************)

\* Division of a number given by quotient and remainder.
LEMMA DivMod ==
  ASSUME NEW q \in Nat, NEW d \in Nat \ {0}, NEW r \in 0..(d - 1)
  PROVE  (q * d + r) \div d = q /\ (q * d + r) % d = r
OBVIOUS

\* Quotient and remainder of any number.
LEMMA ModRange ==
  ASSUME NEW a \in Nat, NEW d \in Nat \ {0}
  PROVE  /\ a % d \in 0..(d - 1)
         /\ a \div d \in Nat
         /\ a = (a \div d) * d + (a % d)
OBVIOUS

\* A quotient is below a bound that the number is below a multiple of.
LEMMA DivBound ==
  ASSUME NEW a \in Nat, NEW d \in Nat \ {0}, NEW n \in Nat, a < n * d
  PROVE  a \div d < n
<1>1. a \div d \in Nat /\ a % d >= 0 /\ a = (a \div d) * d + (a % d)
  BY ModRange
<1>2. SUFFICES ASSUME a \div d >= n PROVE FALSE
  BY <1>1
<1>3. (a \div d) * d >= n * d
  BY <1>1, <1>2
<1> QED BY <1>1, <1>3

\* The counter moves two down and wraps around.
LEMMA CountDown ==
  ASSUME NEW w \in Nat, w >= 2, NEW c \in 0..(w - 1)
  PROVE  /\ (c - 2) % w \in 0..(w - 1)
         /\ (c - 2) % w \in {c - 2, c - 2 + w}
OBVIOUS

\* A time taken w at most before stays in step with the counter.
LEMMA Moved ==
  ASSUME NEW w \in Nat, NEW c \in 0..(w - 1), NEW d \in 0..(w - 1), d \in {c - 2, c - 2 + w},
         NEW n \in Nat, 2 * n + 2 <= w,
         NEW x \in 0..(w - 1), x \in {c + 2 * n, c + 2 * n - w}
  PROVE  x \in {d + 2 * (n + 1), d + 2 * (n + 1) - w}
<1>1. CASE x = c + 2 * n
  BY <1>1
<1>2. CASE x = c + 2 * n - w
  <2>1. d = c - 2
    BY <1>2
  <2> QED BY <1>2, <2>1
<1> QED BY <1>1, <1>2

\* elapsed_pit undoes one wrap of the counter.
LEMMA Unwrap ==
  ASSUME NEW w \in Nat \ {0}, NEW e \in 0..(w - 1)
  PROVE  e % w = e /\ (e - w) % w = e
OBVIOUS

\* bcd undoes the encoding of a register.
LEMMA Decoded ==
  ASSUME NEW v \in Nat
  PROVE  bcd(cmos_read(v)) = v
<1> DEFINE q == v \div BASE
           r == v % BASE
<1>1. BASE \in Nat \ {0} /\ NIBBLE \in Nat \ {0} /\ BASE <= NIBBLE
  BY RadixAssumption
<1>2. q \in Nat /\ r \in 0..(BASE - 1) /\ v = q * BASE + r
  BY <1>1, ModRange
<1>3. r \in 0..(NIBBLE - 1)
  BY <1>1, <1>2
<1>4. (q * NIBBLE + r) \div NIBBLE = q /\ (q * NIBBLE + r) % NIBBLE = r
  BY <1>1, <1>2, <1>3, DivMod
<1> HIDE DEF q, r
<1>5. bcd(q * NIBBLE + r) = v
  BY <1>2, <1>4 DEF bcd
<1> QED BY <1>5 DEF cmos_read, q, r

\* The two digits of a number.
LEMMA Digits ==
  ASSUME NEW n \in {SECS, MINS, HOURS}, NEW v \in 0..(n - 1)
  PROVE  v \div BASE \in 0..(BASE - 1) /\ v % BASE \in 0..(BASE - 1)
<1>1. BASE \in Nat \ {0} /\ n \in Nat /\ n <= BASE * BASE
  BY RadixAssumption
<1>2. v \in Nat /\ v < BASE * BASE
  BY <1>1
<1>3. v % BASE \in 0..(BASE - 1) /\ v \div BASE \in Nat
  BY <1>1, <1>2, ModRange
<1>4. v \div BASE < BASE
  BY <1>1, <1>2, DivBound
<1> QED BY <1>1, <1>3, <1>4

\* What the registers hold.
LEMMA Registers ==
  ASSUME t \in 0..(HOURS * MINS * SECS - 1)
  PROVE  /\ Second \in 0..(SECS - 1) /\ Minute \in 0..(MINS - 1)
         /\ Hour \in 0..(HOURS - 1)
<1>1. SECS \in Nat \ {0} /\ MINS \in Nat \ {0} /\ HOURS \in Nat \ {0}
  BY RadixAssumption
<1>2. SECS * MINS \in Nat \ {0} /\ HOURS * MINS * SECS = HOURS * (SECS * MINS)
  BY <1>1
<1>3. t \in Nat /\ t < HOURS * (SECS * MINS)
  BY <1>1, <1>2
<1>4. Second \in 0..(SECS - 1)
  BY <1>1, <1>3, ModRange DEF Second
<1>5. t \div SECS \in Nat
  BY <1>1, <1>3, ModRange
<1>6. Minute \in 0..(MINS - 1)
  BY <1>1, <1>5, ModRange DEF Minute
<1>7. Hour \in Nat /\ Hour < HOURS
  BY <1>1, <1>2, <1>3, ModRange, DivBound DEF Hour
<1> QED BY <1>1, <1>4, <1>6, <1>7

\* Six digits make a timestamp.
LEMMA FormatType ==
  ASSUME NEW h \in 0..(HOURS - 1), NEW mi \in 0..(MINS - 1), NEW se \in 0..(SECS - 1)
  PROVE  Format(h, mi, se) \in [1..6 -> 0..(BASE - 1)]
<1>1. /\ h \div BASE \in 0..(BASE - 1) /\ h % BASE \in 0..(BASE - 1)
      /\ mi \div BASE \in 0..(BASE - 1) /\ mi % BASE \in 0..(BASE - 1)
      /\ se \div BASE \in 0..(BASE - 1) /\ se % BASE \in 0..(BASE - 1)
  BY Digits
<1> QED BY <1>1 DEF Format

----------------------------------------------------------------------------
(***************************************************************************)
(* The inductive invariant                                                 *)
(***************************************************************************)

\* The counter has moved by two for each tick, and not come round: the ticks
\* that have passed are below what is awaited but for those of the last step.
LoopInv ==
  pc = "loop" =>
    /\ 2 * since <= FRAME_TICKS + 2 * idle
    /\ last_frame \in {counter + 2 * since, counter + 2 * since - W}

DelayInv ==
  pc = "delay" =>
    /\ waited <= idle \/ 2 * waited < target + 2 * idle
    /\ start \in {counter + 2 * waited, counter + 2 * waited - W}

\* The clock is not updated before the last of the three reads: the second
\* wait has left LEAD ticks, and the reads use them up one ReadGap each.
ReadInv ==
  /\ pc \in Reading => idle <= ReadGap
  /\ pc = "seconds" => phase < PERIOD - LEAD + idle
  /\ pc = "minutes" => phase < PERIOD - LEAD + ReadGap + idle /\ s = Second
  /\ pc = "hours" => phase < PERIOD - LEAD + 2 * ReadGap + idle /\ s = Second /\ m = Minute

IInv == TypeOK /\ LoopInv /\ DelayInv /\ ReadInv

----------------------------------------------------------------------------
\* What the assumptions say of single constants.
LEMMA Constants ==
  /\ W \in Nat /\ W >= 2 /\ FRAME_TICKS \in Nat /\ PIT_MS \in Nat
  /\ Gap \in Nat /\ ReadGap \in Nat /\ ReadGap <= Gap
  /\ FRAME_TICKS + 2 * Gap < W
  /\ LEAD \in Nat /\ PERIOD \in Nat /\ 3 * ReadGap <= LEAD /\ LEAD + 2 * ReadGap < PERIOD
  /\ SECS \in Nat \ {0} /\ MINS \in Nat \ {0} /\ HOURS \in Nat \ {0}
  /\ HOURS * MINS * SECS \in Nat \ {0}
<1>1. /\ W \in Nat \ {0} /\ FRAME_TICKS \in Nat \ {0} /\ PIT_MS \in Nat \ {0}
      /\ Gap \in Nat \ {0} /\ ReadGap \in Nat \ {0}
      /\ ReadGap <= Gap /\ FRAME_TICKS + 2 * Gap < W
  BY GapAssumption
<1>2. SECS \in Nat \ {0} /\ MINS \in Nat \ {0} /\ HOURS \in Nat \ {0}
  BY RadixAssumption
<1>3. HOURS * MINS * SECS \in Nat \ {0}
  BY <1>2
<1> QED BY <1>1, <1>2, <1>3, ClockAssumption

\* What a delay waits for leaves room for the gaps around it.
LEMMA Targets ==
  ASSUME NEW x \in {0} \cup {ms * PIT_MS : ms \in Delays}
  PROVE  x \in Nat /\ x + 2 * Gap <= W
BY Constants, GapAssumption

\* The invariant holds at first.
LEMMA InitIInv == Init => IInv
<1> SUFFICES ASSUME Init PROVE IInv
  OBVIOUS
<1>1. CountBy = 2 /\ counter \in 0..(W - 1)
  BY DEF Init, CountBy, pit_init
<1>2. TypeOK
  BY <1>1, Constants, RadixAssumption DEF Init, TypeOK
<1> QED BY <1>1, <1>2, Constants DEF Init, IInv, LoopInv, DelayInv, ReadInv, Reading

\* The hardware moves on.
LEMMA TickIInv == IInv /\ Tick => IInv'
<1> SUFFICES ASSUME IInv, Tick PROVE IInv'
  OBVIOUS
<1> USE Constants
<1>1. /\ counter \in 0..(W - 1) /\ phase \in 0..(PERIOD - 1) /\ idle \in 0..Gap
      /\ since \in 0..(2 * W) /\ waited \in 0..(2 * W)
      /\ last_frame \in 0..(W - 1) /\ start \in 0..(W - 1)
      /\ t \in 0..(HOURS * MINS * SECS - 1)
  BY DEF IInv, TypeOK
<1>2. /\ idle' \in 0..Gap /\ (pc \in Reading => idle' <= ReadGap)
      /\ pc \in {"loop", "delay"} \cup Reading => idle' = idle + 1
  BY <1>1 DEF Tick, Drawing, Reading
<1>3. counter' \in 0..(W - 1) /\ counter' \in {counter - 2, counter - 2 + W}
  <2>1. counter' = (counter - 2) % W
    BY DEF Tick, CountBy, pit_init
  <2> QED BY <1>1, <2>1, CountDown
<1>4. phase' \in 0..(PERIOD - 1)
  <2>1. phase + 1 \in Nat /\ PERIOD \in Nat \ {0}
    BY <1>1
  <2> QED BY <2>1, ModRange DEF Tick
<1>5. t' \in 0..(HOURS * MINS * SECS - 1)
  <2>1. t + 1 \in Nat
    BY <1>1
  <2>2. (t + 1) % (HOURS * MINS * SECS) \in 0..(HOURS * MINS * SECS - 1)
    BY <2>1, ModRange
  <2> QED BY <1>1, <2>2 DEF Tick
<1>6. since' \in 0..(2 * W) /\ waited' \in 0..(2 * W)
  BY <1>1 DEF Tick, Capped
<1>7. TypeOK'
  BY <1>2, <1>3, <1>4, <1>5, <1>6 DEF IInv, TypeOK, Tick, stamp
<1>8. LoopInv'
  <2> SUFFICES ASSUME pc = "loop" PROVE LoopInv'
    BY DEF LoopInv, Tick
  <2>1. 2 * since <= FRAME_TICKS + 2 * idle /\ since < W
    BY <1>1, <1>2 DEF IInv, LoopInv
  <2>2. since' = since + 1
    BY <1>1, <2>1 DEF Tick, Capped
  <2>3. last_frame \in {counter + 2 * since, counter + 2 * since - W}
    BY DEF IInv, LoopInv
  <2>4. last_frame \in {counter' + 2 * since', counter' + 2 * since' - W}
    <3>1. since \in Nat /\ 2 * since + 2 <= W
      BY <1>1, <1>2, <2>1
    <3> QED BY <1>1, <1>3, <2>2, <2>3, <3>1, Moved
  <2> QED BY <1>1, <1>2, <2>1, <2>2, <2>4 DEF LoopInv, Tick
<1>9. DelayInv'
  <2> SUFFICES ASSUME pc = "delay" PROVE DelayInv'
    BY DEF DelayInv, Tick
  <2>1. target \in Nat /\ target + 2 * Gap <= W
    BY Targets DEF IInv, TypeOK
  <2>2. waited <= idle \/ 2 * waited < target + 2 * idle
    BY DEF IInv, DelayInv
  <2>3. waited < 2 * W
    BY <1>1, <1>2, <2>1, <2>2
  <2>4. waited' = waited + 1
    BY <1>1, <2>3 DEF Tick, Capped
  <2>5. start \in {counter + 2 * waited, counter + 2 * waited - W}
    BY DEF IInv, DelayInv
  <2>6. waited \in Nat /\ 2 * waited + 2 <= W
    BY <1>1, <1>2, <2>1, <2>2
  <2>7. start \in {counter' + 2 * waited', counter' + 2 * waited' - W}
    BY <1>1, <1>3, <2>4, <2>5, <2>6, Moved
  <2> QED BY <1>1, <1>2, <2>1, <2>2, <2>4, <2>7 DEF DelayInv, Tick
<1>10. ReadInv'
  <2>1. ASSUME pc \in {"seconds", "minutes", "hours"}
        PROVE  phase' = phase + 1 /\ t' = t
    <3>1. phase + 1 \in 0..(PERIOD - 1) /\ phase + 1 # 0
      BY <1>1, <1>2, <2>1 DEF IInv, ReadInv, Reading
    <3>2. (phase + 1) % PERIOD = phase + 1
      BY <3>1, Unwrap
    <3> QED BY <3>1, <3>2 DEF Tick
  <2>2. pc' = pc /\ s' = s /\ m' = m
    BY DEF Tick, stamp
  <2>3. pc \in {"minutes", "hours"} => Second' = Second /\ Minute' = Minute
    BY <2>1 DEF Second, Minute
  <2> QED BY <1>1, <1>2, <2>1, <2>2, <2>3 DEF IInv, ReadInv, Reading
<1> QED BY <1>7, <1>8, <1>9, <1>10 DEF IInv

----------------------------------------------------------------------------
\* While a frame or a delay is awaited, elapsed_pit is two for each tick.
LEMMA LoopElapsed ==
  ASSUME IInv, pc = "loop"
  PROVE  elapsed_pit(last_frame) = 2 * since
<1>1. /\ counter \in 0..(W - 1) /\ last_frame \in 0..(W - 1)
      /\ since \in Nat /\ idle \in 0..Gap /\ W \in Nat \ {0}
  BY Constants DEF IInv, TypeOK
<1>2. 2 * since \in 0..(W - 1)
  BY <1>1, Constants DEF IInv, LoopInv
<1>3. last_frame - counter = 2 * since \/ last_frame - counter = 2 * since - W
  BY <1>1, <1>2 DEF IInv, LoopInv
<1> QED BY <1>1, <1>2, <1>3, Unwrap DEF elapsed_pit

\* The same of a delay.
LEMMA DelayElapsed ==
  ASSUME IInv, pc = "delay"
  PROVE  elapsed_pit(start) = 2 * waited
<1>1. /\ counter \in 0..(W - 1) /\ start \in 0..(W - 1)
      /\ waited \in Nat /\ idle \in 0..Gap /\ W \in Nat \ {0}
  BY Constants DEF IInv, TypeOK
<1>2. 2 * waited \in 0..(W - 1)
  <2>1. target \in Nat /\ target + 2 * Gap <= W
    BY Targets DEF IInv, TypeOK
  <2>2. waited <= idle \/ 2 * waited < target + 2 * idle
    BY DEF IInv, DelayInv
  <2> QED BY <1>1, <2>1, <2>2, Constants
<1>3. start - counter = 2 * waited \/ start - counter = 2 * waited - W
  BY <1>1, <1>2 DEF IInv, DelayInv
<1> QED BY <1>1, <1>2, <1>3, Unwrap DEF elapsed_pit

\* The main loop and the delay
LEMMA LoopIInv ==
  IInv /\ (FrameDue \/ FrameNotDue \/ FrameEnds \/ (\E ms \in Delays : mdelay(ms))
           \/ DelayGoesOn \/ DelayEnds) => IInv'
<1> USE Constants
<1> DEFINE Loop == FrameDue \/ FrameNotDue \/ FrameEnds \/ (\E ms \in Delays : mdelay(ms))
                   \/ DelayGoesOn \/ DelayEnds
<1> SUFFICES ASSUME IInv, Loop PROVE IInv'
  OBVIOUS
<1>1. TypeOK
  BY DEF IInv
<1>2. CASE FrameDue
  BY <1>1, <1>2
  DEF FrameDue, Step, hardware, delay, stamp, IInv, TypeOK, LoopInv, DelayInv, ReadInv, Reading, Drawing
<1>3. CASE FrameNotDue
  <2>1. 2 * since <= FRAME_TICKS
    BY <1>3, LoopElapsed DEF FrameNotDue, Step
  <2>2. LoopInv'
    BY <1>1, <1>3, <2>1
    DEF FrameNotDue, Step, hardware, IInv, LoopInv
  <2> QED BY <1>1, <1>3, <2>2
    DEF FrameNotDue, Step, hardware, delay, stamp, IInv, TypeOK, DelayInv, ReadInv, Reading, Drawing
<1>4. CASE FrameEnds
  BY <1>1, <1>4
  DEF FrameEnds, Step, hardware, delay, IInv, TypeOK, LoopInv, DelayInv, ReadInv, Reading, Drawing
<1>5. CASE \E ms \in Delays : mdelay(ms)
  BY <1>1, <1>5
  DEF mdelay, Step, hardware, stamp, IInv, TypeOK, LoopInv, DelayInv, ReadInv, Reading, Drawing
<1>6. CASE DelayGoesOn
  <2>1. 2 * waited < target
    BY <1>6, DelayElapsed DEF DelayGoesOn, Step
  <2>2. target \in Nat /\ waited \in Nat
    BY <1>1, Targets DEF TypeOK
  <2>3. DelayInv'
    BY <1>6, <2>1, <2>2
    DEF DelayGoesOn, Step, hardware, delay, IInv, DelayInv
  <2> QED BY <1>1, <1>6, <2>3
    DEF DelayGoesOn, Step, hardware, delay, stamp, IInv, TypeOK, LoopInv, ReadInv, Reading, Drawing
<1>7. CASE DelayEnds
  BY <1>1, <1>7
  DEF DelayEnds, Step, hardware, stamp, IInv, TypeOK, LoopInv, DelayInv, ReadInv, Reading, Drawing
<1> QED BY <1>2, <1>3, <1>4, <1>5, <1>6, <1>7

\* The reading of the clock
LEMMA ReadIInv ==
  IInv /\ (rtc_read_time \/ AwaitUpdate \/ DummyRead \/ AwaitAgain
           \/ ReadSeconds \/ ReadMinutes \/ ReadHours) => IInv'
<1> USE Constants
<1> DEFINE Read == rtc_read_time \/ AwaitUpdate \/ DummyRead \/ AwaitAgain
                   \/ ReadSeconds \/ ReadMinutes \/ ReadHours
<1> SUFFICES ASSUME IInv, Read PROVE IInv'
  OBVIOUS
<1>1. TypeOK /\ phase \in 0..(PERIOD - 1) /\ idle \in 0..Gap
  BY DEF IInv, TypeOK
<1>2. /\ Second \in 0..(SECS - 1) /\ Minute \in 0..(MINS - 1) /\ Hour \in 0..(HOURS - 1)
      /\ bcd(cmos_read(Second)) = Second /\ bcd(cmos_read(Minute)) = Minute
      /\ bcd(cmos_read(Hour)) = Hour
  BY <1>1, Registers, Decoded DEF TypeOK
<1>3. counter' = counter /\ phase' = phase /\ t' = t /\ idle' = 0
      /\ Second' = Second /\ Minute' = Minute
  BY DEF rtc_read_time, AwaitUpdate, DummyRead, AwaitAgain, ReadSeconds, ReadMinutes, ReadHours,
         ReadStep, Step, hardware, Second, Minute
<1> HIDE DEF Read
<1>4. CASE rtc_read_time \/ AwaitUpdate \/ DummyRead \/ AwaitAgain
  <2>1. pc' \in {"wait", "dummy", "waitagain", "seconds"}
        /\ (pc' = "seconds" => phase < PERIOD - LEAD)
    BY <1>1, <1>4
    DEF rtc_read_time, AwaitUpdate, DummyRead, AwaitAgain, ReadStep, Step, UIP
  <2>2. TypeOK'
    BY <1>1, <1>3, <1>4, <2>1
    DEF rtc_read_time, AwaitUpdate, DummyRead, AwaitAgain, ReadStep, delay, stamp, TypeOK, Reading
  <2> QED BY <1>3, <2>1, <2>2 DEF IInv, LoopInv, DelayInv, ReadInv
<1>5. CASE ReadSeconds
  <2>1. pc = "seconds" /\ pc' = "minutes" /\ s' = Second
    BY <1>2, <1>5 DEF ReadSeconds, ReadStep, Step
  <2>2. TypeOK'
    BY <1>1, <1>2, <1>3, <1>5, <2>1 DEF ReadSeconds, ReadStep, delay, TypeOK, Reading, Drawing
  <2> QED BY <1>1, <1>3, <2>1, <2>2 DEF IInv, LoopInv, DelayInv, ReadInv, Reading
<1>6. CASE ReadMinutes
  <2>1. pc = "minutes" /\ pc' = "hours" /\ m' = Minute /\ s' = s
    BY <1>2, <1>6 DEF ReadMinutes, ReadStep, Step
  <2>2. TypeOK'
    BY <1>1, <1>2, <1>3, <1>6, <2>1 DEF ReadMinutes, ReadStep, delay, TypeOK, Reading, Drawing
  <2> QED BY <1>1, <1>3, <2>1, <2>2 DEF IInv, LoopInv, DelayInv, ReadInv, Reading
<1>7. CASE ReadHours
  <2>1. pc' = "drawn" /\ s' = 0 /\ m' = 0 /\ buf' = Format(Hour, m, s)
    BY <1>2, <1>7 DEF ReadHours, ReadStep, Step
  <2>2. buf' \in [1..6 -> 0..(BASE - 1)]
    BY <1>1, <1>2, <2>1, FormatType DEF TypeOK
  <2>3. UNCHANGED <<last_frame, start, target, waited, since>>
    BY <1>7 DEF ReadHours, ReadStep, delay
  <2>4. 0 \in 0..(SECS - 1) /\ 0 \in 0..(MINS - 1) /\ 0 \in 0..Gap
    OBVIOUS
  <2>5. TypeOK'
    BY <1>1, <1>3, <2>1, <2>2, <2>3, <2>4 DEF TypeOK, Drawing
  <2> QED BY <1>3, <2>1, <2>5 DEF IInv, LoopInv, DelayInv, ReadInv, Reading
<1> QED BY <1>4, <1>5, <1>6, <1>7 DEF Read

\* Every step keeps it.
LEMMA NextIInv == IInv /\ [Next]_vars => IInv'
<1> SUFFICES ASSUME IInv, [Next]_vars PROVE IInv'
  OBVIOUS
<1>1. CASE UNCHANGED vars
  BY <1>1
  DEF vars, hardware, delay, stamp, IInv, TypeOK, LoopInv, DelayInv, ReadInv, Second, Minute
<1>2. CASE Next
  BY <1>2, TickIInv, LoopIInv, ReadIInv DEF Next, Cpu
<1> QED BY <1>1, <1>2

\* The invariant holds in every reachable state of the kernel and its clocks.
THEOREM TimeInvariant == Spec => []IInv
<1> QED BY InitIInv, NextIInv, PTL DEF Spec

----------------------------------------------------------------------------
(***************************************************************************)
(* What the runs check of the small instance                               *)
(***************************************************************************)

\* Every variable keeps its type, and a timestamp is six decimal digits.
THEOREM TimeTypes == Spec => []TypeOK
<1> QED BY TimeInvariant, PTL DEF IInv

\* The main loop begins a frame when it is due and at most a gap later,
\* although its clock comes round every 65536 counts.
THEOREM FramesAreOnTime == Spec => FramesOnTime
<1>1. ASSUME IInv, [Next]_vars, pc = "loop", pc' = "draw"
      PROVE  since - (FRAME_TICKS \div 2) \in 1..Gap
  <2>1. FrameDue
    BY <1>1 DEF Next, Cpu, vars, Tick, FrameDue, FrameNotDue, FrameEnds, mdelay, DelayGoesOn,
      DelayEnds, rtc_read_time, AwaitUpdate, DummyRead, AwaitAgain, ReadSeconds, ReadMinutes,
      ReadHours, ReadStep, Step
  <2>2. 2 * since > FRAME_TICKS
    BY <1>1, <2>1, LoopElapsed DEF FrameDue
  <2>3. 2 * since <= FRAME_TICKS + 2 * idle /\ since \in Nat /\ idle \in 0..Gap
    BY <1>1 DEF IInv, LoopInv, TypeOK
  <2>4. FRAME_TICKS \in Nat /\ FRAME_TICKS % 2 = 0 /\ Gap \in Nat
    BY Constants, GapAssumption
  <2> QED BY <2>2, <2>3, <2>4
<1> QED BY <1>1, TimeInvariant, PTL DEF Spec, FramesOnTime

\* mdelay ends when its milliseconds have been counted, and at most a gap later.
THEOREM DelaysAreCounted == Spec => DelayIsCounted
<1>1. ASSUME IInv, [Next]_vars, pc = "delay", pc' # pc
      PROVE  2 * waited \in target..(target + 2 * Gap)
  <2>1. DelayEnds
    BY <1>1 DEF Next, Cpu, vars, Tick, FrameDue, FrameNotDue, FrameEnds, mdelay, DelayGoesOn,
      DelayEnds, rtc_read_time, AwaitUpdate, DummyRead, AwaitAgain, ReadSeconds, ReadMinutes,
      ReadHours, ReadStep, Step
  <2>2. 2 * waited >= target
    BY <1>1, <2>1, DelayElapsed DEF DelayEnds
  <2>3. waited \in Nat /\ idle \in 0..Gap /\ Gap \in Nat
    BY <1>1, Constants DEF IInv, TypeOK
  <2>4. target \in Nat
    BY <1>1, Targets DEF IInv, TypeOK
  <2>5. waited <= idle \/ 2 * waited < target + 2 * idle
    BY <1>1 DEF IInv, DelayInv
  <2> QED BY <2>2, <2>3, <2>4, <2>5
<1> QED BY <1>1, TimeInvariant, PTL DEF Spec, DelayIsCounted

\* The hours, minutes and seconds of a timestamp belong to one instant.
THEOREM TimeNotTorn == Spec => TimeIsOneInstant
<1>1. ASSUME IInv, [Next]_vars, pc = "hours", pc' # pc
      PROVE  buf' = Format(Hour, Minute, Second)
  <2>1. ReadHours
    BY <1>1 DEF Next, Cpu, vars, Tick, FrameDue, FrameNotDue, FrameEnds, mdelay, DelayGoesOn,
      DelayEnds, rtc_read_time, AwaitUpdate, DummyRead, AwaitAgain, ReadSeconds, ReadMinutes,
      ReadHours, ReadStep, Step
  <2>2. bcd(cmos_read(Hour)) = Hour
    BY <1>1, Registers, Decoded DEF IInv, TypeOK
  <2> QED BY <1>1, <2>1, <2>2 DEF ReadHours, IInv, ReadInv
<1> QED BY <1>1, TimeInvariant, PTL DEF Spec, TimeIsOneInstant
=============================================================================
