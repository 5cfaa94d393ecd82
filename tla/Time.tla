-------------------------------- MODULE Time --------------------------------
(***************************************************************************)
(* The kernel and its two clocks.  The timer (silx/x86/io.c, io.h) counts  *)
(* down and wraps around; the main loop paces its frames by it             *)
(* (kernel/setup.c) and mdelay waits by it.  The real-time clock           *)
(* (silx/x86/rtc.c) is read register by register for the timestamps of the *)
(* console, while it may move on.                                          *)
(*                                                                         *)
(* A tick is one cycle of the timer's clock, 1193182 of them a second.     *)
(* Between two looks at the timer pass at most Gap ticks, between two      *)
(* steps of rtc_read_time at most ReadGap; drawing may take any time.      *)
(***************************************************************************)
EXTENDS Integers

CONSTANTS
  W,                 \* values of the counter; 2^16 in the code
  FRAME_TICKS,       \* 16 * PIT_MS: the ticks of 16 milliseconds
  PIT_MS,            \* the ticks of one
  Delays,            \* the milliseconds mdelay is called with
  Gap, ReadGap,
  PERIOD,            \* ticks from one update of the clock to the next
  LEAD,              \* ticks before an update during which UIP is set
  BASE, NIBBLE,      \* 10 and 16: a BCD register
  SECS, MINS, HOURS  \* 60, 60, 24

ASSUME GapAssumption ==
  /\ {W, FRAME_TICKS, PIT_MS, Gap, ReadGap} \subseteq Nat \ {0} /\ Delays \subseteq Nat
  /\ ReadGap <= Gap
  /\ W % 2 = 0 /\ FRAME_TICKS % 2 = 0
  /\ FRAME_TICKS + 2 * Gap < W                         \* a due frame is seen
  /\ \A ms \in Delays : ms * PIT_MS + 2 * Gap <= W     \* and so is a delay's end
ASSUME ClockAssumption ==
  /\ LEAD \in Nat /\ 3 * ReadGap <= LEAD           \* three reads fit in the lead
  /\ PERIOD \in Nat /\ LEAD + 2 * ReadGap < PERIOD
ASSUME RadixAssumption ==
  /\ {BASE, NIBBLE, SECS, MINS, HOURS} \subseteq Nat \ {0} /\ BASE <= NIBBLE
  /\ \A n \in {SECS, MINS, HOURS} : n <= BASE * BASE      \* two digits

VARIABLES
  counter,       \* the timer
  phase, t,      \* the clock: ticks since its last update, and its time in seconds
  pc,
  last_frame,    \* of setup_main
  start, target, \* of mdelay
  s, m,          \* of rtc_read_time
  buf,           \* of rtc_format_ts: the six digits
  \* history variables:
  idle,          \* ticks since the processor's last step
  since,         \* ticks since last_frame was read
  waited         \* ticks since mdelay was called

hardware == <<counter, phase, t>>
delay == <<start, target, waited>>
stamp == <<s, m, buf>>
vars == <<hardware, pc, last_frame, delay, stamp, idle, since>>

Drawing == {"draw", "drawn"}
Reading == {"wait", "dummy", "waitagain", "seconds", "minutes", "hours"}

----------------------------------------------------------------------------
(***************************************************************************)
(* The hardware.  The control word 0x36 of pit_init selects mode 3, a      *)
(* square wave: the 8254 counts down by two, once for each half of it.     *)
(* UIP is set for the last LEAD ticks before an update of the clock.       *)
(***************************************************************************)
pit_init == [mode |-> 3, count |-> 0]
CountBy == IF pit_init.mode = 3 THEN 2 ELSE 1
Capped(n) == IF n < 2 * W THEN n + 1 ELSE n     \* bound of the histories
UIP == phase >= PERIOD - LEAD

Tick ==
  /\ pc \in Drawing \/ idle < IF pc \in Reading THEN ReadGap ELSE Gap
  /\ idle' = IF pc \in Drawing THEN 0 ELSE idle + 1
  /\ counter' = (counter - CountBy) % W
  /\ phase' = (phase + 1) % PERIOD
  /\ t' = IF phase' = 0 THEN (t + 1) % (HOURS * MINS * SECS) ELSE t
  /\ since' = IF pc = "loop" THEN Capped(since) ELSE since
  /\ waited' = IF pc = "delay" THEN Capped(waited) ELSE waited
  /\ UNCHANGED <<pc, last_frame, start, target, stamp>>

\* The registers: BCD, twenty-four hours
Second == t % SECS
Minute == (t \div SECS) % MINS
Hour == t \div (SECS * MINS)
cmos_read(v) == (v \div BASE) * NIBBLE + (v % BASE)

----------------------------------------------------------------------------
Step(from, to) == pc = from /\ pc' = to /\ idle' = 0 /\ UNCHANGED hardware

Init ==
  /\ counter \in {n \in 0..(W - 1) : n % CountBy = pit_init.count}
  /\ phase \in 0..(PERIOD - 1) /\ t = 0
  /\ pc = "loop" /\ last_frame = counter /\ since = 0 /\ idle = 0
  /\ start = 0 /\ target = 0 /\ waited = 0
  /\ s = 0 /\ m = 0 /\ buf = <<>>

\* Mutants of elapsed_pit: the operands swapped; not cut to the counter's width.
elapsed_pitSwapped(from) == (counter - from) % W
elapsed_pitUncut(from) == from - counter
elapsed_pit(from) == (from - counter) % W

\* The main loop: a frame is due or it is not.
FrameDue ==
  /\ elapsed_pit(last_frame) > FRAME_TICKS
  /\ Step("loop", "draw")
  /\ UNCHANGED <<last_frame, delay, stamp, since>>

FrameNotDue ==
  /\ elapsed_pit(last_frame) <= FRAME_TICKS
  /\ Step("loop", "loop")
  /\ UNCHANGED <<last_frame, delay, stamp, since>>

\* Out of demo_draw and fb_swap
FrameEnds ==
  /\ Step("draw", "loop") \/ Step("drawn", "loop")
  /\ last_frame' = counter
  /\ since' = 0
  /\ buf' = <<>>
  /\ UNCHANGED <<delay, s, m>>

\* A frame may wait by mdelay, or print a line with a timestamp.
mdelay(ms) ==
  /\ Step("draw", "delay")
  /\ start' = counter
  /\ target' = ms * PIT_MS
  /\ waited' = 0
  /\ UNCHANGED <<last_frame, stamp, since>>

DelayGoesOn ==
  /\ elapsed_pit(start) < target
  /\ Step("delay", "delay")
  /\ UNCHANGED <<last_frame, delay, stamp, since>>

DelayEnds ==
  /\ elapsed_pit(start) >= target
  /\ Step("delay", "drawn")
  /\ start' = 0 /\ target' = 0 /\ waited' = 0
  /\ UNCHANGED <<last_frame, stamp, since>>

----------------------------------------------------------------------------
(***************************************************************************)
(* rtc_read_time and rtc_format_ts                                         *)
(***************************************************************************)
ReadStep(from, to) == Step(from, to) /\ UNCHANGED <<last_frame, delay, since>>

\* Mutant of bcd: the register is taken for a binary number.
bcdBinary(v) == v
bcd(v) == (v \div NIBBLE) * BASE + (v % NIBBLE)

Format(h, mi, se) ==
  <<h \div BASE, h % BASE, mi \div BASE, mi % BASE, se \div BASE, se % BASE>>

rtc_read_time == ReadStep("draw", "wait") /\ buf' = <<>> /\ UNCHANGED <<s, m>>

AwaitUpdate ==
  /\ IF UIP THEN ReadStep("wait", "wait") ELSE ReadStep("wait", "dummy")
  /\ UNCHANGED stamp

DummyRead == ReadStep("dummy", "waitagain") /\ UNCHANGED stamp

\* Mutant of AwaitAgain: the second wait is left out.
AwaitAgainNot == ReadStep("waitagain", "seconds") /\ UNCHANGED stamp

AwaitAgain ==
  /\ IF UIP THEN ReadStep("waitagain", "waitagain") ELSE ReadStep("waitagain", "seconds")
  /\ UNCHANGED stamp

ReadSeconds ==
  ReadStep("seconds", "minutes") /\ s' = bcd(cmos_read(Second)) /\ UNCHANGED <<m, buf>>

ReadMinutes ==
  ReadStep("minutes", "hours") /\ m' = bcd(cmos_read(Minute)) /\ UNCHANGED <<s, buf>>

ReadHours ==
  /\ ReadStep("hours", "drawn")
  /\ buf' = Format(bcd(cmos_read(Hour)), m, s)
  /\ s' = 0 /\ m' = 0

Cpu ==
  \/ FrameDue \/ FrameNotDue \/ FrameEnds
  \/ (\E ms \in Delays : mdelay(ms)) \/ DelayGoesOn \/ DelayEnds
  \/ rtc_read_time \/ AwaitUpdate \/ DummyRead \/ AwaitAgain
  \/ ReadSeconds \/ ReadMinutes \/ ReadHours

Next == Tick \/ Cpu

Spec == Init /\ [][Next]_vars

\* Time passes and the processor executes.
FairSpec == Spec /\ WF_vars(Tick) /\ WF_vars(Cpu)

----------------------------------------------------------------------------
(***************************************************************************)
(* Properties                                                              *)
(***************************************************************************)

\* Every variable keeps its type; what a timestamp shows are decimal digits.
TypeOK ==
  /\ counter \in 0..(W - 1) /\ phase \in 0..(PERIOD - 1)
  /\ t \in 0..(HOURS * MINS * SECS - 1)
  /\ pc \in {"loop", "delay"} \cup Drawing \cup Reading
  /\ {last_frame, start} \subseteq 0..(W - 1) /\ target \in {0} \cup {ms * PIT_MS : ms \in Delays}
  /\ s \in 0..(SECS - 1) /\ m \in 0..(MINS - 1)
  /\ buf = <<>> \/ buf \in [1..6 -> 0..(BASE - 1)]
  /\ idle \in 0..Gap /\ {since, waited} \subseteq 0..(2 * W)

\* A frame begins when more than FRAME_TICKS have been counted since the last
\* one ended, which takes half as many ticks, and not more than a gap late,
\* wherever the counter wraps around.
FramesOnTime ==
  [][pc = "loop" /\ pc' = "draw" =>
       since - (FRAME_TICKS \div 2) \in 1..Gap]_vars

\* io.h:16, "16 ms per frame", of a counter that "free-runs at the full
\* 1.193182 MHz clock" (io.c:3-5): a frame takes no less.
FrameTakesItsTime == [][pc = "loop" /\ pc' = "draw" => since > FRAME_TICKS]_vars

\* Frames keep coming: no wrap of the counter hides that one is due for ever.
FramesKeepComing == []<>(pc = "draw")

\* mdelay (bare-metal-interface.md:55) ends when its milliseconds have been
\* counted, in half of them, and at most a gap later.
DelayIsCounted ==
  [][pc = "delay" /\ pc' # pc => 2 * waited \in target..(target + 2 * Gap)]_vars

\* Both waits end: mdelay, and the reading of the clock, which has no abort.
WaitsEnd == pc \in Reading \cup {"delay"} ~> pc = "drawn"

\* A timestamp is the time of one instant: hours, minutes and seconds belong
\* together although the clock runs on between the reads.
TimeIsOneInstant == [][pc = "hours" /\ pc' # pc => buf' = Format(Hour, Minute, Second)]_vars
=============================================================================
