# A model of the kernel

iexpos is a small 32-bit x86 kernel: one processor, no interrupts but the debug
exceptions, one main loop that draws a frame, polls the serial line for a
command line or a debugger, and waits for the display. Its hard parts are where
that one processor meets something that does not wait for it: a debugger that
patches the code it is served by, a display that reads memory while it is
written, a serial line that loses bytes, and an abort flag that any wait may
find set.

## Inventory

| Component | State | Operations | Meets | What makes it correct |
|---|---|---|---|---|
| Breakpoint table (`gdb-stub/gdb_stub.c`, `tramp.asm`) | `bp_table`, the patched bytes | Z0, z0, m, M, `bp_remove_all`, `bp_insert_all` | the processor's fetches | memory and table are always a set of breakpoints over the program's own text |
| Traps and command loop (`gdb_stub.c`, `tramp.asm`, `gdb_idt.c`) | trap frames, TF, `gdb_from_poll`, `gdb_handler_depth` | both trampolines, `gdb_handler`, `gdb_poll` | the program it interrupts, the client | a debugged program runs as undebugged; each kind of entry is recognised; nobody waits for somebody who waits |
| Packet framing (`gdb_stub.c`) | `buf`, the pending byte | `gdb_recv`, `gdb_send`, the drain in `gdb_poll` | a lossy line, a client that resends, aborts | a request runs once and is answered |
| Frame buffer (`silx/x86/vga.c`) | `draw_buf`, two pages, `page`, YOFF | `fb_swap` | the display's scan, the abort flag | no refresh is torn, every frame is shown, an abort ends the swap |
| Console (`kernel/console.c`) | the ring, `at_line_start`, `backends` | `bm_puts`, `bm_puts_raw`, registration | serial and screen backend, nested calls from an aborted write | the ring is the tail of the output and every backend shows it in order; stamps begin lines |
| Screen backend (`ui/text.c`) | `scr_grid`, `scr_row`, `scr_col` | `scr_be_write` | the console | the grid is a window on the last rows |
| Command line (`kernel/cli.c`) | `cli_buf`, `cli_pos`, `cli_active` | `cli_poll`, `process_line` | terminal, screen, main loop, stub, the messages of aborts | what is shown is what is run |
| Main loop (`kernel/setup.c`) | `last_frame` | drawing, polling, return on abort | everything above | it comes round |
| UART and abort flag (`silx/x86/uart.c`, `os_regs.h`) | LSR, CR4 bit 24 | busy and non-blocking read and write | every wait | a wait ends, an abort is seen once |
| Interrupt table and trap frame (`gdb-stub/gdb_idt.c`, `tramp.asm`, `gdb_stub.c`) | gates, the stack | `set_gate`, saves and restores of the trampolines, g, G, P | the processor, the client's idea of sixteen registers | what is saved is what is shown, what is written is what is resumed with |
| Timer and clock (`silx/x86/io.c`, `rtc.c`) | a 16-bit counter, CMOS registers | `pit_init`, `elapsed_pit`, `mdelay`, `rtc_read_time`, `rtc_format_ts` | hardware that runs on between two reads | frames and delays last what they count, wherever the counter wraps; a timestamp is of one instant |
| Demo and progress bar (`ui/demos/demo_progress.c`, `ui/ui.c`) | `phase`, `progress_done`, `printed`, `cur_pct`, `cur_txt` | `demo_draw`, `progress_*` | frame buffer, console | the message once, the bar below the text |
| Drawing (`ui/text.c`, `ui/demos/orbit.c`, `silx/x86/vga.c`) | `draw_buf`, `frame` | `init`, `clear`, `putpixel`, `fill_rect`, `draw_str`, `scr_be_flush`, `demo_orbit`, `draw_bar` | the grid, the video mode that was found | a frame shows the text and nothing else of the console, nothing is drawn outside the buffer |
| Boot | addresses found at boot | sector load, mode switch | hardware | outside this project, see below |

`PROJECT.json` lists every hazard at its line.

## Modules

| Module | Models | How it corresponds |
|---|---|---|
| `BpOps` | the table's loops as operators on a memory and a table | `bp_remove_all`, `bp_insert_all`, and the bodies of Z0 and z0; a loop is the function it leaves in memory |
| `Breakpoints` | what breakpoints promise: text, a set of addresses, no table and no patched bytes | abstract specification |
| `BpTable` | the table under a debugger's commands | one action per command; the processor is in the program or in the handler; `text` and `armed` are history |
| `BpTableProofs` | theorems on `BpTable` | |
| `PollLoop` | the main loop undebugged | abstract specification |
| `GdbTrap` | processor, trampolines, `gdb_handler`, `gdb_poll` and a client | the code is cut at nine addresses; a fetch that finds 0xCC in the modelled memory traps, in the handler too; one `Serve` action per command |
| `GdbTrapProofs` | theorems on `GdbTrap` | |
| `GdbPacket` | `gdb_recv`, `gdb_poll` and the ACKs by bytes | one action per read of a byte; the client, the line and the abort flag are the environment |
| `FrameSwap` | main loop, `fb_swap`, display | one action per row copied, per wait and per row scanned |
| `FrameSwapProofs` | theorems on `FrameSwap` | |
| `TrapFrame` | gates, trampolines, `struct regs`, g, G, P, c and s, down to the digits | the stack is a sequence of words, popped in the order the code names; `prog` and `own` are the registers and the stack the program should have |
| `TrapFrameProofs` | theorems on `TrapFrame` | |
| `Time` | the timer with the main loop's pacing and `mdelay`; the clock with `rtc_read_time` | one action per read of a counter or a register; `Tick` moves the hardware between any two |
| `TimeProofs` | theorems on `Time` | |
| `Console` | `console.c` with the serial backend's aborted writes | one action per character and backend; `stack` holds the nested calls |
| `ConsoleProofs` | theorems on `Console` | |
| `ScreenOps`, `Screen` | the grid, and the grid against a sheet without end | one action per character |
| `DrawProofs` | theorems on `Screen` and `Draw` | |
| `DemoOps` | the walk of the bar over the frames | operators on one record of the statics of `demo_progress.c` and `ui.c` |
| `Draw` | what a frame paints, byte by byte, over `Screen` and `DemoOps` | one action per frame, one per character; each drawing function is an operator on the buffer |
| `Cli` | `cli_poll` and `process_line` with terminal and screen, and `demo_draw` between the characters | one action per class of character, one per frame |
| `SerialProofs` | theorems on `Cli` and `GdbPacket` | |
| `MC*` | the instances below | constants and, in `MCBpTable`, a first memory |

`GdbTrap` and `BpTable` share `BpOps`: the first has the interleavings, the
second every memory and every client command. `Cli` feeds the screen with the
operators of `ScreenOps`; `Cli` and `Draw` share `DemoOps`. Operators named
after an action with a suffix (`TurnPageNot`) are the mutants of `PROJECT.json`: plausible bugs that make a
property fail, used by no specification.

## Runs

Passing runs:

| Run | Bounds | Shows |
|---|---|---|
| `bp_table` | 3 addresses, 3 byte values, a table of 2, transfers to 2 bytes | the conjuncts of the invariant (saved bytes, breakpoints while the program runs, clean memory in the handler) and the refinement of `Breakpoints`; the table fills and is refilled out of order |
| `gdb_trap` | 2 entries; breakpoints on the work, on `gdb_poll` and at `gdb_handler`'s entry; 2 trap frames | stops, steps, polls and detaches are told apart and reported; a client is answered in every session, `qSupported` once in each (with fairness); the program runs as `PollLoop` says, never from inside an instruction |
| `gdb_packet` | 2 requests out of 4 (`?`, `D`, `m6d`, `m06d`), buf of 8, 2 bytes lost or altered to `$`, `#`, `+` or `0` anywhere, 1 reply spoilt, 2 aborts before any byte | on a sound line the request runs, once; one byte damaged or one read aborted makes nothing run twice, and something else run only if two bytes happen to read as its checksum; the request is served (with fairness) |
| `trap_frame` | words of 2 bytes of 2 digits below 4; INT1, INT3 and one other exception; 3 writes of 2 values to any register, by the program, P or G | g shows every register of the program; the program resumes with its own registers but for those written, and its own stack |
| `frame_swap` | 2 frames, 3 rows, YOFF, 2 aborts | no tearing, every frame shown, until a wait is aborted; an abort raised in a swap ends it, whatever the display does (with fairness) |
| `console` | ring of 3, the serial line and 2 later backends, 3 calls, 2 aborts | ring, late backends, timestamps, what an abort costs; calls return (with fairness) |
| `screen` | a grid of 3 by 2, 6 characters before the first frame, 4 once there is one, 6 frames, glyphs of 2 by 2, modes of 14 by 11 by 32 bits and 4 by 6 by 8 bits | wrapping and scrolling; each frame shows the rows of the text that fit and nothing of the frames before; nothing is drawn outside the buffer |
| `time` | a counter of 16, frames of 8 counts, delays of 0, 6 and 9 counts, gaps of 2 ticks, a clock of 7 ticks a second and 12 seconds a day in BCD of base 2 | frames and delays last what they count and end; frames keep coming (with fairness); hours, minutes and seconds are of one instant |
| `cli` | lines of up to 3 characters over 3 and one that is not shown, a screen of one row of 6, a bar of 2 steps, an abort of any read, of any character written, of any frame | terminal and screen show the line that Enter runs, whatever was typed, erased, cancelled, run or aborted before its prompt |

The instances are small because what can go wrong needs little room. Two
entries are enough for an order other than that of the addresses, three rows
for a tear at either edge of a row being copied, a ring of three for a wrap
during one call, a grid of 3 by 2 for a wrap that scrolls. One row of the
screen is enough for the line being edited; what scrolls away is `screen`'s
question. The time run begins with the counter at any even count, so that a frame or a
delay meets its wrap at every place; three seconds to a minute carry into the
hours within a day. In the trap frame every register but the selectors
begins with a value of its own, and the client can write any of them: an order
that is wrong anywhere shows. The smaller of the two modes cuts off a column and a row of the grid. The trap run
has every cut of the code as an address, so nothing about it is reduced but the
number of requests on the line (one at a time, as the protocol has it).
`CHECK_DEADLOCK` is off where the bounds on calls, texts, frames, writes and
requests stop the model.

Some properties say how far an abort reaches. `NoTearing` and
`EveryFrameIsShown` hold while `cut` is FALSE: no wait of `fb_swap` has been
aborted yet. `BackendsInStep` and `LinesAreStamped` hold while `dropped` is 0:
no character has been given up on the serial line. `AbortsCostOneChar` and
`CallsReturn` hold whatever is aborted, `AbortEndsSwap` is about the aborts
themselves. `LineIsShown` excuses the line that a character that is not shown,
the demo's message, that of an aborted `fb_swap` (vga.c:307-308) or the trace of
an aborted read (cli.c:135, uart.c:49) or write (uart.c:61) has fallen into,
until the next prompt; an abort in the middle of a command's output, before the
prompt, is no excuse.

`RunsOnlyTheRequest` says how far an 8-bit checksum and `gdb_recv` protect a
request. An abort in the middle of the payload makes the next two bytes the
checksum, and so does a byte that is altered to a `#`: of `$m6d...` the stub may
run `m`, whose checksum is 6d. A `#` that is lost or altered lets the packet run
on into the next. `CutOff` and `RunOn` are these packets and no others; the
payloads `m6d` and `m06d` are there to reach both kinds of the first, and `D`,
sent again behind a `#` that became a `0`, the second. With more than one fault
nothing is said but what `RequestIsServed` says, since two faults can give the
right checksum to many things.

Runs that end in a violation state what a comment, a document or a test says,
and the trace shows what the code does instead. Each is a finding in
`PROJECT.json` with the sentence it quotes:

| Run | The trace |
|---|---|
| `gdb_interrupt` | ^C enters the handler as a poll, and no one speaks |
| `time_rate` | `pit_init` selects mode 3, in which the timer counts by two: a frame is due after 8 ms, not 16 |
| `frame_abort` | an aborted swap leaves `page` and YOFF apart: the next copy is visible |

### Divergences the models show and no run repeats

The models contain these; the guards and premises named here are where they
would show.

* Z0 of an address that has a breakpoint takes a second entry and saves 0xCC as
  the program's byte (`NotYetSet` in `BpTable`): `bp_remove_all` then leaves it
  in memory, against tramp.asm:12-14.
* M over an active breakpoint is undone by the next stop (`WritesClear`).
* A breakpoint on the instruction after the poll's `int $3` finds
  `gdb_from_poll` still set and stops without a T05 (`BpSites`).
* A breakpoint that Z0 sets in the command loop traps in the handler
  (`BpSites`); gdb-over-serial-reentrancy.md:98-99 counts on it never nesting.
* The stub drops the client's NAK, so a damaged reply is not sent again until
  the client asks again (`naked` in `GdbPacket`); gdb-serial.md:37.
* An aborted read of `gdb_recv` ends that read only: the command loop waits on,
  and a packet cut short may run, as an empty one or, if the two bytes behind the
  cut are its checksum, as a part of the request (`CutOff` in `GdbPacket`).
* A packet that begins with `+` or `-` gets an ACK and no reply; damage can turn
  a request into one (`TakenForAck` in `GdbPacket`).
* The trace of a read that `cli_poll` aborts, and the message of `fb_swap`, are
  printed into the line being typed, which is not shown again: what Enter runs
  then begins above the message (`disturbed` in `Cli`).
* Mode 13h has no YOFF: every second copy is visible (`Flips` in `FrameSwap`).
* `bm_puts` after a raw text that does not end its line stamps in the middle of
  the line (`LinesAreStamped` looks at the output of `bm_puts` alone).
* The screen backend drops `\b`: an erased character stays visible there
  (`erased` in `Cli`), and so the prompt and the line differ from the terminal's.
* At 100 percent the label of the bar has two characters for three digits:
  `draw_bar` writes `:0%` (`Digits` in `Draw` reaches past 9).
* The fix-up of EIP never fires at a breakpoint of the table: `bp_remove_all`
  has put the byte back before `gdb_handler` looks for 0xCC, against
  gdb-stub_internal.md:62 (`FixesPc` in `GdbTrap`: the client sees EIP behind the
  INT3 and moves it).
* A detach after a step leaves TF set, and the next instruction stops the kernel
  for a client that is gone (`DetachesAfterStep` in `GdbTrap`).
* A client that vanishes without D and comes back finds its `qSupported`
  unanswered: the mark of the last session is cleared by the next trap only.
* The stub announces packets of 512 bytes and takes those that fit in buf[256].
* A write of ESP by P or G is answered OK, and `popa` ignores it; g shows the ESP
  of `pusha`, three words below the program's (`ShowsProgram` leaves it out).
* `default_tramp` of an exception with an error code pops the code as EIP
  (`ErrorVectors` in `TrapFrame`).
* A delay of 55 ms or more counts past 16 bits and never ends (`GapAssumption`
  in `Time`); nothing in the repository calls `mdelay`.
* In a mode of 24 bits `clear` stores the lowest byte of the colour in all three
  (silx_vga.md:6 lists 24 bpp).
* `init` takes the mode of 0x600 if there is one, but the repository's boot sector
  writes none (bootloader.md:38-56 describes one that does); `init` itself leaves
  it there for the next warm reset to find.
* In mode 13h only the first rows of the text fit and the bar covers some of
  them: the cursor is soon below the picture (`RowFits` in `Draw`).
* A control character is taken into the line and shown nowhere; an erasure then
  removes a visible glyph for it (`hidden` in `Cli`).
* The prompt after `gdb`, and the demo's message, reach the serial line in gdb
  mode.

## Fairness

* `GdbTrap`: the processor executes (weak fairness of `Target`) and the client
  reads what arrives (`Receive`). Nothing makes the client ask or resume.
* `GdbPacket`: the processor executes and the client reads and times out. The
  damage is bounded, so that the line behaves in the end; nothing is answered
  on a line that never does.
* `Time`: time passes (`Tick`) and the processor executes (`Cpu`). Real time is in
  the premises: between two looks at the timer pass at most `Gap` ticks, so
  few that neither a due frame nor the end of a delay is counted past 16 bits
  (`GapAssumption`); three reads of the clock fit in the 244 microseconds for
  which UIP announces an update (`ClockAssumption`). The real constants leave
  some 450 microseconds between two reads of the timer in a delay of 54 ms, and
  80 between two of the clock.
* `FrameSwap`: the processor executes, and nothing is asked of the display. An
  abort ends a swap even if the blank never comes or never goes; without one a
  swap returns when the display lets it, which is not claimed. For the safety
  properties a blank outlasts the two register writes that follow its
  detection (`RefreshBegins`).
* `Console`: the processor executes the call; the transmitter empties.

## Proofs

`BpTableProofs`: `IInv` is the conjunction of the types, one entry per address,
saved bytes that are the program's own, and what memory holds in each of the
two modes. None is inductive alone. Memory after `bp_remove_all` is the text
only if the saved bytes are; the saved bytes are only if Z0 finds the text at a
new address, which needs memory in the handler to be clean and the address to
have no entry. Lemmas `Z0Effect`, `z0Effect` and `RemoveAllRestoresText` say
what the loops do; each action has its lemma, `NextIInv` puts them together.
`BpTableImplements` maps every step to a step of `Breakpoints` or a stutter,
with `FullTable` (a table with no free entry holds as many addresses as
entries) for a refused Z0. They hold for any set of addresses with 0, any set of
bytes with 0 and 0xCC, any size of the table and of transfers, and for a client
that keeps the rules of `GdbClient`.

`FrameSwapProofs`: `IInv` says that the pages take turns, that the visible one
is whole, how far the hidden one is copied, and that what the display has shown
of this refresh is the visible page. The last needs the two waits: a flip comes
only after a whole refresh of the old page. All of this (`PagesInStep`) stands
under `cut = FALSE`; the types (`SwapTypes`) hold always. Assumed (`Flips`):
YOFF works. Aborts, the number of rows and the frames are free; `cut` is a
history variable that an aborted wait sets.

`TimeProofs`: `IInv` adds to the types that the counter is two below
`last_frame` or `start` for each tick since, once round at most (`LoopInv`,
`DelayInv`), and how much of the lead each read of the clock may have used
(`ReadInv`). The first needs a bound on the ticks that have passed: they were too
few at the last look, and a gap has been added. Then `elapsed_pit`, a difference
cut to 16 bits, is twice the ticks (`LoopElapsed`, `DelayElapsed`), and the clock
is not updated before the hours are read. `Decoded` says that `bcd` undoes the
registers. Proved for every width of the counter, length of frames, delays,
gaps, clock and radix under the three assumptions of `Time`, which the real
numbers meet (16 ms are 19088 counts, and even): `FramesOnTime`,
`DelayIsCounted`, `TimeIsOneInstant` and the types.

`GdbTrapProofs`: `IInv` has four parts. `TableOK`: every entry of `bp_table` is
a breakpoint the client may set, with the byte the kernel was linked with.
`MemOK`: a byte of memory is the linked one or a breakpoint's; the program runs
with every breakpoint in place, and `gdb_handler` is entered with none (the
trampoline has called `bp_remove_all`). `CpuOK`: no frame in the program, one
while it is stopped, TF clear in the handler, `gdb_from_poll` set from the
INT3 of `gdb_poll` to the assignment that clears it and nowhere else; the saved EIP
is where the program can go on, or one past a breakpoint that is still set.
`LineOK`: for each state of the client, what is on the line, what could still
stop the program, and how far a step is. The properties are about the line and
the processor, but each step of the command loop needs all four: a client may
move EIP back only because the breakpoint before it is in the table, and a
resumed program may run on only because the saved byte is the linked one. All
theorems stand under `GdbClient`: breakpoints on the work, on `gdb_poll` or at
`gdb_handler`'s entry, a client that moves EIP back after a breakpoint and does
not detach in the middle of a step. The set of sites cannot be larger: a
breakpoint in a trampoline or the command loop traps in the handler, one behind
the poll's INT3 stops with `gdb_from_poll` set; both are listed above. The size
of the table, the bytes and `MaxNest` are free. `PollLoopImplemented` maps every
step to one of `PollLoop` or a stutter: what the program does while it is
debugged is what it does alone.

`ConsoleProofs`: `IInv` says that the cells of the ring, read from `con_start`, are
the end of the log (`RingOK`); that calls nest for aborts only and one that waits
for a nested call is past serial (`StackOK`, `ToursOK`); that backends differ and
serial is the first (`BackendsOK`); how many characters each backend lacks, one on
serial for each abort and one elsewhere for each call that waits (`CountOK`);
and in what state a line is (`LineOK`). `CountOK` holds across aborts, where
`BackendsInStep` says nothing, and gives `AbortsCostOneChar`; the other way round
`BackendsInStep` needs the tours, since a character is in flight between two
backends. Free are the size of the ring, the number of backends, the texts, the
calls and the aborts. `TextsAssumption` and `StampAssumption` say that texts are
made of the characters the model counts, and that no text of `bm_puts` contains
a timestamp's character, which stands for a whole timestamp.

`TrapFrameProofs`: `IInv` says that from the trampoline's last push to its first
pop the stack is `struct regs` over the registers of `prog` (but for the ESP of
`pusha`) on top of the program's own stack, and before that the three words of
the processor. That a client can write no register but the one it names needs the
conversions: a word is four bytes, a byte two digits, and `unhex` undoes `hex`
(`WordOfBytes`, `Digits`, `RoundTrip`), so that a G with one register changed is a
P (`UnpackIs`). The theorems are about the code's own width (`X86`: four bytes of
two hexadecimal digits, TF and IF where EFLAGS has them), the run about a
smaller one that TLC can enumerate. Values, first registers, selectors, writes
and vectors are free, but for `NoErrorCodes`: none of the exceptions that come
pushes an error code, since `default_tramp` does not pop one.

`DrawProofs`, the grid: `IInv` (`Window`) says that every glyph of the text stands before
the cursor on the sheet, no two in one place, and that the grid holds those that
have not scrolled out and is blank elsewhere. That one character moves the cursor
on the sheet as it does in the grid (`EndMoves`) and leaves the rest where it is
(`SheetStays`) needs the sums the sheet is defined by: lemmas `SumExists` to
`TotalSame` say that such a sum exists, grows by one term for one more line, and
depends on the lines above only. `ScrollShown`, `NextRowShown` and `StoreShown`
follow the code. `GridShowsLastRows` holds for every text and every size of the
grid. The inductions behind the sums are made with least elements of sets of
numbers (`Least`), which the provers can handle.

`DrawProofs`, the frame: `DrawIInv` takes that window through characters and
whole texts, and adds what the drawing relies on: nothing has been written below
the cursor (`Untouched`), so that the flush, which stops there, draws all there is
(`FlushedIs`). A text is printed by a fold; `PrintSteps` unfolds it, since a fold
has partial results (`FoldExists`) and they are determined (`FoldsAgree`).
`PixelPlace` and `TouchedIs` say that a pixel has bytes of its own, all of them in
the buffer; from them follow `PaintType` (nothing is drawn outside) and `PaintAt`
(what a drawing function changes). `FrameShows` then goes through a frame: the
clear reaches every pixel (`ClearShows`), the flush shows the text (`FlushShows`),
the orbit changes its squares only (`OrbitDraws`), the bar its strip only
(`BarBelow`). Mode, font, tables, texts and sizes are free, but for
`ModeAssumption` (8, 24 or 32 bits to a pixel), `FontAssumption` (a glyph's pixels
lie in its cell, and there is one for unknown characters) and `LayoutAssumption`
(the bar's text is no higher than the strip): those of the code. `FramesShowText`
excludes modes of 24 bits, of which `PictureShowsText` is not true: `clear` stores
the lowest byte of the colour three times there.

`SerialProofs`, the command line: `IInv` has two parts. `Types` are the types.
`Reads` is what makes the line a reader sees the line that Enter runs: after the
prompt, the terminal shows `cli_buf` with its cursor behind it and nothing but blanks
to the right (`TermShows`), and so does the last row of the screen until something is
erased (`ScreenShows`, which leaves out a line that has wrapped), as long as no message
has come between (`disturbed`). It holds when a line is typed and when it is erased
(`TermErases`); the step that is hard is Enter, after
which any amount of text comes before the next prompt. `OutputEnds` says that
the echo of Enter and whatever a command prints after it end in a newline, so that a
prompt is always read from an empty line (`TermReads`, `ScreenReads`), wherever the grid
scrolls. An abort of a write puts a line of its own in place of a character
(`PutsParts`). What comes before the prompt still ends in a newline (`PutsEnds`), unless
it was that very newline which the terminal lost: then the trace ends one. An abort of
the prompt itself leaves a rest of it that is no prompt, and the line is disturbed
(`PromptRead`). Texts are folds, unfolded by `ScreenSteps` and `TermSteps` as in `DrawProofs`.
`CliTypes` and `LineShown` hold for every alphabet, prompt, command, size of the line
and of the grid, wherever the demo, an aborted read, write or swap prints. Assumed, in `Cli`, because cli.c
has it so: the prompt is of glyphs (`PromptAssumption`), every text that a prompt may
follow ends in a newline (`TextAssumption`), and so do the traces and the reports of
`test`, on the terminal and on the screen (`MessageAssumption`); backspace is no glyph
(`BSAssumption`).

`SerialProofs`, packets: `PacketIInv` are the types and two facts without which they
are not inductive: gdb_recv reads a byte of the packet only below the last place of
the buffer, and a hunt for a '$' begins with an empty one. They hold whatever the
line and the aborts do. The bytes on the line need the checksum to be a byte
(`ChecksumType`, a fold once more) and its two digits to be read back by `h2v`
(`TrailerType`). `BufAssumption` asks for a buffer of two bytes at least, since with
one gdb_recv would read no byte of a packet, and the model does read one.
`SoundLineRunsTheRequest` is about a history in which no byte was lost or altered and
no wait was aborted: `Stages` lists where a request can then be, from the client's
frame to the stub's reply, and each read of a byte moves it on; while the packet is
read, what is in the buffer and what is on the line make up what the client sent
(`Reading`). Then the stub runs the request once and nothing else, refused replies and
ACKs in front of a packet included: what `GdbTrap` takes for granted when it carries
whole packets. `Fits` asks that a request leave the buffer a byte more than its NUL;
one longer by a byte loses its '#' to the first digit.

Checked by TLC only: everything temporal under fairness (the prover does not
reason about ENABLED); and what `RunsOnlyTheRequest` says of a line that does damage
or of a wait that is aborted, which depends on where the receiver is when a packet is
sent again: it holds for the payloads and the damage of the run.

## Abstractions

* A processor is its fetches at the cuts; between two cuts nothing observes the
  code. A command of the debugger is one step: the handler is not interrupted.
* `GdbTrap` carries packets, `GdbPacket` bytes. In the second a reply is one
  message, a command has no effect but its answer, and aborts meet reads only
  (writes are in `Console`). What the client has sent may not have arrived yet:
  `gdb_recv` may wait, and be aborted, between any two bytes of a packet, while
  `gdb_poll` sees what is pending, one byte or more, when it looks.
  The trace an aborted read prints is text without
  a packet, which the client skips: it is left out.
* A timestamp, the abort trace, the overflow marker are one character each.
* `Cli` takes glyphs, one character that is not shown, backspace or DEL, Enter
  and Ctrl-C; a tab and a character too many are stutters. The lines `help` and
  `info` print what the model is given. `test` reports either result: a byte
  typed ahead makes the loopback test fail and leaves its last byte, an Enter,
  which is one of the characters that may be typed next. The abort flag is no
  variable: any step that samples it may find it raised, and the loop's own test,
  at which the main loop returns, is the end of the behaviour. At most one abort
  falls into the answer to a line and one into a prompt, and one into the echo of
  a character; a trace that is aborted itself is given by two texts, one for the
  terminal and one for the screen.
* `Cli` and `Draw` take the frame buffer as ready (`ready` of ui.c). In `Draw`
  the glyphs, the two tables of the orbit and the texts of the bar are
  constants; a frame is drawn in one step, the display reads it in `FrameSwap`.
  The run's modes have 32 or 8 bits, those the code sets itself.
* In `TrapFrame` breakpoints and the order of traps are left to `GdbTrap`; a
  client writes to a segment register what the processor can load.
* In `Time` a frame waits by `mdelay`, prints one timestamp or does neither, and
  its drawing takes any time. Polling the serial line is the gap between two
  looks at the timer: a session of the debugger, which may be longer, is not in
  the module.
* A fifth backend is turned away silently: no step.
* The abort flag is raised by the environment: `abort_io` has no caller here.
* `FrameSwap` takes a frame buffer for granted (`fb_swap` returns at once
  without one).

Not modelled: boot sector and entry (straight-line, before there is any state),
the register writes that set a video mode and its virtual width (one fact in
`Draw`: does the adapter answer), `write_dec`, the CPU check and the order of
the initialisations in `setup_main`, the build scripts and tests.

## Plan

Modelled in this order, since most depends on the first: the table, the traps,
the framing, the page flip, console, screen and command line, then the trap
frame, the two clocks and the drawing. Next:

1. `MainLoop`: the abort flag with all its readers; an abort reaches the loop
   or is spent by a wait that ends.
2. The loopback test byte by byte, with the one-byte receiver of the UART.
3. `Reply`: sizes of replies against `reply[1024]`.
4. `BpTable` under a client that writes over breakpoints.

Theorems to add with them: that an abort is spent once, and that no reply is longer
than its buffer.
