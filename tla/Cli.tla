-------------------------------- MODULE Cli --------------------------------
(***************************************************************************)
(* The command line of the kernel (kernel/cli.c) in the main loop          *)
(* (kernel/setup.c), with the two places its output goes: the terminal at  *)
(* the other end of the serial line and the screen backend.                *)
(*                                                                         *)
(* The terminal is external: '\n' begins a line, '\b' moves the cursor     *)
(* left, a glyph replaces what is under the cursor.  Only its last line is *)
(* kept.  The main loop also draws: the demo walks a progress bar over the *)
(* frames (DemoOps) and prints one message of its own when that is done,   *)
(* in the middle of whatever is being typed.                               *)
(*                                                                         *)
(* The io abort flag may be raised at any time, any number of times, and   *)
(* whoever samples it next takes it (is_aborting): cli_poll's read and the *)
(* waits of fb_swap then give up with a message, a write to the serial     *)
(* line with a trace in place of the character it waited to send.  If      *)
(* nobody else does, the test at the end of the loop takes it, in the pass *)
(* in which it was raised, and the main loop is left for good.  The flag   *)
(* is thus no variable: a step that samples it may find it raised.  At     *)
(* most one abort falls into the answer to a line, and one into a prompt.  *)
(***************************************************************************)
EXTENDS ScreenOps, DemoOps, SequencesExt

CONSTANTS
  CLI_BUF_SIZE,   \* 128 in the code
  Prompt,         \* "$ "
  BS,             \* '\b' or DEL
  Unseen,         \* NUL and the characters a terminal and the screen do not show
  Cancelled,      \* "^C\n", the echo of Ctrl-C
  Commands,       \* the lines "help" and "info", each with what it prints
  GdbCommand, TestCommand,   \* the lines "gdb" and "test"
  EchoPrefix, HexPrefix,     \* "echo " and "hex "
  DigitValue, HexDigit,      \* the value of a decimal digit, the digit of a nibble
  RADIX, NIBBLE, WIDTH, ZeroX,   \* 10, 16, 8 nibbles and "0x"
  UnknownText, TypeHelp,     \* printed around any other line
  Switching,      \* what gdb prints
  \* What comes out on the terminal and on the screen, on each with its own
  \* characters and timestamps, an abort of the printing itself included:
  Reports,        \* of test: "SRW:P\n" or "SRW:F\n", for the terminal only
  DemoMessages,   \* of the demo: "Graphics test complete"
  SwapMessages,   \* of fb_swap: "fb_swap: io abort\r\n"
  AbortTraces     \* of uart.c: "ABORT: UART read\n" and the like

ASSUME BufferAssumption == CLI_BUF_SIZE \in Nat \ {0}
ASSUME UnseenAssumption == NUL \in Unseen /\ Unseen \cap (Glyphs \cup {NL, BS}) = {}
ASSUME BSAssumption == BS \notin Glyphs \cup {NL}

Chars == Glyphs \cup Unseen \cup {NL, BS}
Ended(V) == {s \in Seq(V) : s # <<>> /\ s[Len(s)] = NL}   \* texts that end a line

\* The texts of cli.c: the prompt is one of glyphs, and all before it end a line.
ASSUME PromptAssumption == Prompt \in Seq(Glyphs)
ASSUME TextAssumption ==
  /\ \A cmd \in DOMAIN Commands : Commands[cmd] \in Ended(Chars)
  /\ {Cancelled, TypeHelp, Switching} \subseteq Ended(Chars)
  /\ {UnknownText, EchoPrefix, HexPrefix, ZeroX} \subseteq Seq(Chars)
  /\ WIDTH \in Nat
ASSUME MessageAssumption ==
  /\ \A r \in Reports : r.term \in Ended(Chars) /\ r.scr \in Ended(Chars) \cup {<<>>}
  /\ \A t \in AbortTraces : t.term \in Ended(Chars) /\ t.scr \in Ended(Chars)
  /\ \A m \in DemoMessages \cup SwapMessages : m.term \in Seq(Chars) /\ m.scr \in Seq(Chars)

VARIABLES
  cli_buf, cli_active,
  bar,         \* of demo_progress.c and ui.c
  term,        \* the terminal: the glyphs of its last line, and the cursor
  scr,         \* the screen backend
  \* history variables, of what came after the last prompt:
  disturbed,   \* a message of the demo or of an abort
  erased,      \* a backspace that erased
  hidden       \* a character that is not shown

typed == <<disturbed, erased, hidden>>
vars == <<cli_buf, cli_active, bar, term, scr, typed>>

----------------------------------------------------------------------------
\* The terminal
EmptyLine == [line |-> <<>>, cur |-> 0]

Show(t, c) ==
  IF c = NL THEN EmptyLine
  ELSE IF c \in Unseen THEN t
  ELSE IF c = BS THEN [t EXCEPT !.cur = IF @ = 0 THEN 0 ELSE @ - 1]
  ELSE [line |-> SubSeq(t.line, 1, t.cur) \o <<c>>
                   \o SubSeq(t.line, t.cur + 2, Len(t.line)),
        cur |-> t.cur + 1]

\* What a reader sees: blanks at the end of a line cannot be told from none.
Trimmed(s) ==
  LET ink == {i \in 1..Len(s) : s[i] # Space}
  IN  IF ink = {} THEN <<>> ELSE SubSeq(s, 1, CHOOSE i \in ink : \A j \in ink : j <= i)

OnTerm(s) == term' = FoldLeft(Show, term, s)
OnScreen(s) == scr' = FoldLeft(scr_be_write, scr, s)

(***************************************************************************)
(* What is printed, as it comes out on the terminal and on the screen.     *)
(* Each character goes to the serial backend first.  If its write is       *)
(* aborted (uart_busy_write) the trace is printed, to both, and the        *)
(* character is lost to the terminal; the screen gets it after the trace.  *)
(***************************************************************************)
Whole(s) == [term |-> s, scr |-> s]
Aborted(s, k, t) ==
  [term |-> SubSeq(s, 1, k - 1) \o t.term \o SubSeq(s, k + 1, Len(s)),
   scr  |-> SubSeq(s, 1, k - 1) \o t.scr \o SubSeq(s, k, Len(s))]

puts(s) == {Whole(s)} \cup {Aborted(s, k, t) : k \in 1..Len(s), t \in AbortTraces}

Then(m, n) == [term |-> m.term \o n.term, scr |-> m.scr \o n.scr]
Silence == Whole(<<>>)
Out(m) == OnTerm(m.term) /\ OnScreen(m.scr)

----------------------------------------------------------------------------
(***************************************************************************)
(* process_line: the line ends at a NUL, leading blanks are skipped and    *)
(* what is left is compared with the commands.  The loopback test reports  *)
(* past the console, on the serial line only.  It may take a character     *)
(* that was typed ahead for its own, fail, and leave its last one, a '\n', *)
(* to be read as an Enter: all of that is among what may be typed here.    *)
(***************************************************************************)
FirstOr(S, n) == Min(S \cup {n})

CString(s) == SubSeq(s, 1, FirstOr({i \in 1..Len(s) : s[i] = NUL}, Len(s) + 1) - 1)
Stripped(s) ==
  SubSeq(s, FirstOr({i \in 1..Len(s) : s[i] # Space}, Len(s) + 1), Len(s))

\* The number that the argument begins with, as an unsigned word
cmd_hex(arg) ==
  LET digits == SubSeq(arg, 1, FirstOr({i \in 1..Len(arg) : arg[i] \notin DOMAIN DigitValue},
                                       Len(arg) + 1) - 1)
      val == FoldLeft(LAMBDA v, c : (v * RADIX + DigitValue[c]) % (NIBBLE ^ WIDTH), 0, digits)
  IN  ZeroX \o [i \in 1..WIDTH |-> HexDigit[(val \div (NIBBLE ^ (WIDTH - i))) % NIBBLE]]
            \o <<NL>>

After(prefix, cmd) == SubSeq(cmd, Len(prefix) + 1, Len(cmd))

Output(cmd) ==
  IF cmd \in {<<>>, TestCommand} THEN <<>>
  ELSE IF cmd \in DOMAIN Commands THEN Commands[cmd]
  ELSE IF cmd = GdbCommand THEN Switching
  ELSE IF IsPrefix(EchoPrefix, cmd)
  THEN After(EchoPrefix, cmd) \o <<NL>>
  ELSE IF IsPrefix(HexPrefix, cmd) THEN cmd_hex(After(HexPrefix, cmd))
  ELSE UnknownText \o cmd \o TypeHelp

\* cli_init prints the first prompt.
Init ==
  /\ cli_buf = <<>>
  /\ cli_active = TRUE
  /\ bar = FirstBar
  /\ erased = FALSE /\ hidden = FALSE
  /\ \E p \in puts(Prompt) :
       /\ term = FoldLeft(Show, EmptyLine, p.term)
       /\ scr = FoldLeft(scr_be_write, EmptyScreen, p.scr)
       /\ disturbed = (p # Whole(Prompt))

----------------------------------------------------------------------------
\* cli_poll with one character to read, by the class of the character

\* What m is, then the prompt: a new line begins, which only an abort of the
\* prompt itself can disturb.
NewPrompt(m) ==
  /\ \E p \in puts(Prompt) : Out(Then(m, p)) /\ disturbed' = (p # Whole(Prompt))
  /\ erased' = FALSE /\ hidden' = FALSE

\* The echo of a character in the line
Echo(s) == \E m \in puts(s) : Out(m) /\ disturbed' = (disturbed \/ m # Whole(s))

EnterLine ==
  /\ cli_active
  /\ cli_buf # <<>>
  /\ LET cmd == Stripped(CString(cli_buf))
     IN  /\ cli_active' = (cmd # GdbCommand)
         /\ \E m \in puts(<<NL>> \o Output(cmd)),
               report \in IF cmd = TestCommand THEN Reports ELSE {Silence} :
              NewPrompt(Then(m, report))
  /\ cli_buf' = <<>>
  /\ UNCHANGED bar

EnterNothing ==
  /\ cli_active
  /\ cli_buf = <<>>
  /\ \E m \in puts(<<NL>>) : NewPrompt(m)
  /\ UNCHANGED <<cli_buf, cli_active, bar>>

Erase ==
  /\ cli_active
  /\ cli_buf # <<>>
  /\ cli_buf' = Front(cli_buf)
  /\ Echo(<<BS, Space, BS>>)
  /\ erased' = TRUE
  /\ UNCHANGED <<cli_active, bar, hidden>>

\* Mutant of CancelLine: cli_pos is not reset.
CancelLineKeeps ==
  /\ cli_active
  /\ \E m \in puts(Cancelled) : NewPrompt(m)
  /\ UNCHANGED <<cli_buf, cli_active, bar>>

CancelLine ==
  /\ cli_active
  /\ \E m \in puts(Cancelled) : NewPrompt(m)
  /\ cli_buf' = <<>>
  /\ UNCHANGED <<cli_active, bar>>

\* Mutant of TypeGlyph: no room is left for the final NUL.
TypeGlyphFills(c) ==
  /\ cli_active
  /\ Len(cli_buf) < CLI_BUF_SIZE
  /\ cli_buf' = Append(cli_buf, c)
  /\ Echo(<<c>>)
  /\ hidden' = (hidden \/ c \in Unseen)
  /\ UNCHANGED <<cli_active, bar, erased>>

TypeGlyph(c) ==
  /\ cli_active
  /\ Len(cli_buf) < CLI_BUF_SIZE - 1
  /\ cli_buf' = Append(cli_buf, c)
  /\ Echo(<<c>>)
  /\ hidden' = (hidden \/ c \in Unseen)
  /\ UNCHANGED <<cli_active, bar, erased>>

\* The read is aborted: the character stays where it is, and is read later.
ReadGivesUp ==
  /\ cli_active
  /\ \E t \in AbortTraces : Out(t)
  /\ disturbed' = TRUE
  /\ UNCHANGED <<cli_buf, cli_active, bar, erased, hidden>>

\* A tab, a backspace on an empty line and a glyph too many are read and
\* change nothing: they are stuttering steps.
cli_poll ==
  \/ EnterLine \/ EnterNothing \/ Erase \/ CancelLine \/ ReadGivesUp
  \/ \E c \in Glyphs \cup Unseen : TypeGlyph(c)

\* demo_draw and fb_swap, in a frame that is due, as far as they print: the
\* demo once, when its bar is done, and fb_swap if a wait is aborted.  What
\* they draw and swap is Draw's and FrameSwap's.
demo_draw ==
  /\ bar' = NextBar(bar)
  /\ \E m \in IF bar'.progress_done /\ ~bar.progress_done THEN DemoMessages ELSE {Silence},
        n \in SwapMessages \cup {Silence} :
       Out(Then(m, n)) /\ disturbed' = (disturbed \/ Then(m, n) # Silence)
  /\ UNCHANGED <<cli_buf, cli_active, erased, hidden>>

\* In gdb mode the main loop calls gdb_poll, and no line is read any more.
\* What the stub and its client exchange is GdbPacket's; an aborted read
\* leaves its trace here too.
gdb_poll ==
  /\ ~cli_active
  /\ \E t \in AbortTraces \cup {Silence} : Out(t)
  /\ UNCHANGED <<cli_buf, cli_active, bar, typed>>

\* When the loop's own test finds the flag raised, the main loop returns and
\* nothing follows, as any behaviour may end.
Next == cli_poll \/ demo_draw \/ gdb_poll

Spec == Init /\ [][Next]_vars

----------------------------------------------------------------------------
(***************************************************************************)
(* Properties                                                              *)
(***************************************************************************)

\* The variables keep their types and the line leaves room for its final NUL.
TypeOK ==
  /\ cli_buf \in Seq(Glyphs \cup Unseen) /\ Len(cli_buf) <= CLI_BUF_SIZE - 1
  /\ {cli_active, disturbed, erased, hidden} \subseteq BOOLEAN
  /\ bar \in Bars
  /\ term.cur \in 0..Len(term.line)
  /\ scr \in Screens

\* kernel-cli.md:110, "line editing via backspace/Ctrl-C": the terminal shows
\* the prompt and the line that Enter would run, whatever was typed, erased,
\* cancelled or run before: what is run is what is seen.  So does the screen,
\* as long as the line fits in a row and nothing has been erased (the screen
\* drops the '\b' of an erasure).
\* A line is excused into which the demo's message, fb_swap's or the trace of
\* an aborted read or write has come since its prompt, or a character that is
\* not shown; the next prompt puts an end to that, even if an abort falls into
\* what is printed before it.
Shown == Prompt \o cli_buf
ScreenRow == [j \in 1..scr.col |-> scr.grid[scr.row][j - 1]]

LineIsShown ==
  cli_active /\ ~disturbed /\ ~hidden =>
    /\ Trimmed(term.line) = Trimmed(Shown)
    /\ term.cur = Len(Shown)
    /\ ~erased /\ Len(Shown) < SCR_COLS => Trimmed(ScreenRow) = Trimmed(Shown)
=============================================================================
