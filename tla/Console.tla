------------------------------ MODULE Console ------------------------------
(***************************************************************************)
(* The console (kernel/console.c): every character goes into a ring of the *)
(* last CON_BUF_SIZE characters and to each registered backend in turn; a  *)
(* backend that registers late is shown the ring first.                    *)
(*                                                                         *)
(* The serial backend is a busy wait (silx/x86/serial.c, uart.c).  A wait  *)
(* that sees the abort flag calls bm_puts itself, in the middle of a       *)
(* character's tour of the backends, so calls nest: stack holds one frame  *)
(* for each console_write in progress.                                     *)
(*                                                                         *)
(* The nine characters of a timestamp are the one character TS, those of   *)
(* "ABORT: UART busy write" the one character ABT, those of the overflow   *)
(* marker the one character MARK.                                          *)
(***************************************************************************)
EXTENDS Naturals, Sequences, FiniteSets, Functions

CONSTANTS
  CON_BUF_SIZE,   \* characters the ring holds; 4096 in the code
  MAX_BE,         \* backends the console takes; 4 in the code
  Serial,         \* the backend console_write registers by itself
  Others,         \* the backends that ui_init and the like register
  Texts,          \* the texts given to bm_puts
  RawTexts,       \* the texts given to bm_puts_raw
  NUL, NL, TS, ABT, MARK,   \* what fills the ring at start, and the marks above
  MaxCalls,       \* bound on the calls of the program
  MaxAborts       \* bound on the calls of abort_io

ASSUME RingAssumption == CON_BUF_SIZE \in Nat \ {0}
ASSUME BackendsAssumption == MAX_BE \in Nat \ {0} /\ Serial \notin Others
ASSUME BoundsAssumption == MaxCalls \in Nat /\ MaxAborts \in Nat

VARIABLES
  con_buf, con_start, con_len, con_overflow, at_line_start,
  backends,   \* the registered backends, in order
  stack,      \* the calls in progress, the innermost first
  aborting,   \* the abort flag of the processor
  calls, aborts,
  \* history variables:
  shown,      \* what each backend has been given
  log,        \* every character ever put into the ring
  said,       \* those of log that a bm_puts has put there
  joined,     \* how long log was when a backend registered
  dropped     \* the characters serial lost to an abort

ring == <<con_buf, con_start, con_len, con_overflow, log, said>>
vars == <<ring, at_line_start, backends, stack, aborting, calls, aborts,
          shown, joined, dropped>>

Backends == {Serial} \cup Others
Registered == Range(backends)
Chars == {NL, TS, ABT} \cup UNION {Range(s) : s \in Texts \cup RawTexts}

ASSUME TextsAssumption == Texts \cup RawTexts \subseteq Seq(Chars)
ASSUME StampAssumption == TS # NL /\ \A s \in Texts : TS \notin Range(s)

\* A call of console_write (or console_write_raw): what is left of its text,
\* whether the next character has its timestamp, the character on tour (none
\* or one) and the index of the backend it goes to next.
Frame(s, r) == [raw |-> r, todo |-> s, stamped |-> FALSE,
                tour |-> <<>>, next |-> 1]

AbortTrace == Frame(<<ABT, NL>>, FALSE)

Init ==
  /\ con_buf = [i \in 0..(CON_BUF_SIZE - 1) |-> NUL]
  /\ con_start = 0
  /\ con_len = 0
  /\ con_overflow = FALSE
  /\ at_line_start = TRUE
  /\ backends = <<>>
  /\ stack = <<>>
  /\ aborting = FALSE
  /\ calls = 0
  /\ aborts = 0
  /\ shown = [b \in Backends |-> <<>>]
  /\ log = <<>> /\ said = <<>>
  /\ joined = [b \in Backends |-> 0]
  /\ dropped = 0

\* Mutants of buf_put: a full ring is overwritten at con_start, but con_start
\* does not move; con_start moves out of the ring.
buf_putStuck(c) ==
  /\ log' = Append(log, c)
  /\ \/ /\ con_len < CON_BUF_SIZE
        /\ con_buf' = [con_buf EXCEPT ![(con_start + con_len) % CON_BUF_SIZE] = c]
        /\ con_len' = con_len + 1
        /\ UNCHANGED <<con_start, con_overflow>>
     \/ /\ con_len >= CON_BUF_SIZE
        /\ con_buf' = [con_buf EXCEPT ![con_start] = c]
        /\ con_overflow' = TRUE
        /\ UNCHANGED <<con_start, con_len>>
buf_putNoWrap(c) ==
  /\ log' = Append(log, c)
  /\ \/ /\ con_len < CON_BUF_SIZE
        /\ con_buf' = [con_buf EXCEPT ![(con_start + con_len) % CON_BUF_SIZE] = c]
        /\ con_len' = con_len + 1
        /\ UNCHANGED <<con_start, con_overflow>>
     \/ /\ con_len >= CON_BUF_SIZE
        /\ con_buf' = [con_buf EXCEPT ![con_start] = c]
        /\ con_start' = con_start + 1
        /\ con_overflow' = TRUE
        /\ UNCHANGED con_len

----------------------------------------------------------------------------
\* buf_put
buf_put(c) ==
  /\ log' = Append(log, c)
  /\ \/ /\ con_len < CON_BUF_SIZE
        /\ con_buf' = [con_buf EXCEPT ![(con_start + con_len) % CON_BUF_SIZE] = c]
        /\ con_len' = con_len + 1
        /\ UNCHANGED <<con_start, con_overflow>>
     \/ /\ con_len >= CON_BUF_SIZE
        /\ con_buf' = [con_buf EXCEPT ![con_start] = c]
        /\ con_start' = (con_start + 1) % CON_BUF_SIZE
        /\ con_overflow' = TRUE
        /\ UNCHANGED con_len

\* Mutant of Replay: the ring is read from its first cell.
ReplayFromZero ==
  (IF con_overflow THEN <<MARK>> ELSE <<>>)
    \o [i \in 1..con_len |-> con_buf[i - 1]]

\* What console_register_be gives a new backend.
Replay ==
  (IF con_overflow THEN <<MARK>> ELSE <<>>)
    \o [i \in 1..con_len |-> con_buf[(con_start + i - 1) % CON_BUF_SIZE]]

RegisterBackend(b) ==
  /\ backends' = Append(backends, b)
  /\ shown' = [shown EXCEPT ![b] = Replay]
  /\ joined' = [joined EXCEPT ![b] = Len(log)]

----------------------------------------------------------------------------
\* The program's calls

\* A backend too many is turned away without a word: no step.
console_register_be(b) ==
  /\ stack = <<>>
  /\ backends # <<>>            \* setup_main prints before it calls ui_init
  /\ b \notin Registered
  /\ Len(backends) < MAX_BE
  /\ RegisterBackend(b)
  /\ UNCHANGED <<ring, at_line_start, stack, aborting, calls, aborts, dropped>>

Call(s, raw) ==
  /\ stack = <<>>
  /\ calls < MaxCalls
  /\ calls' = calls + 1
  /\ stack' = <<Frame(s, raw)>>
  /\ IF backends = <<>> THEN RegisterBackend(Serial)
                        ELSE UNCHANGED <<backends, shown, joined>>
  /\ UNCHANGED <<ring, at_line_start, aborting, aborts, dropped>>

console_write(s) == Call(s, FALSE)
console_write_raw(s) == Call(s, TRUE)

abort_io ==
  /\ aborts < MaxAborts
  /\ aborts' = aborts + 1
  /\ aborting' = TRUE
  /\ UNCHANGED <<ring, at_line_start, backends, stack, calls, shown, joined,
                 dropped>>

----------------------------------------------------------------------------
\* The steps of the innermost call

Top == Head(stack)
SetTop(f) == stack' = <<f>> \o Tail(stack)

NeedsStamp ==
  ~Top.raw /\ ~Top.stamped /\ at_line_start /\ Head(Top.todo) # NL

\* A character (or the timestamp before it) enters the ring and sets out.
Stamp ==
  /\ stack # <<>>
  /\ Top.tour = <<>> /\ Top.todo # <<>>
  /\ NeedsStamp
  /\ buf_put(TS)
  /\ said' = Append(said, TS)
  /\ SetTop([Top EXCEPT !.stamped = TRUE, !.tour = <<TS>>])
  /\ UNCHANGED <<at_line_start, backends, aborting, calls, aborts, shown,
                 joined, dropped>>

\* Mutant of SetOut: '\n' does not start a line.
SetOutOnce ==
  /\ stack # <<>>
  /\ Top.tour = <<>> /\ Top.todo # <<>>
  /\ ~NeedsStamp
  /\ at_line_start' = FALSE
  /\ buf_put(Head(Top.todo))
  /\ said' = IF Top.raw THEN said ELSE Append(said, Head(Top.todo))
  /\ SetTop([Top EXCEPT !.todo = Tail(@), !.stamped = FALSE,
                        !.tour = <<Head(Top.todo)>>])
  /\ UNCHANGED <<backends, aborting, calls, aborts, shown, joined, dropped>>

SetOut ==
  /\ stack # <<>>
  /\ Top.tour = <<>> /\ Top.todo # <<>>
  /\ ~NeedsStamp
  /\ LET c == Head(Top.todo) IN
       /\ at_line_start' = IF Top.raw THEN at_line_start ELSE c = NL
       /\ said' = IF Top.raw THEN said ELSE Append(said, c)
       /\ buf_put(c)
       /\ SetTop([Top EXCEPT !.todo = Tail(@), !.stamped = FALSE,
                             !.tour = <<c>>])
  /\ UNCHANGED <<backends, aborting, calls, aborts, shown, joined, dropped>>

\* The frame when the character on tour has been to its next backend.
Visited(f) ==
  IF f.next = Len(backends) THEN [f EXCEPT !.tour = <<>>, !.next = 1]
                            ELSE [f EXCEPT !.next = @ + 1]

\* The backend takes the character; serial, once the transmitter is empty.
Deliver ==
  /\ stack # <<>>
  /\ Top.tour # <<>>
  /\ shown' = [shown EXCEPT ![backends[Top.next]] = @ \o Top.tour]
  /\ SetTop(Visited(Top))
  /\ UNCHANGED <<ring, at_line_start, backends, aborting, calls, aborts,
                 joined, dropped>>

\* Mutant of AbortedWrite: an abort ends the tour of the character.
AbortedWriteEndsTour ==
  /\ stack # <<>>
  /\ Top.tour # <<>>
  /\ backends[Top.next] = Serial
  /\ aborting
  /\ aborting' = FALSE
  /\ dropped' = dropped + 1
  /\ stack' = <<AbortTrace, [Top EXCEPT !.tour = <<>>, !.next = 1]>>
                \o Tail(stack)
  /\ UNCHANGED <<ring, at_line_start, backends, calls, aborts, shown, joined>>

\* uart_busy_write finds the transmitter full and the abort flag set: the
\* flag is cleared, the character is lost and the trace is printed.
AbortedWrite ==
  /\ stack # <<>>
  /\ Top.tour # <<>>
  /\ backends[Top.next] = Serial
  /\ aborting
  /\ aborting' = FALSE
  /\ dropped' = dropped + 1
  /\ stack' = <<AbortTrace, Visited(Top)>> \o Tail(stack)
  /\ UNCHANGED <<ring, at_line_start, backends, calls, aborts, shown, joined>>

\* Mutant of Return: the call waits for somebody to take the abort flag.
ReturnUnaborted ==
  /\ stack # <<>>
  /\ Top.tour = <<>> /\ Top.todo = <<>>
  /\ ~aborting
  /\ stack' = Tail(stack)
  /\ UNCHANGED <<ring, at_line_start, backends, aborting, calls, aborts,
                 shown, joined, dropped>>

Return ==
  /\ stack # <<>>
  /\ Top.tour = <<>> /\ Top.todo = <<>>
  /\ stack' = Tail(stack)
  /\ UNCHANGED <<ring, at_line_start, backends, aborting, calls, aborts,
                 shown, joined, dropped>>

Step == Stamp \/ SetOut \/ Deliver \/ AbortedWrite \/ Return

Client ==
  \/ \E s \in Texts : console_write(s)
  \/ \E s \in RawTexts : console_write_raw(s)
  \/ \E b \in Others : console_register_be(b)

Next == Step \/ Client \/ abort_io

Spec == Init /\ [][Next]_vars

\* The processor keeps running the call, and the transmitter empties.
FairSpec == Spec /\ WF_vars(Step)

----------------------------------------------------------------------------
(***************************************************************************)
(* Properties                                                              *)
(***************************************************************************)

\* Every variable keeps its type; calls nest no deeper than aborts were made.
TypeOK ==
  /\ con_buf \in [0..(CON_BUF_SIZE - 1) -> Chars \cup {NUL}]
  /\ con_start \in 0..(CON_BUF_SIZE - 1)
  /\ con_len \in 0..CON_BUF_SIZE
  /\ {con_overflow, at_line_start, aborting} \subseteq BOOLEAN
  /\ Range(backends) \subseteq Backends /\ Len(backends) <= MAX_BE
  /\ Len(stack) <= 1 + aborts
  /\ Range(log) \subseteq Chars

\* The last k elements of s.
LastOf(s, k) == SubSeq(s, Len(s) - k + 1, Len(s))

\* The ring, read from con_start, is the tail of everything ever printed, and
\* con_overflow says whether anything is missing from it.
RingIsTail ==
  /\ con_overflow <=> Len(log) > CON_BUF_SIZE
  /\ [i \in 1..con_len |-> con_buf[(con_start + i - 1) % CON_BUF_SIZE]] =
       LastOf(log, IF con_overflow THEN CON_BUF_SIZE ELSE Len(log))

\* What a backend that registered at length n was shown first.
Opening(n) ==
  (IF n > CON_BUF_SIZE THEN <<MARK>> ELSE <<>>)
    \o SubSeq(log, IF n > CON_BUF_SIZE THEN n - CON_BUF_SIZE + 1 ELSE 1, n)

\* The character on tour, as long as backend number k still waits for it.
StillToCome(k) ==
  IF stack # <<>> /\ Top.next <= k THEN Top.tour ELSE <<>>

\* Whenever a backend registers, it shows what the others show: the last
\* CON_BUF_SIZE characters before it came, a marker if there were more, and
\* from then on every character in the order of the ring; until an abort.
BackendsInStep ==
  dropped = 0 =>
    \A k \in 1..Len(backends) :
      LET b == backends[k] IN
        shown[b] \o StillToCome(k) =
          Opening(joined[b]) \o SubSeq(log, joined[b] + 1, Len(log))

\* Positions of s that begin a line
LineStarts(s) == {i \in 1..Len(s) : i = 1 \/ s[i - 1] = NL}

\* kernel.md:78-79: bm_puts "prepends a HH:MM:SS RTC timestamp at the start of
\* every line".  Of what bm_puts prints, whatever raw text comes in between,
\* every line that is not empty starts with a timestamp, and there is none
\* elsewhere; until an aborted wait prints within a print.
LinesAreStamped ==
  dropped = 0 =>
    \A i \in 1..Len(said) :
      said[i] = TS <=> i \in LineStarts(said) /\ said[i] # NL

\* An aborted wait costs one character of one backend: between calls serial
\* lacks one character for each abort it met and the others lack none.
AbortsCostOneChar ==
  stack = <<>> =>
    \A b \in Registered :
      Len(shown[b]) + (IF b = Serial THEN dropped ELSE 0) =
        Len(Opening(joined[b])) + Len(log) - joined[b]

\* A call of bm_puts returns, the calls that aborted waits nest in it included.
CallsReturn == stack # <<>> ~> stack = <<>>
=============================================================================
