----------------------------- MODULE FrameSwap -----------------------------
(***************************************************************************)
(* fb_swap and the display (silx/x86/vga.c, kernel/setup.c).               *)
(*                                                                         *)
(* The main loop draws a frame into draw_buf and fb_swap copies it, row by *)
(* row, to one of two pages of video memory, waits for the start of the    *)
(* vertical blank and writes YOFF.  Meanwhile the display reads out the    *)
(* visible page, one row after another, at its own pace.  The io abort     *)
(* flag can be raised at any moment from outside.                          *)
(*                                                                         *)
(* What is drawn is a value of Frame; a row of video memory holds the      *)
(* frame it was copied from.                                               *)
(***************************************************************************)
EXTENDS Naturals

CONSTANTS
  Frame,      \* what a frame can show
  Rows,       \* the rows of the screen; 768 or 200 in the code
  Flips,      \* TRUE: the adapter shows the page YOFF selects (Bochs VBE);
              \* FALSE: it always shows page 0 (mode 13h)
  MaxAborts   \* bound: how often the abort flag is raised

ASSUME FrameAssumption == Frame # {}
ASSUME RowsAssumption == Rows \in Nat \ {0}
ASSUME FlipsAssumption == Flips \in BOOLEAN
ASSUME AbortsAssumption == MaxAborts \in Nat

Row == 0..(Rows - 1)
Page == {0, 1}

VARIABLES
  draw_buf,   \* the frame in system memory
  vram,       \* the two pages, row by row
  page,       \* fb_swap's static: the page it copies to
  yoff,       \* the page YOFF selects
  pc,         \* where the main loop and fb_swap are
  copied,     \* rows copied so far
  abort,      \* the io abort flag (CR4 bit 24)
  aborts,     \* how often it was raised
  cut,        \* TRUE once a swap has been aborted (history)
  beam,       \* the row the display reads next; Rows is the vertical blank
  seen        \* the frames this refresh has shown (history)

kernel == <<draw_buf, vram, page, yoff, pc, copied>>
flag == <<abort, aborts, cut>>
display == <<beam, seen>>
vars == <<kernel, flag, display>>

Visible == IF Flips THEN yoff ELSE 0
InVblank == beam = Rows     \* bit 3 of port 0x3DA

Init ==
  /\ draw_buf \in Frame
  /\ vram = [p \in Page |-> [r \in Row |-> draw_buf]]
  /\ page = 0 /\ yoff = 0
  /\ pc = "draw" /\ copied = 0
  /\ abort = FALSE /\ aborts = 0 /\ cut = FALSE
  /\ beam = Rows /\ seen = {}

----------------------------------------------------------------------------
\* The main loop.  The first frame is drawn by setup_main before the loop.

FrameDue ==
  /\ pc = "loop"
  /\ pc' = "draw"
  /\ UNCHANGED <<draw_buf, vram, page, yoff, copied, flag, display>>

FrameNotDue ==
  /\ pc = "loop"
  /\ pc' = "poll"
  /\ UNCHANGED <<draw_buf, vram, page, yoff, copied, flag, display>>

Draw ==
  /\ pc = "draw"
  /\ draw_buf' \in Frame
  /\ pc' = "swap"
  /\ UNCHANGED <<vram, page, yoff, copied, flag, display>>

\* gdb_poll samples the flag first and clears it by that; cli_poll looks at
\* it only when a byte is there.
PollInput ==
  /\ pc = "poll"
  /\ pc' = "check"
  /\ abort' \in {FALSE, abort}
  /\ UNCHANGED <<draw_buf, vram, page, yoff, copied, aborts, cut, display>>

CheckAbort ==
  /\ pc = "check"
  /\ pc' = IF abort THEN "returned" ELSE "loop"
  /\ abort' = FALSE
  /\ UNCHANGED <<draw_buf, vram, page, yoff, copied, aborts, cut, display>>

----------------------------------------------------------------------------
\* fb_swap

\* Mutant of TurnPage: the page is not turned.
TurnPageNot ==
  /\ pc = "swap"
  /\ copied' = 0
  /\ pc' = "copy"
  /\ UNCHANGED <<draw_buf, vram, page, yoff, flag, display>>

TurnPage ==
  /\ pc = "swap"
  /\ page' = 1 - page
  /\ copied' = 0
  /\ pc' = "copy"
  /\ UNCHANGED <<draw_buf, vram, yoff, flag, display>>

\* Mutant of CopyRow: one row too many.
CopyRowMore ==
  /\ pc = "copy"
  /\ copied <= Rows
  /\ vram' = [vram EXCEPT ![page][copied] = draw_buf]
  /\ copied' = copied + 1
  /\ UNCHANGED <<draw_buf, page, yoff, pc, flag, display>>

CopyRow ==
  /\ pc = "copy"
  /\ copied < Rows
  /\ vram' = [vram EXCEPT ![page][copied] = draw_buf]
  /\ copied' = copied + 1
  /\ UNCHANGED <<draw_buf, page, yoff, pc, flag, display>>

CopyEnds ==
  /\ pc = "copy"
  /\ copied = Rows
  /\ pc' = "wait_out"
  /\ UNCHANGED <<draw_buf, vram, page, yoff, copied, flag, display>>

\* Mutant of OutOfVblank: the first wait is left out.
OutOfVblankAtOnce ==
  /\ pc = "wait_out"
  /\ pc' = "wait_in"
  /\ UNCHANGED <<draw_buf, vram, page, yoff, copied, flag, display>>

\* First until the display is out of the blank, ...
OutOfVblank ==
  /\ pc = "wait_out"
  /\ ~InVblank
  /\ pc' = "wait_in"
  /\ UNCHANGED <<draw_buf, vram, page, yoff, copied, flag, display>>

\* ... then until the next blank begins.
IntoVblank ==
  /\ pc = "wait_in"
  /\ InVblank
  /\ pc' = "flip"
  /\ UNCHANGED <<draw_buf, vram, page, yoff, copied, flag, display>>

\* Mutant of AbortWait: only the first loop samples the flag.
AbortWaitFirst ==
  /\ pc = "wait_out" /\ InVblank
  /\ abort
  /\ abort' = FALSE
  /\ cut' = TRUE
  /\ pc' = "poll"
  /\ UNCHANGED <<draw_buf, vram, page, yoff, copied, aborts, display>>

\* Either loop samples the flag while it has to wait.
AbortWait ==
  /\ \/ pc = "wait_out" /\ InVblank
     \/ pc = "wait_in" /\ ~InVblank
  /\ abort
  /\ abort' = FALSE
  /\ cut' = TRUE
  /\ pc' = "poll"
  /\ UNCHANGED <<draw_buf, vram, page, yoff, copied, aborts, display>>

Flip ==
  /\ pc = "flip"
  /\ yoff' = page
  /\ pc' = "poll"
  /\ UNCHANGED <<draw_buf, vram, page, copied, flag, display>>

----------------------------------------------------------------------------
\* The display and the outside

ScanRow ==
  /\ beam < Rows
  /\ seen' = seen \cup {vram[Visible][beam]}
  /\ beam' = beam + 1
  /\ UNCHANGED <<kernel, flag>>

\* The blank outlasts the two register writes that follow its detection.
RefreshBegins ==
  /\ InVblank
  /\ pc # "flip"
  /\ beam' = 0
  /\ seen' = {}
  /\ UNCHANGED <<kernel, flag>>

RaiseAbort ==
  /\ aborts < MaxAborts
  /\ abort' = TRUE
  /\ aborts' = aborts + 1
  /\ UNCHANGED <<kernel, cut, display>>

Kernel ==
  \/ FrameDue \/ FrameNotDue \/ Draw \/ PollInput \/ CheckAbort
  \/ TurnPage \/ CopyRow \/ CopyEnds \/ OutOfVblank \/ IntoVblank
  \/ AbortWait \/ Flip

Display == ScanRow \/ RefreshBegins

Next == Kernel \/ Display \/ RaiseAbort

Spec == Init /\ [][Next]_vars

\* The processor runs.  Nothing is asked of the display: it may stop in the
\* blank or out of it, or pass in and out of it unseen by the waits.
Fairness == WF_vars(Kernel)

FairSpec == Spec /\ Fairness

----------------------------------------------------------------------------
(***************************************************************************)
(* Properties                                                              *)
(***************************************************************************)

Places == {"loop", "draw", "poll", "check", "swap", "copy", "wait_out",
           "wait_in", "flip", "returned"}

\* Every variable keeps its type; no row past the page is ever copied or read.
TypeOK ==
  /\ draw_buf \in Frame
  /\ vram \in [Page -> [Row -> Frame]]
  /\ page \in Page /\ yoff \in Page
  /\ pc \in Places
  /\ copied \in 0..Rows
  /\ abort \in BOOLEAN /\ aborts \in 0..MaxAborts /\ cut \in BOOLEAN
  /\ beam \in 0..Rows
  /\ seen \in SUBSET Frame

\* vga.c:286: the copy and the flip "avoid tearing".  As long as no swap has
\* been cut short, no refresh of the display shows rows of two frames.
OneFrameSeen == \A f, g \in seen : f = g
NoTearing == cut = FALSE => OneFrameSeen

\* vga.c:287-288: "The copy always targets the back (invisible) page".
CopyTargetsBackPage == pc = "copy" => page # Visible

\* YOFF changes in the blank, after a whole refresh has shown the page it
\* leaves: every frame swapped in is seen, whole, before the next.
EveryFrameIsShown ==
  [][cut = FALSE /\ yoff' # yoff =>
       InVblank /\ seen = {vram[yoff][r] : r \in Row}]_vars

Swapping == pc \in {"copy", "wait_out", "wait_in", "flip"}

\* vga.c:305-306: an abort "can break out of the spin without hanging".  Once
\* the flag is raised during a swap, in the copy or in either wait, the swap
\* ends and the main loop goes on, whatever the display does from then on.
AbortEndsSwap == Swapping /\ abort ~> pc = "poll"

\* The inductive invariant behind the safety properties, where YOFF works: until
\* a swap is cut short, the pages take turns, each holds one frame but for the
\* hidden one while it is copied to, and what the display has shown of a refresh
\* is the visible page.
PagesTakeTurns == page = yoff <=> ~Swapping

VisiblePageIsWhole == \A r, q \in Row : vram[yoff][r] = vram[yoff][q]

CopiedRows ==
  /\ pc = "copy" => \A r \in Row : r < copied => vram[page][r] = draw_buf
  /\ pc \in {"wait_out", "wait_in", "flip"} =>
       \A r \in Row : vram[page][r] = draw_buf

SeenIsVisible == \A f \in seen, r \in Row : f = vram[yoff][r]

RefreshShowsVisible ==
  /\ ~InVblank \/ pc \in {"wait_in", "flip"} =>
       SeenIsVisible /\ (beam > 0 => seen # {})
  /\ pc = "flip" => InVblank

PagesInStep ==
  /\ PagesTakeTurns
  /\ VisiblePageIsWhole
  /\ CopiedRows
  /\ RefreshShowsVisible
  /\ OneFrameSeen

IInv == TypeOK /\ (cut = FALSE => PagesInStep)
=============================================================================
