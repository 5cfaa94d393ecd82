-------------------------- MODULE FrameSwapProofs --------------------------
(***************************************************************************)
(* Theorems about FrameSwap for every set of frames, every height of the   *)
(* screen and any number of io aborts, on an adapter with YOFF.  What they *)
(* say of the pages holds until an abort first cuts a swap short.          *)
(***************************************************************************)
EXTENDS FrameSwap, TLAPS

\* The screen of a freshly booted kernel satisfies the invariant.
LEMMA InitIInv == Init => IInv
<1> SUFFICES ASSUME Init PROVE IInv
  OBVIOUS
<1>1. TypeOK
  <2>1. vram \in [Page -> [Row -> Frame]]
    BY DEF Init
  <2>2. 0 \in 0..Rows /\ Rows \in 0..Rows /\ 0 \in 0..MaxAborts
    BY RowsAssumption, AbortsAssumption
  <2> QED
    BY <2>1, <2>2 DEF Init, TypeOK, Places, Page
<1>2. VisiblePageIsWhole
  BY DEF Init, VisiblePageIsWhole, Page
<1>3. PagesTakeTurns /\ CopiedRows /\ RefreshShowsVisible /\ OneFrameSeen
  BY DEF Init, PagesTakeTurns, Swapping, CopiedRows, RefreshShowsVisible,
         SeenIsVisible, InVblank, OneFrameSeen
<1> QED
  BY <1>1, <1>2, <1>3 DEF IInv, PagesInStep

\* Every step keeps the types, aborted swaps included.
LEMMA TypeStep == TypeOK /\ [Next]_vars => TypeOK'
<1> SUFFICES ASSUME TypeOK, [Next]_vars PROVE TypeOK'
  OBVIOUS
<1>1. CASE FrameDue \/ FrameNotDue \/ Draw \/ PollInput \/ CheckAbort
  BY <1>1 DEF FrameDue, FrameNotDue, Draw, PollInput, CheckAbort, flag,
              display, TypeOK, Places
<1>2. CASE TurnPage
  BY <1>2, RowsAssumption DEF TurnPage, flag, display, TypeOK, Places, Page
<1>3. CASE CopyRow
  <2>1. copied \in Row /\ copied + 1 \in 0..Rows
    BY <1>3, RowsAssumption DEF CopyRow, TypeOK, Row
  <2>2. vram' \in [Page -> [Row -> Frame]]
    BY <1>3, <2>1 DEF CopyRow, TypeOK
  <2> QED
    BY <1>3, <2>1, <2>2 DEF CopyRow, flag, display, TypeOK
<1>4. CASE CopyEnds \/ OutOfVblank \/ IntoVblank \/ AbortWait \/ Flip
  BY <1>4 DEF CopyEnds, OutOfVblank, IntoVblank, AbortWait, Flip, flag,
              display, TypeOK, Places
<1>5. CASE ScanRow
  <2>1. beam \in Row /\ beam + 1 \in 0..Rows /\ Visible \in Page
    BY <1>5, RowsAssumption DEF ScanRow, TypeOK, Row, Page, Visible
  <2>2. vram[Visible][beam] \in Frame
    BY <2>1 DEF TypeOK
  <2> QED
    BY <1>5, <2>1, <2>2 DEF ScanRow, kernel, flag, TypeOK
<1>6. CASE RefreshBegins
  BY <1>6, RowsAssumption DEF RefreshBegins, kernel, flag, TypeOK
<1>7. CASE RaiseAbort
  BY <1>7, AbortsAssumption DEF RaiseAbort, kernel, display, TypeOK
<1>8. CASE UNCHANGED vars
  BY <1>8 DEF vars, kernel, flag, display, TypeOK
<1> QED
  BY <1>1, <1>2, <1>3, <1>4, <1>5, <1>6, <1>7, <1>8 DEF Next, Kernel, Display

\* Steps of the main loop change neither memory nor the display.
LEMMA LoopStep ==
  ASSUME TypeOK, PagesInStep,
         FrameDue \/ FrameNotDue \/ Draw \/ PollInput \/ CheckAbort
  PROVE  PagesInStep'
<1>1. /\ UNCHANGED <<vram, page, yoff, copied, beam, seen>>
      /\ pc \in {"loop", "draw", "poll", "check"}
      /\ pc' \in {"loop", "draw", "poll", "check", "swap", "returned"}
  BY DEF FrameDue, FrameNotDue, Draw, PollInput, CheckAbort, flag, display
<1> QED
  BY <1>1 DEF PagesInStep, PagesTakeTurns, Swapping, VisiblePageIsWhole,
              CopiedRows, OneFrameSeen, RefreshShowsVisible, SeenIsVisible,
              InVblank

\* Copying one row keeps the pages in step.
LEMMA CopyStep ==
  ASSUME TypeOK, PagesInStep, CopyRow
  PROVE  PagesInStep'
<1>1. page # yoff /\ page \in Page /\ copied \in Row /\ pc = "copy"
  BY RowsAssumption
  DEF CopyRow, TypeOK, PagesInStep, PagesTakeTurns, Swapping, Row
<1>2. /\ UNCHANGED <<draw_buf, page, yoff, pc, beam, seen>>
      /\ vram' = [vram EXCEPT ![page][copied] = draw_buf]
      /\ copied' = copied + 1
  BY DEF CopyRow, flag, display
<1>3. /\ vram'[yoff] = vram[yoff]
      /\ vram'[page][copied] = draw_buf
      /\ \A r \in Row : r # copied => vram'[page][r] = vram[page][r]
  BY <1>1, <1>2 DEF TypeOK
<1>4. CopiedRows'
  <2>1. \A r \in Row : r < copied + 1 => r < copied \/ r = copied
    BY <1>1, RowsAssumption DEF Row
  <2> QED
    BY <1>1, <1>2, <1>3, <2>1 DEF PagesInStep, CopiedRows
<1>5. VisiblePageIsWhole' /\ RefreshShowsVisible'
  BY <1>1, <1>2, <1>3
  DEF PagesInStep, VisiblePageIsWhole, RefreshShowsVisible, SeenIsVisible,
      InVblank
<1>6. PagesTakeTurns' /\ OneFrameSeen'
  BY <1>2 DEF PagesInStep, PagesTakeTurns, Swapping, OneFrameSeen
<1> QED
  BY <1>4, <1>5, <1>6 DEF PagesInStep

\* The steps of fb_swap around the copy keep the pages in step.
LEMMA SwapStep ==
  ASSUME TypeOK, PagesInStep,
         TurnPage \/ CopyEnds \/ OutOfVblank \/ IntoVblank \/ Flip
  PROVE  PagesInStep'
<1> USE DEF PagesInStep
<1>1. CASE TurnPage
  <2>1. /\ UNCHANGED <<draw_buf, vram, yoff, beam, seen>>
        /\ page' = 1 - page /\ copied' = 0 /\ pc = "swap" /\ pc' = "copy"
    BY <1>1 DEF TurnPage, flag, display
  <2>2. PagesTakeTurns' /\ VisiblePageIsWhole' /\ OneFrameSeen'
    BY <2>1 DEF TypeOK, Page, PagesTakeTurns, Swapping, VisiblePageIsWhole,
                OneFrameSeen
  <2>3. CopiedRows'
    BY <2>1, RowsAssumption DEF CopiedRows, Row
  <2>4. RefreshShowsVisible'
    BY <2>1 DEF RefreshShowsVisible, SeenIsVisible, InVblank
  <2> QED
    BY <2>2, <2>3, <2>4
<1>2. CASE CopyEnds
  <2>1. /\ UNCHANGED <<draw_buf, vram, page, yoff, copied, beam, seen>>
        /\ copied = Rows /\ pc = "copy" /\ pc' = "wait_out"
    BY <1>2 DEF CopyEnds, flag, display
  <2>2. CopiedRows'
    BY <2>1, RowsAssumption DEF CopiedRows, Row
  <2> QED
    BY <2>1, <2>2
    DEF PagesTakeTurns, Swapping, VisiblePageIsWhole, RefreshShowsVisible,
        SeenIsVisible, InVblank, OneFrameSeen
<1>3. CASE OutOfVblank
  BY <1>3
  DEF OutOfVblank, flag, display, PagesTakeTurns, Swapping,
      VisiblePageIsWhole, CopiedRows, RefreshShowsVisible, SeenIsVisible,
      InVblank, OneFrameSeen
<1>4. CASE IntoVblank
  BY <1>4
  DEF IntoVblank, flag, display, PagesTakeTurns, Swapping,
      VisiblePageIsWhole, CopiedRows, RefreshShowsVisible, SeenIsVisible,
      InVblank, OneFrameSeen
<1>5. CASE Flip
  <2>1. /\ UNCHANGED <<draw_buf, vram, page, copied, beam, seen>>
        /\ yoff' = page /\ pc = "flip" /\ pc' = "poll" /\ InVblank
    BY <1>5 DEF Flip, flag, display, RefreshShowsVisible
  <2>2. VisiblePageIsWhole'
    BY <2>1 DEF CopiedRows, VisiblePageIsWhole
  <2> QED
    BY <2>1, <2>2
    DEF PagesTakeTurns, Swapping, CopiedRows, RefreshShowsVisible, InVblank,
        OneFrameSeen
<1> QED
  BY <1>1, <1>2, <1>3, <1>4, <1>5

\* The display keeps the pages in step, whatever row it reads.
LEMMA DisplayStep ==
  ASSUME Flips, TypeOK, PagesInStep, ScanRow \/ RefreshBegins
  PROVE  PagesInStep'
<1> USE DEF PagesInStep
<1>1. CASE ScanRow
  <2>1. /\ UNCHANGED <<draw_buf, vram, page, yoff, pc, copied>>
        /\ beam < Rows /\ beam' = beam + 1 /\ beam \in Row
        /\ seen' = seen \cup {vram[yoff][beam]}
    BY <1>1, RowsAssumption DEF ScanRow, kernel, Visible, TypeOK, Row
  <2>2. SeenIsVisible /\ pc # "flip"
    BY <2>1 DEF RefreshShowsVisible, InVblank, TypeOK
  <2>3. SeenIsVisible'
    BY <2>1, <2>2 DEF SeenIsVisible, VisiblePageIsWhole
  <2>4. OneFrameSeen'
    BY <2>1, <2>3 DEF SeenIsVisible, OneFrameSeen
  <2>5. RefreshShowsVisible'
    BY <2>1, <2>2, <2>3 DEF RefreshShowsVisible
  <2>6. PagesTakeTurns' /\ VisiblePageIsWhole' /\ CopiedRows'
    BY <2>1 DEF PagesTakeTurns, Swapping, VisiblePageIsWhole, CopiedRows
  <2> QED
    BY <2>4, <2>5, <2>6
<1>2. CASE RefreshBegins
  <2>1. /\ UNCHANGED <<draw_buf, vram, page, yoff, pc, copied>>
        /\ pc # "flip" /\ beam' = 0 /\ seen' = {}
    BY <1>2 DEF RefreshBegins, kernel
  <2> QED
    BY <2>1
    DEF PagesTakeTurns, Swapping, VisiblePageIsWhole, CopiedRows,
        RefreshShowsVisible, SeenIsVisible, OneFrameSeen
<1> QED
  BY <1>1, <1>2

\* Every step keeps the invariant.
LEMMA NextIInv == Flips /\ IInv /\ [Next]_vars => IInv'
<1> SUFFICES ASSUME Flips, IInv, [Next]_vars, cut' = FALSE
             PROVE  PagesInStep'
  BY TypeStep DEF IInv
<1>1. ~AbortWait
  BY DEF AbortWait
<1>2. cut' = cut
  BY <1>1
  DEF Next, Kernel, Display, FrameDue, FrameNotDue, Draw, PollInput,
      CheckAbort, TurnPage, CopyRow, CopyEnds, OutOfVblank, IntoVblank, Flip,
      ScanRow, RefreshBegins, RaiseAbort, flag, vars
<1>3. TypeOK /\ PagesInStep
  BY <1>2 DEF IInv
<1>4. CASE FrameDue \/ FrameNotDue \/ Draw \/ PollInput \/ CheckAbort
  BY <1>3, <1>4, LoopStep
<1>5. CASE CopyRow
  BY <1>3, <1>5, CopyStep
<1>6. CASE TurnPage \/ CopyEnds \/ OutOfVblank \/ IntoVblank \/ Flip
  BY <1>3, <1>6, SwapStep
<1>7. CASE ScanRow \/ RefreshBegins
  BY <1>3, <1>7, DisplayStep
<1>8. CASE RaiseAbort \/ UNCHANGED vars
  BY <1>3, <1>8
  DEF RaiseAbort, vars, kernel, display, PagesInStep, PagesTakeTurns,
      Swapping, VisiblePageIsWhole, CopiedRows, RefreshShowsVisible,
      SeenIsVisible, InVblank, OneFrameSeen
<1> QED
  BY <1>1, <1>4, <1>5, <1>6, <1>7, <1>8 DEF Next, Kernel, Display

\* With YOFF, the pages take turns and the visible one is whole until a swap
\* is cut short: IInv holds whatever the display has read when the kernel
\* takes a step (vga.c:289-311).
THEOREM SwapInvariant == ASSUME Flips PROVE Spec => []IInv
<1>1. Init => IInv
  BY InitIInv
<1>2. IInv /\ [Next]_vars => IInv'
  BY NextIInv
<1> QED
  BY <1>1, <1>2, PTL DEF Spec

\* Every variable keeps its type, with or without YOFF and whatever is
\* aborted: no row outside a page is copied or read.
THEOREM SwapTypes == Spec => []TypeOK
<1>1. Init => TypeOK
  BY InitIInv DEF IInv
<1> QED
  BY <1>1, TypeStep, PTL DEF Spec

\* fb_swap never lets a refresh show rows of two frames, at whatever moment
\* of the display's scan a frame is drawn and copied (vga.c:286-288).
THEOREM SwapNeverTears == ASSUME Flips PROVE Spec => []NoTearing
<1>1. IInv => NoTearing
  BY DEF IInv, PagesInStep, NoTearing
<1> QED
  BY <1>1, SwapInvariant, PTL

\* The copy targets the page that is not shown (vga.c:287), until a swap is
\* cut short.
THEOREM CopyIsHidden ==
  ASSUME Flips PROVE Spec => [](cut = FALSE => CopyTargetsBackPage)
<1>1. IInv => (cut = FALSE => CopyTargetsBackPage)
  BY DEF IInv, PagesInStep, PagesTakeTurns, Swapping, CopyTargetsBackPage,
         Visible
<1> QED
  BY <1>1, SwapInvariant, PTL

\* A flip happens in the blank, after a whole refresh of the page it leaves.
THEOREM FramesAreShown == ASSUME Flips PROVE Spec => EveryFrameIsShown
<1>1. IInv /\ [Next]_vars =>
        [cut = FALSE /\ yoff' # yoff =>
           InVblank /\ seen = {vram[yoff][r] : r \in Row}]_vars
  <2> SUFFICES ASSUME IInv, Next, cut = FALSE, yoff' # yoff
               PROVE  InVblank /\ seen = {vram[yoff][r] : r \in Row}
    BY DEF vars, kernel
  <2>1. Flip
    BY DEF Next, Kernel, Display, FrameDue, FrameNotDue, Draw, PollInput,
           CheckAbort, TurnPage, CopyRow, CopyEnds, OutOfVblank, IntoVblank,
           AbortWait, ScanRow, RefreshBegins, RaiseAbort, kernel
  <2>2. pc = "flip" /\ InVblank /\ SeenIsVisible /\ seen # {}
    BY <2>1, RowsAssumption
    DEF Flip, IInv, PagesInStep, RefreshShowsVisible, InVblank
  <2>3. 0 \in Row
    BY RowsAssumption DEF Row
  <2> QED
    BY <2>2, <2>3 DEF SeenIsVisible, IInv, PagesInStep, VisiblePageIsWhole
<1> QED
  BY <1>1, SwapInvariant, PTL DEF Spec, EveryFrameIsShown
=============================================================================
