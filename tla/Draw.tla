-------------------------------- MODULE Draw --------------------------------
(***************************************************************************)
(* What a frame shows: the console's grid drawn glyph by glyph             *)
(* (ui/text.c), the squares of the orbit demo (ui/demos/orbit.c) and the   *)
(* progress bar (ui/ui.c), byte by byte in the buffer of the video mode    *)
(* that was found (silx/x86/vga.c).  fb_swap copies the buffer to the      *)
(* adapter; that is FrameSwap's matter.                                    *)
(***************************************************************************)
EXTENDS Screen, DemoOps, Integers, SequencesExt

CONSTANTS
  FONT_WIDTH, FONT_HEIGHT,
  Font,              \* the set pixels of a glyph, for those the font has
  QuestionMark,      \* drawn for the others
  Digits, Percent,   \* '0' and on: the characters from '0' up; '%'
  DoneText,          \* the glyphs of "done"
  Message,           \* "Graphics test complete"
  TEN,               \* 10: Full is two digits and a zero
  MARGIN, PAD, BAR_H, TXT_SZ,       \* 2, 4, 48 and 2
  CX, CY, SQ, OFF, AMP, cos_tab, sin_tab,   \* of the orbit demo
  VbeMode, Mode13,   \* [width, height, bpp]: 1024 by 768 by 32, 320 by 200 by 8
  BootModes,         \* what a boot loader may have left at 0x600
  Garbage,           \* what memory holds at first
  MaxDrawn, MaxFrames    \* bounds: characters written once frames are drawn, frames

ASSUME ModeAssumption ==
  BootModes \cup {VbeMode, Mode13} \subseteq [width : Nat, height : Nat, bpp : {8, 24, 32}]
ASSUME FontAssumption ==
  /\ QuestionMark \in DOMAIN Font
  /\ \A c \in DOMAIN Font : Font[c] \subseteq (0..(FONT_WIDTH - 1)) \X (0..(FONT_HEIGHT - 1))
ASSUME LayoutAssumption ==
  /\ {FONT_WIDTH, FONT_HEIGHT, MARGIN, PAD, BAR_H, TXT_SZ} \subseteq Nat
  /\ 2 * PAD <= BAR_H /\ FONT_HEIGHT * TXT_SZ <= BAR_H
ASSUME MessageAssumption == Message \in Seq(Glyphs \cup Controls \cup {NL})
ASSUME MemoryAssumption == Garbage \in 0..255

VARIABLES
  fb,          \* the mode
  draw_buf,    \* bytes
  bar,         \* the progress bar, and the demo's walk
  frame,       \* of demo_orbit, which counts the frames
  shown        \* history: the screen when the last frame was drawn

drawing == <<fb, draw_buf, bar, frame, shown>>

BACK == \h0f1729
WHITE == \hffffff

----------------------------------------------------------------------------
(***************************************************************************)
(* The mode: what the boot loader has set, else the adapter's own if there *)
(* is one on the PCI bus and it answers, else mode 13h.                    *)
(***************************************************************************)
pci_find_vga_bar0(devices) ==
  LET vga == {i \in 1..Len(devices) : devices[i].class = "vga"}
  IN  IF vga = {} THEN 0 ELSE devices[Min(vga)].bar0

init(boot, devices, vbe_answers) ==
  IF boot # <<>> THEN Head(boot)
  ELSE IF pci_find_vga_bar0(devices) # 0 /\ vbe_answers THEN VbeMode
  ELSE Mode13

Bpp == fb.bpp \div 8
fb_size == fb.width * fb.height * Bpp

----------------------------------------------------------------------------
(***************************************************************************)
(* Bytes.  Paint is putpixel, which clips, of a set of pixels.             *)
(***************************************************************************)
ByteOf(color, k) == (color \div (256 ^ k)) % 256

offset(x, y) == (y * fb.width + x) * Bpp

\* Mutant of Visible: a pixel below the screen is taken for one on it.
VisibleTall(x, y) == x \in 0..(fb.width - 1) /\ y \in 0..fb.height
Visible(x, y) == x \in 0..(fb.width - 1) /\ y \in 0..(fb.height - 1)

Paint(b, pixels, color) ==
  LET hit == {offset(p[1], p[2]) + k :
                p \in {q \in pixels : Visible(q[1], q[2])}, k \in 0..(Bpp - 1)}
  IN  [a \in DOMAIN b \cup hit |-> IF a \in hit THEN ByteOf(color, a % Bpp) ELSE b[a]]

fill_rect(b, x, y, w, h, color) ==
  Paint(b, (x..(x + w - 1)) \X (y..(y + h - 1)), color)

\* rep stosl stores the colour, rep stosb its lowest byte
clear(b, color) ==
  [a \in DOMAIN b |->
     IF a >= fb_size THEN b[a]
     ELSE IF fb.bpp = 32 THEN ByteOf(color, a % 4) ELSE ByteOf(color, 0)]

----------------------------------------------------------------------------
(***************************************************************************)
(* Text                                                                    *)
(***************************************************************************)
GlyphPixels(x, y, c, sz) ==
  LET ch == IF c \in DOMAIN Font THEN c ELSE QuestionMark
  IN  {<<x + dot[1] * sz + d[1], y + dot[2] * sz + d[2]>> :
         dot \in Font[ch], d \in (0..(sz - 1)) \X (0..(sz - 1))}

draw_str(b, x, y, str, color, sz) ==
  Paint(b, UNION {GlyphPixels(x + (i - 1) * FONT_WIDTH * sz, y, str[i], sz) :
                    i \in 1..Len(str)}, color)

CellY(i) == MARGIN + i * FONT_HEIGHT
RowFits(i) == CellY(i) + FONT_HEIGHT <= fb.height

CellPixels(s, i, j) ==
  IF s.grid[i][j] = NUL THEN {}
  ELSE GlyphPixels(MARGIN + j * FONT_WIDTH, CellY(i), s.grid[i][j], 1)

\* Mutant of FlushedRows: the row of the cursor is left out.
FlushedRowsShort(s) == {i \in RowNos : i < s.row /\ RowFits(i)}
FlushedRows(s) == {i \in RowNos : i <= s.row /\ RowFits(i)}

\* The rows down to the cursor's, as far as they fit, on what is there
scr_be_flush(b, s) ==
  Paint(b, UNION {CellPixels(s, i, j) : i \in FlushedRows(s), j \in ColNos}, WHITE)

----------------------------------------------------------------------------
(***************************************************************************)
(* The orbit: four squares on a circle about a fixed centre.  Division     *)
(* rounds towards zero.                                                    *)
(***************************************************************************)
Quotient(a, d) == IF a < 0 THEN -((-a) \div d) ELSE a \div d

Square(f, i) ==
  LET turn == ((f * 3) % Len(cos_tab)) + 1
      dx == IF i \in {1, 3} THEN -OFF ELSE OFF
      dy == IF i \in {1, 2} THEN -OFF ELSE OFF
      rx == Quotient(dx * cos_tab[turn] - dy * sin_tab[turn], AMP)
      ry == Quotient(dx * sin_tab[turn] + dy * cos_tab[turn], AMP)
      left == CX + rx - (SQ \div 2)
      top == CY + ry - (SQ \div 2)
  IN  (left..(left + SQ - 1)) \X (top..(top + SQ - 1))

cols == <<\h60a5fa, \h34d399, \hf472b6, \hfbbf24>>

demo_orbit(b, f) ==
  FoldLeft(LAMBDA c, i : Paint(c, Square(f, i), cols[i]), b, <<1, 2, 3, 4>>)

----------------------------------------------------------------------------
(***************************************************************************)
(* The bar: a strip at the bottom, the part that is full, the percentage   *)
(* at its right end and the text at its left, on the strip's own colour.   *)
(***************************************************************************)
StripTop == fb.height - BAR_H

BAR_C == \h1e293b
TXT_C == \hf1f5f9
INF_C == \h94a3b8
FILL_C == \h64748b    \* the lower half of the part that is full

draw_bar(b, pct, txt) ==
  LET by == StripTop
      fw == fb.width - 2 * PAD
      fh == BAR_H - 2 * PAD
      fill == (fw * pct) \div Full
      ch == FONT_HEIGHT * TXT_SZ
      cw == FONT_WIDTH * TXT_SZ
      ty == by + ((BAR_H - ch) \div 2)
      label == <<Digits[pct \div TEN], Digits[pct % TEN], Percent>>
      pctx == fw - 3 * cw - PAD
      infow == pctx - 2 * PAD
      b1 == fill_rect(b, 0, by, fb.width, BAR_H, BAR_C)
      b2 == fill_rect(b1, PAD, by + PAD, fill, fh \div 2, INF_C)
      b3 == fill_rect(b2, PAD, by + PAD + (fh \div 2), fill, fh - (fh \div 2), FILL_C)
      b4 == draw_str(b3, pctx + 1, ty + 1, label, BACK, TXT_SZ)
      b5 == draw_str(b4, pctx, ty, label, TXT_C, TXT_SZ)
      b6 == IF infow > 0
            THEN fill_rect(b5, PAD, ty + 1, infow + 1, ch + 1, BAR_C) ELSE b5
      b7 == draw_str(b6, PAD + 1, ty + 1, txt, BACK, TXT_SZ)
  IN  draw_str(b7, PAD, ty, txt, INF_C, TXT_SZ)

----------------------------------------------------------------------------
\* Memory is not cleared at boot, the statics are.
DrawInit ==
  /\ Init
  /\ \E boot \in {<<>>} \cup {<<mode>> : mode \in BootModes}, vbe_answers \in BOOLEAN,
       devices \in {<<>>, <<[class |-> "other", bar0 |-> 0], [class |-> "vga", bar0 |-> 1]>>} :
         fb = init(boot, devices, vbe_answers)
  /\ draw_buf = [a \in 0..(fb_size - 1) |-> Garbage]
  /\ bar = FirstBar
  /\ frame = 1        \* demo_orbit turns 0 into 1 before it draws
  /\ shown = <<>>

\* The console writes a character.
WriteChar(c) ==
  /\ frame > 1 => Len(text) < MaxDrawn
  /\ Write(c)
  /\ UNCHANGED drawing

\* demo_draw: clear, the text, the squares, the bar; then, once, the message
DrawFrame ==
  LET message == IF NextBar(bar).progress_done /\ ~bar.progress_done THEN Message ELSE <<>>
      txt == IF bar'.cur_txt = "done" THEN DoneText ELSE <<>>
  IN  /\ frame <= MaxFrames /\ Len(text) + Len(message) <= MaxDrawn
      /\ bar' = NextBar(bar)
      /\ draw_buf' = draw_bar(demo_orbit(scr_be_flush(clear(draw_buf, BACK), scr), frame),
                              bar'.cur_pct, txt)
      /\ frame' = frame + 1
      /\ shown' = <<scr>>
      /\ scr' = FoldLeft(scr_be_write, scr, message)
      /\ text' = text \o message
      /\ UNCHANGED fb

DrawNext == DrawFrame \/ \E c \in Glyphs \cup Controls \cup {NL} : WriteChar(c)

DrawSpec == DrawInit /\ [][DrawNext]_<<vars, drawing>>

----------------------------------------------------------------------------
(***************************************************************************)
(* Properties                                                              *)
(***************************************************************************)

\* The screen, the bar and the buffer keep their types: nothing is drawn
\* outside the buffer.
DrawTypeOK ==
  /\ TypeOK
  /\ draw_buf \in [0..(fb_size - 1) -> 0..255]
  /\ bar \in Bars
  /\ shown = <<>> \/ Head(shown) \in Screens

\* In every frame, above the strip and off the squares, is the text of the
\* grid as far as it fits and nothing else: no pixel is left of an earlier
\* frame, cut off a glyph, or painted by what belongs elsewhere.
TextPixels(s) ==
  UNION {CellPixels(s, i, j) : i \in {r \in RowNos : RowFits(r)}, j \in ColNos}
Covered == UNION {Square(frame - 1, i) : i \in 1..4}

PictureShowsText ==
  shown # <<>> =>
    \A x \in 0..(fb.width - 1), y \in 0..(StripTop - 1) :
      <<x, y>> \notin Covered =>
        LET color == IF <<x, y>> \in TextPixels(Head(shown)) THEN WHITE ELSE BACK
        IN  \A k \in 0..(Bpp - 1) : draw_buf[(y * fb.width + x) * Bpp + k] = ByteOf(color, k)
=============================================================================
