----------------------------- MODULE ScreenOps -----------------------------
(***************************************************************************)
(* The screen backend of the console (ui/text.c): a grid of characters, a  *)
(* cursor and what one character does to them.                             *)
(***************************************************************************)
EXTENDS Naturals, Sequences, FiniteSets

CONSTANTS
  SCR_ROWS, SCR_COLS,   \* 25 and 80 in the code
  Glyphs,               \* the characters from ' ' up
  Space,                \* ' '
  NL,                   \* '\n'; every other character below ' ' is dropped
  NUL                   \* what a cell holds before anything is written

ASSUME GridAssumption == SCR_ROWS \in Nat \ {0} /\ SCR_COLS \in Nat \ {0}
ASSUME GlyphAssumption == Space \in Glyphs /\ {NL, NUL} \cap Glyphs = {}

RowNos == 0..(SCR_ROWS - 1)
ColNos == 0..(SCR_COLS - 1)

Screens == [grid : [RowNos -> [ColNos -> Glyphs \cup {NUL}]],
            row : RowNos, col : ColNos]

BlankRow == [j \in ColNos |-> Space]

At(g, r, c) == [grid |-> g, row |-> r, col |-> c]

EmptyScreen == At([i \in RowNos |-> [j \in ColNos |-> NUL]], 0, 0)

\* Mutant of scr_scroll: the last row keeps its characters.
scr_scrollUncleared(g, c) ==
  At([i \in RowNos |-> IF i < SCR_ROWS - 1 THEN g[i + 1] ELSE g[i]],
     SCR_ROWS - 1, c)

scr_scroll(g, c) ==
  At([i \in RowNos |-> IF i < SCR_ROWS - 1 THEN g[i + 1] ELSE BlankRow],
     SCR_ROWS - 1, c)

\* Mutant of NextRow: the grid scrolls one row late.
NextRowLate(g, r) == IF r + 1 > SCR_ROWS THEN scr_scroll(g, 0) ELSE At(g, r + 1, 0)

NextRow(g, r) == IF r + 1 >= SCR_ROWS THEN scr_scroll(g, 0) ELSE At(g, r + 1, 0)

\* A glyph goes under the cursor; the last column wraps at once.
PutGlyph(s, c) ==
  LET g == [s.grid EXCEPT ![s.row][s.col] = c]
  IN  IF s.col + 1 >= SCR_COLS THEN NextRow(g, s.row) ELSE At(g, s.row, s.col + 1)

scr_be_write(s, c) ==
  IF c = NL THEN NextRow(s.grid, s.row)
  ELSE IF c \in Glyphs THEN PutGlyph(s, c)
  ELSE s
=============================================================================
