------------------------------- MODULE Screen -------------------------------
(***************************************************************************)
(* The screen backend fed one character at a time, against a sheet of      *)
(* paper without end: the grid must be a window on the last rows of it.    *)
(***************************************************************************)
EXTENDS ScreenOps, FiniteSetsExt

CONSTANTS
  Controls,   \* characters below ' ' other than '\n'
  MaxChars    \* bound on the text

VARIABLES
  scr,        \* scr_grid, scr_row and scr_col
  text        \* history: every character written

vars == <<scr, text>>

Init ==
  /\ scr = EmptyScreen
  /\ text = <<>>

Write(c) ==
  /\ Len(text) < MaxChars
  /\ scr' = scr_be_write(scr, c)
  /\ text' = Append(text, c)

Next == \E c \in Glyphs \cup Controls \cup {NL} : Write(c)

Spec == Init /\ [][Next]_vars

----------------------------------------------------------------------------
(***************************************************************************)
(* The sheet.  A line of w glyphs takes w \div SCR_COLS full rows and one  *)
(* more, where the next glyph would go; the lines follow each other.       *)
(***************************************************************************)
Before(n, S) == {i \in 1..(n - 1) : text[i] \in S}
Line(n) == Cardinality(Before(n, {NL}))
LineEnds == Before(Len(text) + 1, {NL})

\* How many glyphs stand before position n on its own line
Offset(n) == Cardinality({i \in Before(n, Glyphs) : Line(i) = Line(n)})

\* The row of the sheet where the line of position n begins
Base(n) ==
  MapThenSumSet(LAMBDA e : Offset(e) \div SCR_COLS + 1,
                {e \in LineEnds : Line(e) < Line(n)})

SheetRow(n) == Base(n) + Offset(n) \div SCR_COLS
SheetCol(n) == Offset(n) % SCR_COLS

End == Len(text) + 1
Top == IF SheetRow(End) < SCR_ROWS THEN 0 ELSE SheetRow(End) - SCR_ROWS + 1

Written(i, j) ==
  {n \in Before(End, Glyphs) : SheetRow(n) = Top + i /\ SheetCol(n) = j}

----------------------------------------------------------------------------
\* The screen keeps its type.
TypeOK == scr \in Screens

\* The grid is the last SCR_ROWS rows of the sheet and the cursor is where
\* the text ends: wrapping and scrolling lose, move or overwrite nothing.
ShowsLastRows ==
  /\ scr.row = SheetRow(End) - Top /\ scr.col = SheetCol(End)
  /\ \A i \in RowNos, j \in ColNos :
       IF Written(i, j) = {} THEN scr.grid[i][j] \in {NUL, Space}
       ELSE Written(i, j) = {CHOOSE n \in Written(i, j) : text[n] = scr.grid[i][j]}
=============================================================================
