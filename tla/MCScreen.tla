------------------------------ MODULE MCScreen ------------------------------
(* A grid of two columns and three rows: a text of six characters wraps, *)
(* scrolls, and scrolls because it wraps.  Glyphs of two by two pixels; in *)
(* the small mode the second column is cut off and the third row does not  *)
(* fit.  The squares reach over the edges and over the text.               *)
EXTENDS Draw

CONSTANTS ink, dim, mark, nought

MCFont == (ink :> {<<0, 0>>, <<1, 1>>}) @@ (mark :> {<<1, 0>>, <<0, 1>>, <<1, 1>>})
          @@ (Space :> {}) @@ (nought :> {<<0, 0>>, <<0, 1>>, <<1, 0>>})
MCDigits == [n \in 0..2 |-> IF n = 0 THEN nought ELSE ink]
MCText == <<ink>>
MCCos == <<4, 0, -4, 0>>
MCSin == <<0, 4, 0, -4>>
MCVbe == [width |-> 14, height |-> 11, bpp |-> 32]
MC13 == [width |-> 4, height |-> 6, bpp |-> 8]
=============================================================================
