------------------------------ MODULE DemoOps ------------------------------
(***************************************************************************)
(* The walk of the progress bar over the frames (ui/demos/demo_progress.c) *)
(* and what ui/ui.c keeps of it, on a screen that is ready.                *)
(***************************************************************************)
EXTENDS Naturals

CONSTANT Full      \* the bar's last percentage, one frame each; 100 in the code

ASSUME FullAssumption == Full \in Nat \ {0}

Bars == [phase : 0..Full, progress_done : BOOLEAN, cur_pct : 0..Full,
         cur_txt : {"", "done"}]
FirstBar == [phase |-> 0, progress_done |-> FALSE, cur_pct |-> 0, cur_txt |-> ""]

progress_init(b) == [b EXCEPT !.cur_pct = 0, !.cur_txt = ""]
progress_text(b, txt) == [b EXCEPT !.cur_txt = txt]
progress_set(b, p) == [b EXCEPT !.cur_pct = IF p > Full THEN Full ELSE p]

\* progress_init in the first frame, one percent more in each of the others
demo_progress(b) ==
  LET next == [progress_set(b, b.phase) EXCEPT !.phase = @ + 1]
  IN  IF b.phase = 0 THEN [progress_init(b) EXCEPT !.phase = 1]
      ELSE IF next.phase > Full
      THEN [progress_text(next, "done") EXCEPT !.phase = 0, !.progress_done = TRUE]
      ELSE next

\* demo_draw's part in it
NextBar(b) == IF b.progress_done THEN progress_set(b, Full) ELSE demo_progress(b)
=============================================================================
