---------------------------- MODULE MCFrameSwap ----------------------------
(***************************************************************************)
(* Instances of FrameSwap: two frames that differ and three rows, so that  *)
(* a refresh can be torn at either of two places while a copy is at any.   *)
(***************************************************************************)
EXTENDS FrameSwap

CONSTANTS f1, f2
MCFrame == {f1, f2}
=============================================================================
