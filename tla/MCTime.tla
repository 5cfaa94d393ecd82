------------------------------- MODULE MCTime -------------------------------
(* A counter of sixteen values, less than two frames; seconds of three      *)
(* values in a BCD of two, so that a carry reaches the hours.               *)
EXTENDS Time
=============================================================================
