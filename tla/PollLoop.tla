------------------------------ MODULE PollLoop ------------------------------
(***************************************************************************)
(* The kernel's main loop as it runs with no debugger in the way: work,    *)
(* then gdb_poll, which executes its INT3 between setting and clearing     *)
(* gdb_from_poll and comes back.  GdbTrap shows that traps, steps and      *)
(* resumes leave this order of the program's own instructions untouched.   *)
(***************************************************************************)
CONSTANTS Work, Poll, PollInt3, PollClear   \* where the program can be

VARIABLES
  at,         \* the program's next own instruction
  from_poll   \* gdb_from_poll

vars == <<at, from_poll>>

Init == at = Work /\ from_poll = FALSE

DoWork == at = Work /\ at' = Poll /\ UNCHANGED from_poll

DoPoll ==
  /\ at = Poll
  /\ \/ at' = Work /\ UNCHANGED from_poll
     \/ at' = PollInt3 /\ from_poll' = TRUE

DoInt3 == at = PollInt3 /\ at' = PollClear /\ UNCHANGED from_poll

DoClear == at = PollClear /\ at' = Work /\ from_poll' = FALSE

Next == DoWork \/ DoPoll \/ DoInt3 \/ DoClear

Spec == Init /\ [][Next]_vars
=============================================================================
