------------------------------- MODULE MCCli -------------------------------
(* Lines of up to three characters over an alphabet that spells every kind of command. *)
EXTENDS Cli

CONSTANTS gee, tee

MCPrompt == <<tee, Space>>
MCCancelled == <<tee, NL>>
MCCommands == (<<gee, tee>> :> <<tee, NL>>)
MCGdb == <<gee>>
MCTest == <<tee>>
MCEcho == <<tee, Space>>
MCHex == <<gee, Space>>
MCDigit == (gee :> 0) @@ (tee :> 1)
MCHexDigit == [n \in 0..2 |-> <<gee, tee, Space>>[n + 1]]
MCZeroX == <<gee, tee>>
\* Passed; failed, behind the trace of an abort
MCReports == {[term |-> <<gee, NL>>, scr |-> <<>>],
              [term |-> <<tee, NL, tee, NL>>, scr |-> <<tee, NL>>]}
MCUnknown == <<tee>>
MCTypeHelp == <<gee, NL>>
MCSwitching == <<gee, NL>>
MCDemo == {Whole(<<tee, gee, NL>>)}
MCSwap == {Whole(<<gee, NL>>)}
\* A trace that is aborted itself: what is lost to the terminal shows on the screen
MCTraces == {[term |-> <<tee, NL>>, scr |-> <<gee, NL>>]}
=============================================================================
