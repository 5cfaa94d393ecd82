----------------------------- MODULE MCConsole -----------------------------
(* A console of small texts: words with and without a newline, and an      *)
(* empty line.  The ring holds fewer characters than two calls print.      *)
EXTENDS Console

MCTexts == {<<"a", NL>>, <<"b">>, <<NL>>}
MCRawTexts == {<<"x", NL>>, <<"x">>}
=============================================================================
