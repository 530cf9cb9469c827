------------------------------ MODULE MCTermShell ------------------------------
(***************************************************************************)
(* TermShell for TLC: short sessions at the keyboard.                      *)
(***************************************************************************)
EXTENDS TermShell

\* Ordinary keys, an interrupt, keys and a second ^D after the first; then
\* sessions whose keys fit into the pipe, with a ^D and without.
MCSessions ==
  { <<"x", "cr", "^C", "x", "^D", "lf", "^D">>, <<"lf", "^D", "x", "x">>,
    <<"x", "cr", "^C", "^D">>, <<"x", "x", "^C">> }
=============================================================================
