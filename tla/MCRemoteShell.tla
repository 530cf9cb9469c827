----------------------------- MODULE MCRemoteShell -----------------------------
(***************************************************************************)
(* RemoteShell for TLC: short sessions.                                    *)
(***************************************************************************)
EXTENDS RemoteShell

Session(k, c, n, zip, log) ==
  [keys |-> k, chars |-> c, out |-> n, compress |-> zip, log |-> log]

\* Sessions that end with ^D; keys and a second ^D after the first; more output than
\* the kern_to_sock pipe takes; a shell that writes line feeds and a ^D, logged; and
\* --compress.
MCScenarios ==
  { Session(<<"x", "cr", "^D">>, {"y"}, 2, FALSE, FALSE),
    Session(<<"cr", "^C", "^D">>, {"y"}, 1, FALSE, FALSE),
    Session(<<"lf", "^D">>, {"y"}, 2, FALSE, TRUE),
    Session(<<"^D", "x", "^D">>, {"y"}, 1, FALSE, FALSE),
    Session(<<"lf">>, {"y", "lf"}, 3, FALSE, FALSE),
    Session(<<"cr", "^D">>, {"lf"}, 1, FALSE, TRUE),
    Session(<<"x", "lf", "x">>, {"lf", "^D"}, 2, FALSE, TRUE),
    Session(<<"x", "^D">>, {"y"}, 2, TRUE, FALSE),
    Session(<<"^D">>, {"y"}, 2, TRUE, TRUE) }

MCChatty == { Session(<<"^D">>, {"y"}, 3, FALSE, FALSE) }
=============================================================================
