----------------------------- MODULE MCTempSensor -----------------------------
(***************************************************************************)
(* TempSensor for TLC: short sessions.  The lines have up to two           *)
(* characters, enough to be cut anywhere by read().                        *)
(***************************************************************************)
EXTENDS TempSensor

MCLine(c, a, n) == [cmd |-> c, arg |-> a, len |-> n]

\* A session that ends with OFF, one that goes on (with a negative period, which is
\* accepted), and two that end with an argument that is refused.
MCOff     == << MCLine("STOP", "", 2), MCLine("SCALE", "C", 1), MCLine("other", "", 0),
                MCLine("START", "", 2), MCLine("LOG", "", 1), MCLine("OFF", "", 1) >>
MCOn      == << MCLine("STOP", "", 1), MCLine("SCALE", "C", 2), MCLine("START", "", 2),
                MCLine("SCALE", "F", 1), MCLine("PERIOD", -1, 1) >>
MCRefused == { << MCLine("SCALE", "C", 1), MCLine("SCALE", "K", 2), MCLine("OFF", "", 1) >>,
               << MCLine("PERIOD", 3, 2), MCLine("PERIOD", 0, 1), MCLine("OFF", "", 1) >> }

MCSessions == {MCOff, MCOn} \cup MCRefused
=============================================================================
