------------------------------- MODULE MCRoster -------------------------------
(***************************************************************************)
(* Roster for TLC.                                                         *)
(***************************************************************************)
EXTENDS Roster

MCName(f, l) == [first |-> f, last |-> l]
\* Two players with the same last name, and one before and one after them.
MCNames == {MCName(2, 10), MCName(1, 20), MCName(3, 20), MCName(2, 30)}

\* The roster objects, and the values, are interchangeable.
MCSymmetry == Permutations(Rosters) \cup Permutations(Values)
=============================================================================
