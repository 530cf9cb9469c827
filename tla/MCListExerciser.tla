---------------------------- MODULE MCListExerciser ----------------------------
(***************************************************************************)
(* ListExerciser for TLC: keys are small integers, the sum of the          *)
(* characters of a key is the key itself.  The keys drawn make one worker  *)
(* use both sublists and the two share one of them, with two equal keys    *)
(* and a different one in it.                                              *)
(***************************************************************************)
EXTENDS ListExerciser

MCKeySum == [kk \in Keys |-> kk]

MCKeyChoices == {[e \in Elements |-> IF e[1] = 1 THEN e[2] ELSE e[2] + 1]}
=============================================================================
