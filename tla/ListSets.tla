------------------------------- MODULE ListSets -------------------------------
(***************************************************************************)
(* What a synchronised run of lab2_list promises about its sublists: they  *)
(* are sets into which every worker puts each of its elements once, in one *)
(* step, and from which it takes each of them once, in one step, after it  *)
(* has put all of them in.                                                 *)
(***************************************************************************)
EXTENDS Integers

CONSTANTS Elements,   \* the elements of the pool
          Owner,      \* Owner[e]: the worker an element belongs to
          Lists       \* the sublists

VARIABLES home,       \* home[e]: the sublist the key of e hashes to
          where       \* where[e]: Fresh, the sublist e is in, or Gone

Fresh == 0
Gone  == -1

Init == home \in [Elements -> Lists] /\ where = [e \in Elements |-> Fresh]

Insert(e) ==
  /\ where[e] = Fresh
  /\ where' = [where EXCEPT ![e] = home[e]]
  /\ UNCHANGED home

Delete(e) ==
  /\ where[e] = home[e]
  /\ \A f \in Elements : Owner[f] = Owner[e] => where[f] # Fresh
  /\ where' = [where EXCEPT ![e] = Gone]
  /\ UNCHANGED home

Next == \E e \in Elements : Insert(e) \/ Delete(e)

Spec == Init /\ [][Next]_<<home, where>>
=============================================================================
