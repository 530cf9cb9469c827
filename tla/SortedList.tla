------------------------------ MODULE SortedList ------------------------------
(***************************************************************************)
(* CS111 project 2: SortedList.c, a circular doubly linked list with a     *)
(* head node, used by lab2_list.c from several threads at once.            *)
(*                                                                         *)
(* Every load or store of a link is a step of its own.  A process works in *)
(* the frame of one call at a time: the list and the element it was given, *)
(* the cursor `lookup', two registers for the pointers the compiler holds  *)
(* in the middle of an expression, and `count'.  Its pc names the next     *)
(* access; a call ends at "return", or at "bad_length", "bad_lookup" or    *)
(* "bad_delete" when it reports -1, NULL or 1.                             *)
(***************************************************************************)
EXTENDS Integers

VARIABLES key,                    \* key[e]: the key of element e
          next, prev,             \* the links of every node
          pc, lookup, ra, rb, count

links == <<next, prev>>
frame == <<lookup, ra, rb, count>>

At(p, l)    == pc[p] = l
Moves(p, l) == pc' = [pc EXCEPT ![p] = l]

-----------------------------------------------------------------------------
\* Single accesses.  `from' and `to' are the places before and after them.

\* reg = field of node
LoadA(p, from, to, field, node) ==
  /\ At(p, from)
  /\ ra' = [ra EXCEPT ![p] = field[node]]
  /\ Moves(p, to)
  /\ UNCHANGED <<links, lookup, rb, count>>

LoadB(p, from, to, field, node) ==
  /\ At(p, from)
  /\ rb' = [rb EXCEPT ![p] = field[node]]
  /\ Moves(p, to)
  /\ UNCHANGED <<links, lookup, ra, count>>

\* lookup = node->next
Advance(p, node, to) ==
  /\ lookup' = [lookup EXCEPT ![p] = next[node]]
  /\ Moves(p, to)
  /\ UNCHANGED <<links, ra, rb>>

\* node->next = val, or node->prev = val
StoreNext(p, from, to, node, val) ==
  /\ At(p, from)
  /\ next' = [next EXCEPT ![node] = val]
  /\ Moves(p, to)
  /\ UNCHANGED <<prev, frame>>

StorePrev(p, from, to, node, val) ==
  /\ At(p, from)
  /\ prev' = [prev EXCEPT ![node] = val]
  /\ Moves(p, to)
  /\ UNCHANGED <<next, frame>>

\* if (field of node != val) the call fails at place `bad'
Check(p, from, to, bad, field, node, val) ==
  /\ At(p, from)
  /\ Moves(p, IF field[node] = val THEN to ELSE bad)
  /\ UNCHANGED <<links, frame>>

-----------------------------------------------------------------------------
\* Mutant of WalksOn: the walk stops at an equal key.
WalksOnStrict(e, x, list) == x # list /\ key[e] < key[x]

\* SortedList_insert(list, e): the element goes in front of the first node with
\* a smaller key.
WalksOn(e, x, list) == x # list /\ key[e] <= key[x]

\* Mutant of InsertWalk: the loop takes list->next again, not lookup->next.
InsertWalkStuck(p, list, e) ==
  \/ At(p, "insert") /\ Advance(p, list, "i_walk") /\ UNCHANGED count
  \/ /\ At(p, "i_walk") /\ WalksOn(e, lookup[p], list)
     /\ Advance(p, list, "i_walk")
     /\ UNCHANGED count
  \/ /\ At(p, "i_walk") /\ ~WalksOn(e, lookup[p], list)
     /\ Moves(p, "i_self")
     /\ UNCHANGED <<links, frame>>

InsertWalk(p, list, e) ==
  \/ At(p, "insert") /\ Advance(p, list, "i_walk") /\ UNCHANGED count
  \/ /\ At(p, "i_walk") /\ WalksOn(e, lookup[p], list)
     /\ Advance(p, lookup[p], "i_walk")
     /\ UNCHANGED count
  \/ /\ At(p, "i_walk") /\ ~WalksOn(e, lookup[p], list)
     /\ Moves(p, "i_self")
     /\ UNCHANGED <<links, frame>>

\* Mutant of InsertSelf: element->next is not set.
InsertSelfNoNext(p, e) ==
  /\ At(p, "i_self")
  /\ prev' = [prev EXCEPT ![e] = prev[lookup[p]]]
  /\ Moves(p, "i_pred")
  /\ UNCHANGED <<next, frame>>

\* element->prev = lookup->prev; element->next = lookup: nobody else can reach
\* the element yet.
InsertSelf(p, e) ==
  /\ At(p, "i_self")
  /\ prev' = [prev EXCEPT ![e] = prev[lookup[p]]]
  /\ next' = [next EXCEPT ![e] = lookup[p]]
  /\ Moves(p, "i_pred")
  /\ UNCHANGED frame

SortedList_insert(p, list, e) ==
  \/ InsertWalk(p, list, e)
  \/ InsertSelf(p, e)
  \/ LoadA(p, "i_pred", "i_next", prev, lookup[p])
  \/ StoreNext(p, "i_next", "i_prev", ra[p], e)
  \/ StorePrev(p, "i_prev", "return", lookup[p], e)

\* Mutant of SortedList_delete: only one of the neighbours is relinked.
DeleteHalf(p, e) ==
  \/ LoadA(p, "d_next", "d_chk1", next, e)
  \/ Check(p, "d_chk1", "d_prev", "bad_delete", prev, ra[p], e)
  \/ LoadA(p, "d_prev", "d_chk2", prev, e)
  \/ Check(p, "d_chk2", "d_un1", "bad_delete", next, ra[p], e)
  \/ LoadA(p, "d_un1", "d_un2", next, e)
  \/ LoadB(p, "d_un2", "d_un3", prev, e)
  \/ StorePrev(p, "d_un3", "return", ra[p], rb[p])

\* SortedList_delete(e): two checks, then the element is unlinked.  Every
\* `element->next->prev' is a load of the one and an access through it.
SortedList_delete(p, e) ==
  \/ LoadA(p, "d_next", "d_chk1", next, e)
  \/ Check(p, "d_chk1", "d_prev", "bad_delete", prev, ra[p], e)
  \/ LoadA(p, "d_prev", "d_chk2", prev, e)
  \/ Check(p, "d_chk2", "d_un1", "bad_delete", next, ra[p], e)
  \/ LoadA(p, "d_un1", "d_un2", next, e)
  \/ LoadB(p, "d_un2", "d_un3", prev, e)
  \/ StorePrev(p, "d_un3", "d_un4", ra[p], rb[p])
  \/ LoadA(p, "d_un4", "d_un5", prev, e)
  \/ LoadB(p, "d_un5", "d_un6", next, e)
  \/ StoreNext(p, "d_un6", "return", ra[p], rb[p])

\* SortedList_lookup(list, key of e): the loop goes on while the key is not
\* greater than the node's and returns at the first equal one.  The caller only
\* compares the node with NULL before it deletes e.
Finds(e, x) == key[e] = key[x]

SortedList_lookup(p, list, e) ==
  \/ At(p, "lookup") /\ Advance(p, list, "l_walk") /\ UNCHANGED count
  \/ /\ At(p, "l_walk")
     /\ WalksOn(e, lookup[p], list) /\ ~Finds(e, lookup[p])
     /\ Advance(p, lookup[p], "l_walk")
     /\ UNCHANGED count
  \/ /\ At(p, "l_walk")
     /\ WalksOn(e, lookup[p], list) /\ Finds(e, lookup[p])
     /\ Moves(p, "d_next")
     /\ UNCHANGED <<links, frame>>
  \/ /\ At(p, "l_walk") /\ ~WalksOn(e, lookup[p], list)
     /\ Moves(p, "bad_lookup")
     /\ UNCHANGED <<links, frame>>

\* Mutant of SortedList_length: the head is counted as well.
LengthWithHead(p, list) ==
  \/ At(p, "length") /\ Advance(p, list, "n_head") /\ count' = [count EXCEPT ![p] = 1]
  \/ Check(p, "n_head", "n_walk", "bad_length", prev, lookup[p], list)
  \/ lookup[p] # list /\ LoadA(p, "n_walk", "n_chk", next, lookup[p])
  \/ Check(p, "n_chk", "n_step", "bad_length", prev, ra[p], lookup[p])
  \/ /\ At(p, "n_step")
     /\ Advance(p, lookup[p], "n_walk")
     /\ count' = [count EXCEPT ![p] = @ + 1]
  \/ /\ At(p, "n_walk") /\ lookup[p] = list
     /\ Moves(p, "return")
     /\ UNCHANGED <<links, frame>>

\* SortedList_length(list): checks lookup->next->prev for every element passed.
SortedList_length(p, list) ==
  \/ At(p, "length") /\ Advance(p, list, "n_head") /\ UNCHANGED count
  \/ Check(p, "n_head", "n_walk", "bad_length", prev, lookup[p], list)
  \/ lookup[p] # list /\ LoadA(p, "n_walk", "n_chk", next, lookup[p])
  \/ Check(p, "n_chk", "n_step", "bad_length", prev, ra[p], lookup[p])
  \/ /\ At(p, "n_step")
     /\ Advance(p, lookup[p], "n_walk")
     /\ count' = [count EXCEPT ![p] = @ + 1]
  \/ /\ At(p, "n_walk") /\ lookup[p] = list
     /\ Moves(p, "return")
     /\ UNCHANGED <<links, frame>>
=============================================================================
