-------------------------- MODULE ListExerciserProofs --------------------------
(***************************************************************************)
(* Proofs about ListExerciser, for any number of threads, iterations and   *)
(* sublists and any keys, in this order:                                   *)
(*                                                                         *)
(*   - types and pointers: the type invariant cannot be separated from the *)
(*     fact that no unset pointer is followed, as the value of a link read *)
(*     through one would be unknown;                                       *)
(*   - the locks keep two workers out of one sublist;                      *)
(*   - chains: what an insertion and a deletion do to a circular list;     *)
(*   - every step of a call keeps its sublist a chain, and its registers   *)
(*     where they should be in it, when nobody else is in the sublist;     *)
(*   - so a synchronised run never reports corruption, its free sublists   *)
(*     are intact and its lengths exact;                                   *)
(*   - a synchronised run is one of ListSets;                              *)
(*   - the waits are counted.                                              *)
(***************************************************************************)
EXTENDS ListExerciser, FiniteSetTheorems, TLAPS

InsertPlaces == {"insert", "i_walk", "i_self", "i_pred", "i_next", "i_prev"}
LengthPlaces == {"length", "n_head", "n_walk", "n_chk", "n_step", "bad_length"}
DeletePlaces == {"lookup", "l_walk", "bad_lookup", "bad_delete", "d_next", "d_chk1",
                 "d_prev", "d_chk2", "d_un1", "d_un2", "d_un3", "d_un4", "d_un5", "d_un6"}

\* A process is only at places of the loop it is in, within the loop's bounds.
PlacesOK ==
  /\ pc[MainT] \in LengthPlaces \cup {"opts", "create", "join", "check", "report", "return"}
  /\ op[MainT] = "length"
  /\ pc[MainT] \in LengthPlaces \cup {"return"} => i[MainT] \in Lists
  /\ \A t \in Threads :
       /\ pc[t] \in CallPlaces \cup {"none", "loop", "lock", "spin", "returned"}
       /\ pc[t] \in CallPlaces \cup {"lock", "spin"} => i[t] <= LoopBound(t)
       /\ pc[t] \in InsertPlaces => op[t] = "insert"
       /\ pc[t] \in LengthPlaces => op[t] = "length"
       /\ pc[t] \in DeletePlaces => op[t] = "delete"

\* The links of x have been set.
IsSet(x) == next[x] \in Nodes /\ prev[x] \in Nodes

\* Every pointer held anywhere is unset or leads to a node with set links.
PointersSet ==
  /\ \A x \in Nodes : /\ next[x] # Null => IsSet(next[x])
                      /\ prev[x] # Null => IsSet(prev[x])
  /\ \A p \in Procs : /\ lookup[p] # Null => IsSet(lookup[p])
                      /\ ra[p] # Null => IsSet(ra[p])
                      /\ rb[p] # Null => IsSet(rb[p])
  /\ \A h \in Heads : IsSet(h)

\* The links of an element are set before the element is linked in.
InsertedSet ==
  \A t \in Threads :
    /\ \A j \in 1..n_iterations : op[t] # "insert" \/ j < i[t] => IsSet(<<t, j>>)
    /\ op[t] = "insert" /\ pc[t] \in {"i_pred", "i_next", "i_prev", "return"}
         => IsSet(Element(t))

WInv == TypeOK /\ PlacesOK /\ PointersSet /\ InsertedSet /\ NoWildPointers

\* get_key_hash() always names a sublist.
LEMMA HashInRange ==
  ASSUME NEW kk \in Keys
  PROVE  get_key_hash(kk) \in Lists
<1>1. KeySum[kk] \div n_lists \in Int
  BY OptionsAssumption
<1>2. (KeySum[kk] \div n_lists) % n_lists \in 0..(n_lists - 1)
  BY <1>1, OptionsAssumption
<1> QED
  BY <1>2, OptionsAssumption DEF get_key_hash, Lists

\* The processes and the nodes, as sets.
LEMMA Domains ==
  /\ Threads \subseteq Procs /\ MainT \in Procs /\ MainT \notin Threads
  /\ \A p \in Procs : p = MainT \/ p \in Threads
  /\ \A j : j \in 1..n_threads => j \in Threads
  /\ Heads \subseteq Nodes /\ Elements \subseteq Nodes /\ Null \notin Nodes
  /\ \A l \in Lists : Head(l) \in Heads
  /\ \A t \in Threads, j \in 1..n_iterations : <<t, j>> \in Elements
  /\ \A x \in Elements : x[1] \in Threads /\ x[2] \in 1..n_iterations /\ x = <<x[1], x[2]>>
<1> USE OptionsAssumption DEF Threads, Procs, MainT, Heads, Head, Elements, Nodes, Null, Lists
<1>1. Null \notin Heads
  OBVIOUS
<1>2. Null \notin Elements
  OBVIOUS
<1> QED
  BY <1>1, <1>2

\* The sublist and the element of an operation exist.
LEMMA Arguments ==
  ASSUME TypeOK, PlacesOK
  PROVE  /\ \A t \in Threads : pc[t] \in CallPlaces \cup {"lock", "spin"} =>
               /\ Sublist(t) \in Lists
               /\ op[t] # "length" => Element(t) \in Elements
         /\ pc[MainT] \in LengthPlaces \cup {"return"} => Sublist(MainT) \in Lists
<1>1. ASSUME NEW t \in Threads, pc[t] \in CallPlaces \cup {"lock", "spin"}
      PROVE  Sublist(t) \in Lists /\ (op[t] # "length" => Element(t) \in Elements)
  <2>1. i[t] \in Nat \ {0} /\ i[t] <= LoopBound(t) /\ t \in Procs
    BY <1>1, Domains DEF TypeOK, PlacesOK
  <2>2. CASE op[t] = "length"
    BY <2>1, <2>2, OptionsAssumption DEF Sublist, Lists, LoopBound
  <2>3. CASE op[t] # "length"
    <3>1. Element(t) \in Elements
      BY <2>1, <2>3, Domains, OptionsAssumption DEF LoopBound, Element
    <3>2. key[Element(t)] \in Keys
      BY <3>1 DEF TypeOK
    <3> QED
      BY <2>3, <3>1, <3>2, HashInRange DEF Sublist
  <2> QED
    BY <2>2, <2>3
<1> QED
  BY <1>1 DEF PlacesOK, Sublist

\* What an access may do to the pointers: each keeps its value or is set to a
\* node whose links are set.
OnlySet(new, old, S) == \A x \in S : new[x] = old[x] \/ (new[x] \in Nodes /\ IsSet(new[x]))

SafeAccess ==
  /\ next' \in [Nodes -> Nodes \cup {Null}] /\ OnlySet(next', next, Nodes)
  /\ prev' \in [Nodes -> Nodes \cup {Null}] /\ OnlySet(prev', prev, Nodes)
  /\ lookup' \in [Procs -> Nodes \cup {Null}] /\ OnlySet(lookup', lookup, Procs)
  /\ ra' \in [Procs -> Nodes \cup {Null}] /\ OnlySet(ra', ra, Procs)
  /\ rb' \in [Procs -> Nodes \cup {Null}] /\ OnlySet(rb', rb, Procs)

\* It leaves no pointer to a node with unset links behind.
LEMMA PointersStaySet ==
  ASSUME TypeOK, PointersSet, SafeAccess
  PROVE  /\ PointersSet'
         /\ \A x \in Nodes : IsSet(x) => IsSet(x)'
<1>1. \A x \in Nodes : IsSet(x) => IsSet(x)'
  BY DEF SafeAccess, OnlySet, IsSet
<1>2. Null \notin Nodes /\ Heads \subseteq Nodes
  BY Domains
<1>3. \A x \in Nodes : (next[x] # Null => IsSet(next[x]))' /\ (prev[x] # Null => IsSet(prev[x]))'
  BY <1>1, <1>2 DEF TypeOK, PointersSet, SafeAccess, OnlySet
<1>4. \A p \in Procs : /\ (lookup[p] # Null => IsSet(lookup[p]))'
                       /\ (ra[p] # Null => IsSet(ra[p]))'
                       /\ (rb[p] # Null => IsSet(rb[p]))'
  BY <1>1, <1>2 DEF TypeOK, PointersSet, SafeAccess, OnlySet
<1> QED
  BY <1>1, <1>2, <1>3, <1>4 DEF PointersSet

\* Every access of a list call keeps the invariant.
LEMMA CallKeepsWInv ==
  ASSUME NEW p \in Procs, WInv, ListCall(p)
  PROVE  WInv'
<1> DEFINE L == Head(Sublist(p))
           E == Element(p)
<1>1. /\ p \in Threads \/ (p = MainT /\ pc[p] \in LengthPlaces)
      /\ L \in Nodes /\ IsSet(L)
      /\ op[p] # "length" => E \in Nodes /\ E \in Elements
  <2>1. p \in Threads \/ p = MainT
    BY Domains
  <2>2. CASE p \in Threads
    BY <2>2, Arguments, Domains DEF WInv, ListCall, PointersSet
  <2>3. CASE p = MainT
    <3>1. pc[p] \in LengthPlaces /\ op[p] = "length"
      BY <2>3 DEF WInv, PlacesOK, ListCall, LengthPlaces, CallPlaces, SortedList_length, Check,
         LoadA, At
    <3> QED
      BY <2>3, <3>1, Arguments, Domains DEF WInv, PointersSet
  <2> QED
    BY <2>1, <2>2, <2>3
<1>2. /\ lookup[p] \in Nodes => IsSet(lookup[p])
      /\ ra[p] \in Nodes => IsSet(ra[p])
      /\ rb[p] \in Nodes => IsSet(rb[p])
      /\ pc[p] \in DeletePlaces => IsSet(E)
  <2>1. Null \notin Nodes
    BY Domains
  <2>2. ASSUME pc[p] \in DeletePlaces PROVE IsSet(E)
    <3>1. p \in Threads /\ op[p] = "delete" /\ E = <<p, i[p]>>
      BY <1>1, <2>2 DEF WInv, PlacesOK, DeletePlaces, LengthPlaces, Element
    <3>2. i[p] \in 1..n_iterations
      BY <1>1, <3>1, Domains DEF Element
    <3> QED
      BY <3>1, <3>2 DEF WInv, InsertedSet
  <2> QED
    BY <2>1, <2>2 DEF WInv, PointersSet
<1>3. \A x \in Nodes : IsSet(x) => /\ next[x] \in Nodes /\ IsSet(next[x])
                                   /\ prev[x] \in Nodes /\ IsSet(prev[x])
  BY Domains DEF WInv, PointersSet, IsSet
<1>4. ASSUME SafeAccess, op' = op, i' = i,
             \A q \in Procs \ {p} : pc'[q] = pc[q],
             pc'[p] \in {"i_pred", "i_next", "i_prev", "return"} /\ op[p] = "insert"
               => p \in Threads /\ IsSet(E)'
      PROVE  InsertedSet'
  <2>1. \A t \in Threads, j \in 1..n_iterations : <<t, j>> \in Nodes
    BY Domains
  <2>2. \A t \in Threads : /\ Element(t)' = Element(t)
                           /\ op[t] = "insert" /\ pc[t] \in {"i_pred", "i_next", "i_prev", "return"}
                                => Element(t) \in Nodes
    BY <1>4, Arguments, Domains DEF WInv, Element, CallPlaces
  <2>3. \A x \in Nodes : IsSet(x) => IsSet(x)'
    BY <1>4, PointersStaySet DEF WInv
  <2>4. Threads \subseteq Procs
    BY Domains
  <2> QED
    BY <1>4, <2>1, <2>2, <2>3, <2>4 DEF WInv, InsertedSet
<1>5. ASSUME pc[p] \in InsertPlaces
       PROVE  /\ p \in Threads /\ op[p] = "insert" /\ E \in Nodes /\ E' = E
              /\ pc[p] \in {"i_pred", "i_next", "i_prev"} => IsSet(E)
  <2>1. p \in Threads /\ op[p] = "insert" /\ E \in Nodes
    BY <1>1, <1>5 DEF WInv, PlacesOK, InsertPlaces, LengthPlaces
  <2> QED
    BY <2>1 DEF WInv, InsertedSet, Element, ListCall
<1> USE DEF ListCall, stats, locks, links, frame, At, Moves
<1>6. CASE SortedList_length(p, L)
  <2> USE <1>6 DEF SortedList_length, Advance, Check, LoadA
  <2>1. SafeAccess
    BY <1>1, <1>2, <1>3 DEF SafeAccess, OnlySet, WInv, TypeOK, NoWildPointers, DeletePlaces
  <2>2. PlacesOK'
    BY <1>1, Domains DEF WInv, TypeOK, PlacesOK, InsertPlaces, LengthPlaces,
                         DeletePlaces, CallPlaces, LoopBound
  <2>3. PointersSet' /\ TypeOK'
    BY <2>1, PointersStaySet DEF SafeAccess, WInv, TypeOK, Places, CallPlaces
  <2>4. InsertedSet'
    BY <1>1, <1>4, <2>1 DEF WInv, TypeOK, PlacesOK, InsertPlaces, LengthPlaces, DeletePlaces
  <2>5. NoWildPointers'
    BY <1>1, <1>2, Domains DEF WInv, NoWildPointers, TypeOK, IsSet, DeletePlaces
  <2> QED
    BY <2>2, <2>3, <2>4, <2>5 DEF WInv
<1>7. CASE p # MainT /\ InsertWalk(p, L, E)
  <2> USE <1>7 DEF InsertWalk, Advance
  <2>1. SafeAccess
    BY <1>1, <1>2, <1>3, <1>5 DEF SafeAccess, OnlySet, WInv, TypeOK, NoWildPointers, InsertPlaces
  <2>2. PlacesOK'
    BY <1>1, Domains DEF WInv, TypeOK, PlacesOK, InsertPlaces, LengthPlaces,
                         DeletePlaces, CallPlaces, LoopBound
  <2>3. PointersSet' /\ TypeOK'
    BY <2>1, PointersStaySet DEF SafeAccess, WInv, TypeOK, Places, CallPlaces
  <2>4. InsertedSet'
    BY <1>4, <2>1 DEF WInv, TypeOK
  <2>5. NoWildPointers'
    BY <1>1, <1>2, <1>3, <1>5 DEF WInv, NoWildPointers, TypeOK, InsertPlaces
  <2> QED
    BY <2>2, <2>3, <2>4, <2>5 DEF WInv
<1>8. CASE p # MainT /\ InsertSelf(p, E)
  <2> USE <1>8 DEF InsertSelf
  <2>1. SafeAccess
    BY <1>1, <1>2, <1>3, <1>5 DEF SafeAccess, OnlySet, WInv, TypeOK, NoWildPointers, InsertPlaces
  <2>2. PlacesOK'
    BY <1>1, Domains DEF WInv, TypeOK, PlacesOK, InsertPlaces, LengthPlaces,
                         DeletePlaces, CallPlaces, LoopBound
  <2>3. PointersSet' /\ TypeOK'
    BY <2>1, PointersStaySet DEF SafeAccess, WInv, TypeOK, Places, CallPlaces
  <2>4. InsertedSet'
    <3>1. p \in Threads /\ IsSet(E)'
      BY <1>2, <1>3, <1>5 DEF WInv, TypeOK, NoWildPointers, InsertPlaces, IsSet
    <3> QED
      BY <1>4, <2>1, <3>1 DEF WInv, TypeOK
  <2>5. NoWildPointers'
    BY <1>2, <1>3, <1>5 DEF WInv, NoWildPointers, TypeOK, InsertPlaces
  <2> QED
    BY <2>2, <2>3, <2>4, <2>5 DEF WInv
<1>9. CASE p # MainT /\ LoadA(p, "i_pred", "i_next", prev, lookup[p])
  <2> USE <1>9 DEF LoadA
  <2>1. SafeAccess
    BY <1>1, <1>2, <1>3, <1>5 DEF SafeAccess, OnlySet, WInv, TypeOK, NoWildPointers, InsertPlaces
  <2>2. PlacesOK'
    BY <1>1, Domains DEF WInv, TypeOK, PlacesOK, InsertPlaces, LengthPlaces,
                         DeletePlaces, CallPlaces, LoopBound
  <2>3. PointersSet' /\ TypeOK'
    BY <2>1, PointersStaySet DEF SafeAccess, WInv, TypeOK, Places, CallPlaces
  <2>4. InsertedSet'
    <3>1. p \in Threads /\ IsSet(E)'
      BY <1>5, <2>1, PointersStaySet DEF WInv, InsertPlaces
    <3> QED
      BY <1>4, <2>1, <3>1 DEF WInv, TypeOK
  <2>5. NoWildPointers'
    BY <1>2, <1>3, <1>5 DEF WInv, NoWildPointers, TypeOK, InsertPlaces
  <2> QED
    BY <2>2, <2>3, <2>4, <2>5 DEF WInv
<1>10. CASE p # MainT /\ StoreNext(p, "i_next", "i_prev", ra[p], E)
  <2> USE <1>10 DEF StoreNext
  <2>1. SafeAccess
    BY <1>1, <1>2, <1>3, <1>5 DEF SafeAccess, OnlySet, WInv, TypeOK, NoWildPointers, InsertPlaces
  <2>2. PlacesOK'
    BY <1>1, Domains DEF WInv, TypeOK, PlacesOK, InsertPlaces, LengthPlaces,
                         DeletePlaces, CallPlaces, LoopBound
  <2>3. PointersSet' /\ TypeOK'
    BY <2>1, PointersStaySet DEF SafeAccess, WInv, TypeOK, Places, CallPlaces
  <2>4. InsertedSet'
    <3>1. p \in Threads /\ IsSet(E)'
      BY <1>5, <2>1, PointersStaySet DEF WInv, InsertPlaces
    <3> QED
      BY <1>4, <2>1, <3>1 DEF WInv, TypeOK
  <2>5. NoWildPointers'
    BY DEF WInv, NoWildPointers, TypeOK
  <2> QED
    BY <2>2, <2>3, <2>4, <2>5 DEF WInv
<1>11. CASE p # MainT /\ StorePrev(p, "i_prev", "return", lookup[p], E)
  <2> USE <1>11 DEF StorePrev
  <2>1. SafeAccess
    BY <1>1, <1>2, <1>3, <1>5 DEF SafeAccess, OnlySet, WInv, TypeOK, NoWildPointers, InsertPlaces
  <2>2. PlacesOK'
    BY <1>1, Domains DEF WInv, TypeOK, PlacesOK, InsertPlaces, LengthPlaces,
                         DeletePlaces, CallPlaces, LoopBound
  <2>3. PointersSet' /\ TypeOK'
    BY <2>1, PointersStaySet DEF SafeAccess, WInv, TypeOK, Places, CallPlaces
  <2>4. InsertedSet'
    <3>1. p \in Threads /\ IsSet(E)'
      BY <1>5, <2>1, PointersStaySet DEF WInv, InsertPlaces
    <3> QED
      BY <1>4, <2>1, <3>1 DEF WInv, TypeOK
  <2>5. NoWildPointers'
    BY <1>2, <1>3, <1>5 DEF WInv, NoWildPointers, TypeOK, InsertPlaces
  <2> QED
    BY <2>2, <2>3, <2>4, <2>5 DEF WInv
<1>12. CASE p # MainT /\ SortedList_insert(p, L, E)
  BY <1>7, <1>8, <1>9, <1>10, <1>11, <1>12 DEF SortedList_insert
<1>13. CASE p # MainT /\ SortedList_lookup(p, L, E)
  <2> USE <1>13 DEF SortedList_lookup, Advance
  <2>1. SafeAccess
    BY <1>1, <1>2, <1>3 DEF SafeAccess, OnlySet, WInv, TypeOK, NoWildPointers, DeletePlaces
  <2>2. PlacesOK'
    BY <1>1, Domains DEF WInv, TypeOK, PlacesOK, InsertPlaces, LengthPlaces,
                         DeletePlaces, CallPlaces, LoopBound
  <2>3. PointersSet' /\ TypeOK'
    BY <2>1, PointersStaySet DEF SafeAccess, WInv, TypeOK, Places, CallPlaces
  <2>4. InsertedSet'
    BY <1>1, <1>4, <2>1 DEF WInv, TypeOK, PlacesOK, InsertPlaces, LengthPlaces, DeletePlaces
  <2>5. NoWildPointers'
    BY <1>1, <1>2, Domains DEF WInv, NoWildPointers, TypeOK, IsSet, DeletePlaces
  <2> QED
    BY <2>2, <2>3, <2>4, <2>5 DEF WInv
<1>14. CASE p # MainT /\ SortedList_delete(p, E)
  <2> USE <1>14 DEF SortedList_delete, Check, LoadA, LoadB, StoreNext, StorePrev
  <2>1. SafeAccess
    <3>1. E \in Nodes /\ IsSet(E)
      BY <1>1, <1>2 DEF WInv, PlacesOK, DeletePlaces
    <3>2. CASE StorePrev(p, "d_un3", "d_un4", ra[p], rb[p])
      BY <1>2, <1>3, <3>2 DEF SafeAccess, OnlySet, WInv, TypeOK, NoWildPointers
    <3>3. CASE StoreNext(p, "d_un6", "return", ra[p], rb[p])
      BY <1>2, <1>3, <3>3 DEF SafeAccess, OnlySet, WInv, TypeOK, NoWildPointers
    <3>4. CASE links' = links
      BY <1>3, <3>1, <3>4 DEF SafeAccess, OnlySet, WInv, TypeOK
    <3> QED
      BY <3>2, <3>3, <3>4
  <2>2. PlacesOK'
    BY <1>1, Domains DEF WInv, TypeOK, PlacesOK, InsertPlaces, LengthPlaces,
                         DeletePlaces, CallPlaces, LoopBound
  <2>3. PointersSet' /\ TypeOK'
    BY <2>1, PointersStaySet DEF SafeAccess, WInv, TypeOK, Places, CallPlaces
  <2>4. InsertedSet'
    BY <1>1, <1>4, <2>1 DEF WInv, TypeOK, PlacesOK, InsertPlaces, LengthPlaces, DeletePlaces
  <2>5. NoWildPointers'
    BY <1>1, <1>2, Domains DEF WInv, NoWildPointers, TypeOK, IsSet, DeletePlaces
  <2> QED
    BY <2>2, <2>3, <2>4, <2>5 DEF WInv
<1> QED
  BY <1>6, <1>12, <1>13, <1>14

\* So does every other step.
LEMMA NextKeepsWInv == WInv /\ [Next]_vars => WInv'
<1> SUFFICES ASSUME WInv, [Next]_vars PROVE WInv'
  OBVIOUS
<1> USE DEF WInv, links, locks, frame, stats, At, Moves
<1>1. CASE Fail
  <2>1. TypeOK'
    <3>1. pc' \in [Procs -> Places]
      BY <1>1, Domains DEF Fail, TypeOK, Places, CallPlaces
    <3>2. i' \in [Procs -> Nat \ {0}]
      BY <1>1, Domains DEF Fail, TypeOK
    <3> QED
      BY <1>1, <3>1, <3>2, Domains, OptionsAssumption DEF Fail, TypeOK, Running, SigFpe, NoOwner,
         MainT
  <2>2. PlacesOK'
    BY <1>1, Domains, OptionsAssumption DEF Fail, TypeOK, PlacesOK, Places, CallPlaces,
       InsertPlaces, LengthPlaces, DeletePlaces, LoopBound
  <2>3. PointersSet'
    BY <1>1, Domains DEF Fail, TypeOK, PointersSet, IsSet
  <2>4. InsertedSet'
    BY <1>1, Domains DEF Fail, TypeOK, InsertedSet, IsSet, Element
  <2>5. NoWildPointers'
    BY <1>1, Domains DEF Fail, TypeOK, NoWildPointers
  <2> QED
    BY <2>1, <2>2, <2>3, <2>4, <2>5
<1>2. CASE GetOpts
  <2>1. TypeOK'
    <3>1. pc' \in [Procs -> Places]
      BY <1>2, Domains DEF GetOpts, TypeOK, Places, CallPlaces
    <3>2. i' \in [Procs -> Nat \ {0}]
      BY <1>2, Domains DEF GetOpts, TypeOK
    <3> QED
      BY <1>2, <3>1, <3>2, Domains, OptionsAssumption DEF GetOpts, TypeOK, Running, SigFpe,
         NoOwner, MainT
  <2>2. PlacesOK'
    BY <1>2, Domains, OptionsAssumption DEF GetOpts, TypeOK, PlacesOK, Places, CallPlaces,
       InsertPlaces, LengthPlaces, DeletePlaces, LoopBound
  <2>3. PointersSet'
    BY <1>2, Domains DEF GetOpts, TypeOK, PointersSet, IsSet
  <2>4. InsertedSet'
    BY <1>2, Domains DEF GetOpts, TypeOK, InsertedSet, IsSet, Element
  <2>5. NoWildPointers'
    BY <1>2, Domains DEF GetOpts, TypeOK, NoWildPointers
  <2> QED
    BY <2>1, <2>2, <2>3, <2>4, <2>5
<1>3. CASE Create
  <2>1. CASE i[MainT] <= n_threads
    <3>1. TypeOK'
      <4>1. pc' \in [Procs -> Places]
        BY <1>3, <2>1, Domains DEF Create, TypeOK, Places, CallPlaces
      <4>2. i' \in [Procs -> Nat \ {0}]
        BY <1>3, <2>1, Domains DEF Create, TypeOK
      <4> QED
        BY <1>3, <2>1, <4>1, <4>2, Domains, OptionsAssumption DEF Create, TypeOK, Running, SigFpe,
           NoOwner, MainT
    <3>2. PlacesOK'
      <4>1. i[MainT] \in Threads
        BY <2>1, Domains DEF TypeOK
      <4>2. pc'[MainT] = "create" /\ op' = op
        BY <1>3, <2>1, <4>1, Domains DEF Create, TypeOK
      <4>3. \A t \in Threads : i'[t] = i[t] /\ (pc'[t] = pc[t] \/ pc'[t] = "loop")
        BY <1>3, <2>1, <4>1, Domains DEF Create, TypeOK
      <4> QED
        BY <4>2, <4>3 DEF PlacesOK, Places, CallPlaces, InsertPlaces, LengthPlaces, DeletePlaces,
           LoopBound
    <3>3. PointersSet'
      BY <1>3, <2>1, Domains DEF Create, TypeOK, PointersSet, IsSet
    <3>4. InsertedSet'
      BY <1>3, <2>1, Domains DEF Create, TypeOK, InsertedSet, IsSet, Element
    <3>5. NoWildPointers'
      BY <1>3, <2>1, Domains DEF Create, TypeOK, NoWildPointers
    <3> QED
      BY <3>1, <3>2, <3>3, <3>4, <3>5
  <2>2. CASE ~(i[MainT] <= n_threads)
    <3>1. TypeOK'
      <4>1. pc' \in [Procs -> Places]
        BY <1>3, <2>2, Domains DEF Create, TypeOK, Places, CallPlaces
      <4>2. i' \in [Procs -> Nat \ {0}]
        BY <1>3, <2>2, Domains DEF Create, TypeOK
      <4> QED
        BY <1>3, <2>2, <4>1, <4>2, Domains, OptionsAssumption DEF Create, TypeOK, Running, SigFpe,
           NoOwner, MainT
    <3>2. PlacesOK'
      BY <1>3, <2>2, Domains, OptionsAssumption DEF Create, TypeOK, PlacesOK, Places, CallPlaces,
         InsertPlaces, LengthPlaces, DeletePlaces, LoopBound
    <3>3. PointersSet'
      BY <1>3, <2>2, Domains DEF Create, TypeOK, PointersSet, IsSet
    <3>4. InsertedSet'
      BY <1>3, <2>2, Domains DEF Create, TypeOK, InsertedSet, IsSet, Element
    <3>5. NoWildPointers'
      BY <1>3, <2>2, Domains DEF Create, TypeOK, NoWildPointers
    <3> QED
      BY <3>1, <3>2, <3>3, <3>4, <3>5
  <2> QED
    BY <2>1, <2>2
<1>4. CASE Join
  <2>1. CASE i[MainT] <= n_threads
    <3>1. TypeOK'
      <4>1. pc' \in [Procs -> Places]
        BY <1>4, <2>1, Domains DEF Join, TypeOK, Places, CallPlaces
      <4>2. i' \in [Procs -> Nat \ {0}]
        BY <1>4, <2>1, Domains DEF Join, TypeOK
      <4> QED
        BY <1>4, <2>1, <4>1, <4>2, Domains, OptionsAssumption DEF Join, TypeOK, Running, SigFpe,
           NoOwner, MainT
    <3>2. PlacesOK'
      BY <1>4, <2>1, Domains, OptionsAssumption DEF Join, TypeOK, PlacesOK, Places, CallPlaces,
         InsertPlaces, LengthPlaces, DeletePlaces, LoopBound
    <3>3. PointersSet'
      BY <1>4, <2>1, Domains DEF Join, TypeOK, PointersSet, IsSet
    <3>4. InsertedSet'
      BY <1>4, <2>1, Domains DEF Join, TypeOK, InsertedSet, IsSet, Element
    <3>5. NoWildPointers'
      BY <1>4, <2>1, Domains DEF Join, TypeOK, NoWildPointers
    <3> QED
      BY <3>1, <3>2, <3>3, <3>4, <3>5
  <2>2. CASE ~(i[MainT] <= n_threads)
    <3>1. TypeOK'
      <4>1. pc' \in [Procs -> Places]
        BY <1>4, <2>2, Domains DEF Join, TypeOK, Places, CallPlaces
      <4>2. i' \in [Procs -> Nat \ {0}]
        BY <1>4, <2>2, Domains DEF Join, TypeOK
      <4> QED
        BY <1>4, <2>2, <4>1, <4>2, Domains, OptionsAssumption DEF Join, TypeOK, Running, SigFpe,
           NoOwner, MainT
    <3>2. PlacesOK'
      BY <1>4, <2>2, Domains, OptionsAssumption DEF Join, TypeOK, PlacesOK, Places, CallPlaces,
         InsertPlaces, LengthPlaces, DeletePlaces, LoopBound
    <3>3. PointersSet'
      BY <1>4, <2>2, Domains DEF Join, TypeOK, PointersSet, IsSet
    <3>4. InsertedSet'
      BY <1>4, <2>2, Domains DEF Join, TypeOK, InsertedSet, IsSet, Element
    <3>5. NoWildPointers'
      BY <1>4, <2>2, Domains DEF Join, TypeOK, NoWildPointers
    <3> QED
      BY <3>1, <3>2, <3>3, <3>4, <3>5
  <2> QED
    BY <2>1, <2>2
<1>5. CASE CheckList
  <2>1. TypeOK'
    <3>1. pc' \in [Procs -> Places]
      BY <1>5, Domains DEF CheckList, TypeOK, Places, CallPlaces
    <3>2. i' \in [Procs -> Nat \ {0}]
      BY <1>5, Domains DEF CheckList, TypeOK
    <3> QED
      BY <1>5, <3>1, <3>2, Domains, OptionsAssumption DEF CheckList, TypeOK, Running, SigFpe,
         NoOwner, MainT
  <2>2. PlacesOK'
    BY <1>5, Domains, OptionsAssumption DEF CheckList, TypeOK, PlacesOK, Places, CallPlaces,
       InsertPlaces, LengthPlaces, DeletePlaces, LoopBound, Lists
  <2>3. PointersSet'
    BY <1>5, Domains DEF CheckList, TypeOK, PointersSet, IsSet
  <2>4. InsertedSet'
    BY <1>5, Domains DEF CheckList, TypeOK, InsertedSet, IsSet, Element
  <2>5. NoWildPointers'
    BY <1>5, Domains DEF CheckList, TypeOK, NoWildPointers
  <2> QED
    BY <2>1, <2>2, <2>3, <2>4, <2>5
<1>6. CASE ListChecked
  <2>1. CASE count[MainT] = 0
    <3>1. TypeOK'
      <4>1. pc' \in [Procs -> Places]
        BY <1>6, <2>1, Domains DEF ListChecked, TypeOK, Places, CallPlaces
      <4>2. i' \in [Procs -> Nat \ {0}]
        BY <1>6, <2>1, Domains DEF ListChecked, TypeOK
      <4> QED
        BY <1>6, <2>1, <4>1, <4>2, Domains, OptionsAssumption DEF ListChecked, TypeOK, Running,
           SigFpe, NoOwner, MainT
    <3>2. PlacesOK'
      BY <1>6, <2>1, Domains, OptionsAssumption DEF ListChecked, TypeOK, PlacesOK, Places,
         CallPlaces, InsertPlaces, LengthPlaces, DeletePlaces, LoopBound
    <3>3. PointersSet'
      BY <1>6, <2>1, Domains DEF ListChecked, TypeOK, PointersSet, IsSet
    <3>4. InsertedSet'
      BY <1>6, <2>1, Domains DEF ListChecked, TypeOK, InsertedSet, IsSet, Element
    <3>5. NoWildPointers'
      BY <1>6, <2>1, Domains DEF ListChecked, TypeOK, NoWildPointers
    <3> QED
      BY <3>1, <3>2, <3>3, <3>4, <3>5
  <2>2. CASE count[MainT] # 0
    <3>1. TypeOK'
      <4>1. pc' \in [Procs -> Places]
        BY <1>6, <2>2, Domains DEF ListChecked, TypeOK, Places, CallPlaces
      <4>2. i' \in [Procs -> Nat \ {0}]
        BY <1>6, <2>2, Domains DEF ListChecked, TypeOK
      <4> QED
        BY <1>6, <2>2, <4>1, <4>2, Domains, OptionsAssumption DEF ListChecked, TypeOK, Running,
           SigFpe, NoOwner, MainT
    <3>2. PlacesOK'
      BY <1>6, <2>2, Domains, OptionsAssumption DEF ListChecked, TypeOK, PlacesOK, Places,
         CallPlaces, InsertPlaces, LengthPlaces, DeletePlaces, LoopBound
    <3>3. PointersSet'
      BY <1>6, <2>2, Domains DEF ListChecked, TypeOK, PointersSet, IsSet
    <3>4. InsertedSet'
      BY <1>6, <2>2, Domains DEF ListChecked, TypeOK, InsertedSet, IsSet, Element
    <3>5. NoWildPointers'
      BY <1>6, <2>2, Domains DEF ListChecked, TypeOK, NoWildPointers
    <3> QED
      BY <3>1, <3>2, <3>3, <3>4, <3>5
  <2> QED
    BY <2>1, <2>2
<1>7. CASE Report
  <2>1. TypeOK'
    <3>1. pc' \in [Procs -> Places]
      BY <1>7, Domains DEF Report, TypeOK, Places, CallPlaces
    <3>2. i' \in [Procs -> Nat \ {0}]
      BY <1>7, Domains DEF Report, TypeOK
    <3> QED
      BY <1>7, <3>1, <3>2, Domains, OptionsAssumption DEF Report, TypeOK, Running, SigFpe,
         NoOwner, MainT
  <2>2. PlacesOK'
    BY <1>7, Domains, OptionsAssumption DEF Report, TypeOK, PlacesOK, Places, CallPlaces,
       InsertPlaces, LengthPlaces, DeletePlaces, LoopBound
  <2>3. PointersSet'
    BY <1>7, Domains DEF Report, TypeOK, PointersSet, IsSet
  <2>4. InsertedSet'
    BY <1>7, Domains DEF Report, TypeOK, InsertedSet, IsSet, Element
  <2>5. NoWildPointers'
    BY <1>7, Domains DEF Report, TypeOK, NoWildPointers
  <2> QED
    BY <2>1, <2>2, <2>3, <2>4, <2>5
<1>8. ASSUME NEW p \in Procs, sig_corrupt(p) PROVE WInv'
  <2>1. TypeOK'
    <3>1. pc' \in [Procs -> Places]
      BY <1>8, Domains DEF sig_corrupt, TypeOK, Places, CallPlaces
    <3>2. i' \in [Procs -> Nat \ {0}]
      BY <1>8, Domains DEF sig_corrupt, TypeOK
    <3> QED
      BY <1>8, <3>1, <3>2, Domains, OptionsAssumption DEF sig_corrupt, TypeOK, Running, SigFpe,
         NoOwner, MainT
  <2>2. PlacesOK'
    BY <1>8, Domains, OptionsAssumption DEF sig_corrupt, TypeOK, PlacesOK, Places, CallPlaces,
       InsertPlaces, LengthPlaces, DeletePlaces, LoopBound
  <2>3. PointersSet'
    BY <1>8, Domains DEF sig_corrupt, TypeOK, PointersSet, IsSet
  <2>4. InsertedSet'
    BY <1>8, Domains DEF sig_corrupt, TypeOK, InsertedSet, IsSet, Element
  <2>5. NoWildPointers'
    BY <1>8, Domains DEF sig_corrupt, TypeOK, NoWildPointers
  <2> QED
    BY <2>1, <2>2, <2>3, <2>4, <2>5
<1>9. ASSUME NEW t \in Threads, Loop(t) PROVE WInv'
  <2>1. CASE pc'[t] = "lock"
    <3>1. TypeOK'
      <4>1. pc' \in [Procs -> Places]
        BY <1>9, <2>1, Domains DEF Loop, TypeOK, Places, CallPlaces
      <4>2. i' \in [Procs -> Nat \ {0}]
        BY <1>9, <2>1, Domains DEF Loop, TypeOK
      <4> QED
        BY <1>9, <2>1, <4>1, <4>2, Domains, OptionsAssumption DEF Loop, TypeOK, Running, SigFpe,
           NoOwner, MainT
    <3>2. PlacesOK'
      BY <1>9, <2>1, Domains, OptionsAssumption DEF Loop, TypeOK, PlacesOK, Places, CallPlaces,
         InsertPlaces, LengthPlaces, DeletePlaces, LoopBound
    <3>3. PointersSet'
      BY <1>9, <2>1, Domains DEF Loop, TypeOK, PointersSet, IsSet
    <3>4. InsertedSet'
      BY <1>9, <2>1, Domains DEF Loop, TypeOK, InsertedSet, IsSet, Element
    <3>5. NoWildPointers'
      BY <1>9, <2>1, Domains DEF Loop, TypeOK, NoWildPointers
    <3> QED
      BY <3>1, <3>2, <3>3, <3>4, <3>5
  <2>2. CASE pc'[t] = "loop"
    <3>1. TypeOK'
      <4>1. pc' \in [Procs -> Places]
        BY <1>9, <2>2, Domains DEF Loop, TypeOK, Places, CallPlaces
      <4>2. i' \in [Procs -> Nat \ {0}]
        BY <1>9, <2>2, Domains DEF Loop, TypeOK
      <4> QED
        BY <1>9, <2>2, <4>1, <4>2, Domains, OptionsAssumption DEF Loop, TypeOK, Running, SigFpe,
           NoOwner, MainT
    <3>2. PlacesOK'
      BY <1>9, <2>2, Domains, OptionsAssumption DEF Loop, TypeOK, PlacesOK, Places, CallPlaces,
         InsertPlaces, LengthPlaces, DeletePlaces, LoopBound
    <3>3. PointersSet'
      BY <1>9, <2>2, Domains DEF Loop, TypeOK, PointersSet, IsSet
    <3>4. InsertedSet'
      <4>1. \A u \in Threads \ {t} : i'[u] = i[u] /\ pc'[u] = pc[u] /\ op'[u] = op[u]
        BY <1>9, <2>2, Domains DEF Loop, TypeOK
      <4>2. op[t] = "insert" => i[t] > n_iterations
        BY <1>9, <2>2, Domains DEF Loop, LoopBound, TypeOK
      <4>3. \A j \in 1..n_iterations : IsSet(<<t, j>>)
        BY <4>2, Domains, OptionsAssumption DEF InsertedSet, TypeOK
      <4>4. \A x : IsSet(x)' <=> IsSet(x)
        BY <1>9 DEF Loop, IsSet
      <4> QED
        BY <2>2, <4>1, <4>3, <4>4 DEF InsertedSet, Element
    <3>5. NoWildPointers'
      BY <1>9, <2>2, Domains DEF Loop, TypeOK, NoWildPointers
    <3> QED
      BY <3>1, <3>2, <3>3, <3>4, <3>5
  <2>3. CASE pc'[t] = "returned"
    <3>1. TypeOK'
      <4>1. pc' \in [Procs -> Places]
        BY <1>9, <2>3, Domains DEF Loop, TypeOK, Places, CallPlaces
      <4>2. i' \in [Procs -> Nat \ {0}]
        BY <1>9, <2>3, Domains DEF Loop, TypeOK
      <4> QED
        BY <1>9, <2>3, <4>1, <4>2, Domains, OptionsAssumption DEF Loop, TypeOK, Running, SigFpe,
           NoOwner, MainT
    <3>2. PlacesOK'
      BY <1>9, <2>3, Domains, OptionsAssumption DEF Loop, TypeOK, PlacesOK, Places, CallPlaces,
         InsertPlaces, LengthPlaces, DeletePlaces, LoopBound
    <3>3. PointersSet'
      BY <1>9, <2>3, Domains DEF Loop, TypeOK, PointersSet, IsSet
    <3>4. InsertedSet'
      BY <1>9, <2>3, Domains DEF Loop, TypeOK, InsertedSet, IsSet, Element
    <3>5. NoWildPointers'
      BY <1>9, <2>3, Domains DEF Loop, TypeOK, NoWildPointers
    <3> QED
      BY <3>1, <3>2, <3>3, <3>4, <3>5
  <2> QED
    BY <1>9, <2>1, <2>2, <2>3, Domains DEF Loop, TypeOK
<1>10. ASSUME NEW t \in Threads, NoLock(t) PROVE WInv'
  <2>1. TypeOK'
    <3>1. pc' \in [Procs -> Places]
      BY <1>10, Domains DEF NoLock, Acquired, Entry, TypeOK, Places, CallPlaces
    <3>2. i' \in [Procs -> Nat \ {0}]
      BY <1>10, Domains DEF NoLock, Acquired, Entry, TypeOK
    <3> QED
      BY <1>10, <3>1, <3>2, Domains, OptionsAssumption DEF NoLock, Acquired, TypeOK, Running,
         SigFpe, NoOwner, MainT
  <2>2. PlacesOK'
    BY <1>10, Domains, OptionsAssumption DEF NoLock, Acquired, Entry, TypeOK, PlacesOK, Places,
       CallPlaces, InsertPlaces, LengthPlaces, DeletePlaces, LoopBound
  <2>3. PointersSet'
    BY <1>10, Domains DEF NoLock, Acquired, Entry, TypeOK, PointersSet, IsSet
  <2>4. InsertedSet'
    BY <1>10, Domains DEF NoLock, Acquired, Entry, TypeOK, InsertedSet, IsSet, Element
  <2>5. NoWildPointers'
    BY <1>10, Domains DEF NoLock, Acquired, Entry, TypeOK, NoWildPointers
  <2> QED
    BY <2>1, <2>2, <2>3, <2>4, <2>5
<1>11. ASSUME NEW t \in Threads, MutexLock(t) PROVE WInv'
  <2>1. TypeOK'
    <3>1. pc' \in [Procs -> Places]
      BY <1>11, Domains DEF MutexLock, Acquired, Entry, TypeOK, Places, CallPlaces
    <3>2. i' \in [Procs -> Nat \ {0}]
      BY <1>11, Domains DEF MutexLock, Acquired, Entry, TypeOK
    <3>3. thrd_lock_wait' \in [Threads -> Nat]
      BY <1>11, Domains DEF MutexLock, Acquired, TypeOK
    <3>4. lock_arr_s' \in [Lists -> {0, 1}] /\ mutex_arr' \in [Lists -> Procs]
      BY <1>11, Domains DEF MutexLock, TypeOK
    <3> QED
      BY <1>11, <3>1, <3>2, <3>3, <3>4 DEF MutexLock, TypeOK
  <2>2. PlacesOK'
    BY <1>11, Domains, OptionsAssumption DEF MutexLock, Acquired, Entry, TypeOK, PlacesOK, Places,
       CallPlaces, InsertPlaces, LengthPlaces, DeletePlaces, LoopBound
  <2>3. PointersSet'
    BY <1>11, Domains DEF MutexLock, Acquired, Entry, TypeOK, PointersSet, IsSet
  <2>4. InsertedSet'
    BY <1>11, Domains DEF MutexLock, Acquired, Entry, TypeOK, InsertedSet, IsSet, Element
  <2>5. NoWildPointers'
    BY <1>11, Domains DEF MutexLock, Acquired, Entry, TypeOK, NoWildPointers
  <2> QED
    BY <2>1, <2>2, <2>3, <2>4, <2>5
<1>12. ASSUME NEW t \in Threads, TestAndSet(t) PROVE WInv'
  <2>1. CASE lock_arr_s[Sublist(t)] = 0
    <3>1. TypeOK'
      <4>1. pc' \in [Procs -> Places]
        BY <1>12, <2>1, Domains DEF TestAndSet, Acquired, Entry, TypeOK, Places, CallPlaces
      <4>2. i' \in [Procs -> Nat \ {0}]
        BY <1>12, <2>1, Domains DEF TestAndSet, Acquired, Entry, TypeOK
      <4>3. thrd_lock_wait' \in [Threads -> Nat]
        BY <1>12, <2>1, Domains DEF TestAndSet, Acquired, TypeOK
      <4>4. lock_arr_s' \in [Lists -> {0, 1}] /\ mutex_arr' \in [Lists -> Procs]
        BY <1>12, <2>1, Domains DEF TestAndSet, TypeOK
      <4> QED
        BY <1>12, <2>1, <4>1, <4>2, <4>3, <4>4 DEF TestAndSet, TypeOK
    <3>2. PlacesOK'
      BY <1>12, <2>1, Domains, OptionsAssumption DEF TestAndSet, Acquired, Entry, TypeOK,
         PlacesOK, Places, CallPlaces, InsertPlaces, LengthPlaces, DeletePlaces, LoopBound
    <3>3. PointersSet'
      BY <1>12, <2>1, Domains DEF TestAndSet, Acquired, Entry, TypeOK, PointersSet, IsSet
    <3>4. InsertedSet'
      BY <1>12, <2>1, Domains DEF TestAndSet, Acquired, Entry, TypeOK, InsertedSet, IsSet, Element
    <3>5. NoWildPointers'
      BY <1>12, <2>1, Domains DEF TestAndSet, Acquired, Entry, TypeOK, NoWildPointers
    <3> QED
      BY <3>1, <3>2, <3>3, <3>4, <3>5
  <2>2. CASE lock_arr_s[Sublist(t)] # 0
    <3>1. TypeOK'
      <4>1. pc' \in [Procs -> Places]
        BY <1>12, <2>2, Domains DEF TestAndSet, Acquired, Entry, TypeOK, Places, CallPlaces
      <4>2. i' \in [Procs -> Nat \ {0}]
        BY <1>12, <2>2, Domains DEF TestAndSet, Acquired, Entry, TypeOK
      <4>3. thrd_lock_wait' \in [Threads -> Nat]
        BY <1>12, <2>2, Domains DEF TestAndSet, Acquired, TypeOK
      <4>4. lock_arr_s' \in [Lists -> {0, 1}] /\ mutex_arr' \in [Lists -> Procs]
        BY <1>12, <2>2, Domains DEF TestAndSet, TypeOK
      <4> QED
        BY <1>12, <2>2, <4>1, <4>2, <4>3, <4>4 DEF TestAndSet, TypeOK
    <3>2. PlacesOK'
      BY <1>12, <2>2, Domains, OptionsAssumption DEF TestAndSet, Acquired, Entry, TypeOK,
         PlacesOK, Places, CallPlaces, InsertPlaces, LengthPlaces, DeletePlaces, LoopBound
    <3>3. PointersSet'
      BY <1>12, <2>2, Domains DEF TestAndSet, Acquired, Entry, TypeOK, PointersSet, IsSet
    <3>4. InsertedSet'
      BY <1>12, <2>2, Domains DEF TestAndSet, Acquired, Entry, TypeOK, InsertedSet, IsSet, Element
    <3>5. NoWildPointers'
      BY <1>12, <2>2, Domains DEF TestAndSet, Acquired, Entry, TypeOK, NoWildPointers
    <3> QED
      BY <3>1, <3>2, <3>3, <3>4, <3>5
  <2> QED
    BY <2>1, <2>2
<1>13. ASSUME NEW t \in Threads, Spin(t) PROVE WInv'
  <2>1. TypeOK'
    <3>1. pc' \in [Procs -> Places]
      BY <1>13, Domains DEF Spin, TypeOK, Places, CallPlaces
    <3>2. i' \in [Procs -> Nat \ {0}]
      BY <1>13, Domains DEF Spin, TypeOK
    <3> QED
      BY <1>13, <3>1, <3>2, Domains, OptionsAssumption DEF Spin, TypeOK, Running, SigFpe, NoOwner,
         MainT
  <2>2. PlacesOK'
    BY <1>13, Domains, OptionsAssumption DEF Spin, TypeOK, PlacesOK, Places, CallPlaces,
       InsertPlaces, LengthPlaces, DeletePlaces, LoopBound
  <2>3. PointersSet'
    BY <1>13, Domains DEF Spin, TypeOK, PointersSet, IsSet
  <2>4. InsertedSet'
    BY <1>13, Domains DEF Spin, TypeOK, InsertedSet, IsSet, Element
  <2>5. NoWildPointers'
    BY <1>13, Domains DEF Spin, TypeOK, NoWildPointers
  <2> QED
    BY <2>1, <2>2, <2>3, <2>4, <2>5
<1>14. ASSUME NEW t \in Threads, Unlock(t) PROVE WInv'
  <2>1. TypeOK'
    <3>1. pc' \in [Procs -> Places]
      BY <1>14, Domains DEF Unlock, TypeOK, Places, CallPlaces
    <3>2. i' \in [Procs -> Nat \ {0}]
      BY <1>14, Domains DEF Unlock, TypeOK
    <3> QED
      BY <1>14, <3>1, <3>2, Domains, OptionsAssumption DEF Unlock, TypeOK, Running, SigFpe,
         NoOwner, MainT
  <2>2. PlacesOK'
    BY <1>14, Domains, OptionsAssumption DEF Unlock, TypeOK, PlacesOK, Places, CallPlaces,
       InsertPlaces, LengthPlaces, DeletePlaces, LoopBound
  <2>3. PointersSet'
    BY <1>14, Domains DEF Unlock, TypeOK, PointersSet, IsSet
  <2>4. InsertedSet'
    <3>1. \A x : IsSet(x)' <=> IsSet(x)
      BY <1>14 DEF Unlock, IsSet
    <3>2. \A u \in Threads \ {t} : i'[u] = i[u] /\ pc'[u] = pc[u]
      BY <1>14, Domains DEF Unlock, TypeOK
    <3>3. i'[t] = i[t] + 1 /\ i[t] \in Nat /\ pc[t] = "return" /\ pc'[t] = "loop" /\ op' = op
      BY <1>14, Domains DEF Unlock, TypeOK
    <3>4. \A j \in 1..n_iterations : j < i[t] + 1 <=> j < i[t] \/ j = i[t]
      BY <3>3
    <3>5. \A j \in 1..n_iterations : op'[t] # "insert" \/ j < i'[t] => IsSet(<<t, j>>)
      BY <3>3, <3>4 DEF InsertedSet, Element
    <3> QED
      BY <3>1, <3>2, <3>3, <3>5 DEF InsertedSet, Element
  <2>5. NoWildPointers'
    BY <1>14, Domains DEF Unlock, TypeOK, NoWildPointers
  <2> QED
    BY <2>1, <2>2, <2>3, <2>4, <2>5
<1>15. CASE UNCHANGED vars
  <2>1. TypeOK'
    <3>1. pc' \in [Procs -> Places]
      BY <1>15, Domains DEF vars, TypeOK, Places, CallPlaces
    <3>2. i' \in [Procs -> Nat \ {0}]
      BY <1>15, Domains DEF vars, TypeOK
    <3> QED
      BY <1>15, <3>1, <3>2, Domains, OptionsAssumption DEF vars, TypeOK, Running, SigFpe, NoOwner,
         MainT
  <2>2. PlacesOK'
    BY <1>15, Domains, OptionsAssumption DEF vars, TypeOK, PlacesOK, Places, CallPlaces,
       InsertPlaces, LengthPlaces, DeletePlaces, LoopBound
  <2>3. PointersSet'
    BY <1>15, Domains DEF vars, TypeOK, PointersSet, IsSet
  <2>4. InsertedSet'
    BY <1>15, Domains DEF vars, TypeOK, InsertedSet, IsSet, Element
  <2>5. NoWildPointers'
    BY <1>15, Domains DEF vars, TypeOK, NoWildPointers
  <2> QED
    BY <2>1, <2>2, <2>3, <2>4, <2>5
<1> QED
  BY <1>1, <1>2, <1>3, <1>4, <1>5, <1>6, <1>7, <1>8, <1>9, <1>10, <1>11, <1>12, <1>13, <1>14, <1>15,
     CallKeepsWInv, Domains
     DEF Next, Main, Worker, Ended

\* Every run keeps WInv.
LEMMA WInvHolds == Spec => []WInv
<1>1. Init => WInv
  <2> SUFFICES ASSUME Init PROVE WInv
    OBVIOUS
  <2>1. \A x \in Heads : next[x] = x /\ prev[x] = x
    BY Domains DEF Init
  <2>2. \A x \in Nodes \ Heads : next[x] = Null /\ prev[x] = Null
    BY Domains DEF Init
  <2>3. TypeOK
    BY Domains, OptionsAssumption, KeysAssumption
       DEF Init, TypeOK, Places, CallPlaces, Running, SigFpe, NoOwner, MainT
  <2>4. PlacesOK
    BY Domains, OptionsAssumption
       DEF Init, PlacesOK, CallPlaces, InsertPlaces, LengthPlaces, DeletePlaces
  <2>5. PointersSet
    BY <2>1, <2>2, Domains DEF Init, PointersSet, IsSet
  <2>6. InsertedSet
    BY Domains DEF Init, InsertedSet
  <2>7. NoWildPointers
    BY Domains DEF Init, NoWildPointers
  <2> QED
    BY <2>3, <2>4, <2>5, <2>6, <2>7 DEF WInv
<1> QED
  BY <1>1, NextKeepsWInv, PTL DEF Spec

\* The type invariant of lab2_list, for every value of the options.
THEOREM TypeCorrect == Spec => []TypeOK
  BY WInvHolds, PTL DEF WInv

\* No thread of lab2_list follows a pointer that was never set, in any mode of
\* synchronisation: segfault_handler() has nothing to catch.
THEOREM NoWildPointersHolds == Spec => []NoWildPointers
  BY WInvHolds, PTL DEF WInv

-----------------------------------------------------------------------------
HoldsLock(t) ==
  IF sync_type = "m" THEN mutex_arr[Sublist(t)] = t ELSE lock_arr_s[Sublist(t)] = 1

LockInv ==
  /\ pc[MainT] = "opts" => \A t \in Threads : pc[t] = "none"
  /\ sync_type # "n" => \A t \in Threads : InCall(t) => HoldsLock(t)
  /\ MutualExclusion

\* A step that takes and gives back no lock keeps the lock invariant.
LEMMA QuietStep ==
  ASSUME LockInv, sync_type' = sync_type, locks' = locks,
         \A t \in Threads : InCall(t)' => InCall(t) /\ Sublist(t)' = Sublist(t),
         pc'[MainT] # "opts" \/ pc' = pc
  PROVE  LockInv'
  BY DEF LockInv, HoldsLock, MutualExclusion, locks

\* Every step keeps the locks and the workers inside in agreement.
LEMMA NextKeepsLockInv == WInv /\ LockInv /\ [Next]_vars => LockInv'
<1> SUFFICES ASSUME WInv, LockInv, [Next]_vars PROVE LockInv'
  OBVIOUS
<1> USE DEF links, locks, frame, stats, At, Moves, vars
<1>1. \A t \in Threads : op'[t] = op[t] /\ i'[t] = i[t] /\ key' = key => Sublist(t)' = Sublist(t)
  BY DEF Sublist, Element
<1>2. ASSUME Fail \/ Report \/ (\E p \in Procs : sig_corrupt(p)) \/ UNCHANGED vars PROVE LockInv'
  <2>1. sync_type' = sync_type /\ locks' = locks /\ pc' = pc /\ op' = op /\ i' = i /\ key' = key
    BY <1>2 DEF Fail, Report, sig_corrupt
  <2> QED
    BY <1>1, <2>1, QuietStep DEF InCall
<1>3. CASE GetOpts
  <2>1. \A t \in Threads : pc'[t] = "none"
    BY <1>3, Domains DEF GetOpts, LockInv, WInv, TypeOK
  <2>2. pc'[MainT] = "create"
    BY <1>3, Domains DEF GetOpts, WInv, TypeOK
  <2> QED
    BY <2>1, <2>2 DEF LockInv, MutualExclusion, InCall, CallPlaces
<1>4. CASE Create \/ Join \/ CheckList \/ ListChecked
  <2>1. \A t \in Threads : InCall(t)' => InCall(t)
    BY <1>4, Domains DEF Create, Join, CheckList, ListChecked, InCall, CallPlaces, WInv, TypeOK
  <2>2. \A t \in Threads : i'[t] = i[t] /\ op'[t] = op[t] /\ key' = key
    BY <1>4, Domains DEF Create, Join, CheckList, ListChecked, WInv, TypeOK
  <2>3. pc'[MainT] # "opts"
    <3>1. CASE Create
      <4>1. i[MainT] <= n_threads => i[MainT] \in Threads
        BY Domains DEF WInv, TypeOK
      <4> QED
        BY <3>1, <4>1, Domains DEF Create, WInv, TypeOK
    <3> QED
      BY <1>4, <3>1, Domains DEF Join, CheckList, ListChecked, WInv, TypeOK
  <2>4. sync_type' = sync_type /\ locks' = locks
    BY <1>4 DEF Create, Join, CheckList, ListChecked
  <2> QED
    BY <1>1, <2>1, <2>2, <2>3, <2>4, QuietStep
<1>5. ASSUME NEW t \in Threads, Loop(t) \/ Spin(t) PROVE LockInv'
  <2>1. \A u \in Threads : InCall(u)' => /\ InCall(u)
                                         /\ i'[u] = i[u] /\ op'[u] = op[u] /\ key' = key
    BY <1>5, Domains DEF Loop, Spin, InCall, CallPlaces, WInv, TypeOK
  <2>2. pc'[MainT] = pc[MainT] /\ sync_type' = sync_type /\ locks' = locks /\ pc[MainT] # "opts"
    BY <1>5, Domains DEF Loop, Spin, WInv, TypeOK, LockInv
  <2> QED
    BY <1>1, <2>1, <2>2, QuietStep
<1>6. ASSUME NEW p \in Procs, ListCall(p) PROVE LockInv'
  <2>1. sync_type' = sync_type /\ locks' = locks /\ i' = i /\ op' = op /\ key' = key
    BY <1>6 DEF ListCall
  <2>2. /\ pc[p] \in CallPlaces /\ pc'[p] \in CallPlaces
        /\ \A q \in Procs \ {p} : pc'[q] = pc[q]
    BY <1>6 DEF ListCall, WInv, TypeOK, CallPlaces, SortedList_length, SortedList_insert,
                SortedList_lookup, SortedList_delete, InsertWalk, InsertSelf, LoadA, LoadB,
                StoreNext, StorePrev, Check, Advance
  <2>3. pc'[MainT] # "opts"
    BY <2>2, Domains DEF CallPlaces, LockInv
  <2>4. \A t \in Threads : InCall(t)' => InCall(t)
    BY <2>2, Domains DEF InCall
  <2> QED
    BY <1>1, <2>1, <2>3, <2>4, QuietStep
<1>7. ASSUME NEW t \in Threads, NoLock(t) PROVE LockInv'
  <2>1. sync_type' = "n" /\ pc'[MainT] = pc[MainT] /\ pc[MainT] # "opts"
    BY <1>7, Domains DEF NoLock, Acquired, LockInv, WInv, TypeOK
  <2> QED
    BY <2>1 DEF LockInv, MutualExclusion
<1>8. ASSUME NEW t \in Threads, MutexLock(t) \/ TestAndSet(t) PROVE LockInv'
  <2>1. sync_type' = sync_type /\ pc'[MainT] = pc[MainT] /\ pc[MainT] # "opts" /\ sync_type # "n"
    BY <1>8, Domains DEF MutexLock, TestAndSet, Acquired, LockInv, WInv, TypeOK
  <2>2. \A u \in Threads : Sublist(u)' = Sublist(u)
    BY <1>1, <1>8 DEF MutexLock, TestAndSet
  <2>3. \A u \in Threads \ {t} : InCall(u)' <=> InCall(u)
    <3>1. pc \in [Procs -> Places] /\ t \in Procs
      BY Domains DEF WInv, TypeOK
    <3>2. \E l : pc' = [pc EXCEPT ![t] = l]
      BY <1>8 DEF MutexLock, TestAndSet, Acquired, Moves
    <3> QED
      BY <3>1, <3>2, Domains DEF InCall
  <2>4. Sublist(t) \in Lists
    BY <1>8, Arguments DEF WInv, MutexLock, TestAndSet
  <2>5. \A u \in Threads : InCall(u) => Sublist(u) \in Lists
    BY Arguments DEF WInv, InCall
  <2>6. CASE MutexLock(t)
    <3>1. \A u \in Threads : InCall(u) => Sublist(u) # Sublist(t)
      BY <2>6, Domains DEF MutexLock, LockInv, HoldsLock, NoOwner, MainT
    <3>2. \A u \in Threads \ {t} : InCall(u) => HoldsLock(u)'
      BY <2>1, <2>2, <2>6, <3>1 DEF MutexLock, LockInv, HoldsLock, WInv, TypeOK
    <3>3. HoldsLock(t)'
      BY <2>1, <2>2, <2>4, <2>6 DEF MutexLock, HoldsLock, WInv, TypeOK
    <3> QED
      BY <2>1, <2>2, <2>3, <3>1, <3>2, <3>3 DEF LockInv, MutualExclusion
  <2>7. CASE TestAndSet(t) /\ lock_arr_s[Sublist(t)] = 0
    <3>1. \A u \in Threads : InCall(u) => Sublist(u) # Sublist(t)
      BY <2>7 DEF TestAndSet, LockInv, HoldsLock
    <3>2. \A u \in Threads \ {t} : InCall(u) => HoldsLock(u)'
      BY <2>1, <2>2, <2>7, <3>1 DEF TestAndSet, LockInv, HoldsLock, WInv, TypeOK
    <3>3. HoldsLock(t)'
      BY <2>1, <2>2, <2>4, <2>7 DEF TestAndSet, HoldsLock, WInv, TypeOK
    <3> QED
      BY <2>1, <2>2, <2>3, <3>1, <3>2, <3>3 DEF LockInv, MutualExclusion
  <2>8. CASE TestAndSet(t) /\ lock_arr_s[Sublist(t)] # 0
    <3>1. ~InCall(t)'
      BY <2>8, Domains DEF TestAndSet, InCall, CallPlaces, WInv, TypeOK
    <3>2. \A u \in Threads : InCall(u) => HoldsLock(u)'
      BY <2>1, <2>2, <2>5, <2>8 DEF TestAndSet, LockInv, HoldsLock, WInv, TypeOK
    <3> QED
      BY <2>1, <2>2, <2>3, <3>1, <3>2 DEF LockInv, MutualExclusion
  <2> QED
    BY <1>8, <2>6, <2>7, <2>8
<1>9. ASSUME NEW t \in Threads, Unlock(t) PROVE LockInv'
  <2>1. sync_type' = sync_type /\ pc'[MainT] = pc[MainT] /\ pc[MainT] # "opts"
    BY <1>9, Domains DEF Unlock, LockInv, WInv, TypeOK
  <2>2. ~InCall(t)' /\ InCall(t)
    BY <1>9, Domains DEF Unlock, InCall, CallPlaces, WInv, TypeOK
  <2>3. \A u \in Threads \ {t} : (InCall(u)' <=> InCall(u)) /\ Sublist(u)' = Sublist(u)
    BY <1>1, <1>9, Domains DEF Unlock, InCall, WInv, TypeOK
  <2>4. ASSUME sync_type # "n", NEW u \in Threads \ {t}, InCall(u) PROVE HoldsLock(u)'
    <3>1. Sublist(u) # Sublist(t)
      BY <2>2, <2>4 DEF LockInv, MutualExclusion
    <3> QED
      BY <1>9, <2>1, <2>3, <2>4, <3>1 DEF Unlock, LockInv, HoldsLock, WInv, TypeOK
  <2> QED
    BY <2>1, <2>2, <2>3, <2>4 DEF LockInv, MutualExclusion
<1> QED
  BY <1>2, <1>3, <1>4, <1>5, <1>6, <1>7, <1>8, <1>9, Domains DEF Next, Main, Worker, Ended

\* The locks, in every reachable state.
LEMMA LockInvHolds == Spec => []LockInv
<1>1. Init => LockInv
  BY Domains DEF Init, LockInv, MutualExclusion
<1> QED
  BY <1>1, WInvHolds, NextKeepsLockInv, PTL DEF Spec

\* With --sync=m or s two threads are never inside the operations of one
\* sublist at the same time, for any number of threads and sublists.
THEOREM MutexHolds == Spec => []MutualExclusion
  BY LockInvHolds, PTL DEF LockInv

-----------------------------------------------------------------------------
\* Chains: nd[1], ..., nd[n] are the elements of a circular list with the head h, in
\* the order of the links nx.  The links pv lead back, but past an element of H,
\* which has been linked in, or is about to be unlinked, in one direction only.
IsChain(h, n, nd, M, nx, pv, H, ky) ==
  /\ n \in Nat /\ nd[0] = h /\ nd[n + 1] = h
  /\ \A k \in 1..n : nd[k] \in M
  /\ \A x \in M : \E k \in 1..n : nd[k] = x
  /\ \A j, k \in 1..n : nd[j] = nd[k] => j = k
  /\ \A k \in 0..n : nx[nd[k]] = nd[k + 1]
  /\ \A k \in 1..(n + 1) : pv[nd[k]] = IF k > 1 /\ nd[k - 1] \in H THEN nd[k - 2] ELSE nd[k - 1]
  /\ \A j, k \in 1..n : j <= k => ky[nd[j]] >= ky[nd[k]]

\* A chain is a matter of the links of its own nodes only.
LEMMA ChainSame ==
  ASSUME NEW h, NEW n, NEW nd, NEW M, NEW nx, NEW pv, NEW H, NEW ky, NEW nx2, NEW pv2, NEW H2,
         IsChain(h, n, nd, M, nx, pv, H, ky),
         \A x \in M \cup {h} : nx2[x] = nx[x] /\ pv2[x] = pv[x],
         \A x \in M : x \in H2 <=> x \in H
  PROVE  IsChain(h, n, nd, M, nx2, pv2, H2, ky)
<1>1. n \in Nat /\ nd[0] = h /\ nd[n + 1] = h /\ \A k \in 1..n : nd[k] \in M
  BY DEF IsChain
<1>2. \A k \in 0..(n + 1) : nd[k] \in M \cup {h} /\ nx2[nd[k]] = nx[nd[k]] /\ pv2[nd[k]] = pv[nd[k]]
  BY <1>1
<1>3. \A k \in 0..n : nx2[nd[k]] = nd[k + 1]
  BY <1>1, <1>2 DEF IsChain
<1>4. ASSUME NEW k \in 1..(n + 1)
      PROVE  pv2[nd[k]] = IF k > 1 /\ nd[k - 1] \in H2 THEN nd[k - 2] ELSE nd[k - 1]
  <2>1. pv2[nd[k]] = IF k > 1 /\ nd[k - 1] \in H THEN nd[k - 2] ELSE nd[k - 1]
    BY <1>1, <1>2 DEF IsChain
  <2>2. k > 1 => nd[k - 1] \in M
    <3>1. k > 1 => k - 1 \in 1..n
      BY <1>1
    <3> QED
      BY <1>1, <3>1
  <2> QED
    BY <2>1, <2>2
<1> QED
  BY <1>1, <1>3, <1>4 DEF IsChain

\* Different places of a chain are different nodes, but for its two ends.
LEMMA ChainNodes ==
  ASSUME NEW h, NEW n, NEW nd, NEW M, NEW nx, NEW pv, NEW H, NEW ky, h \notin M,
         IsChain(h, n, nd, M, nx, pv, H, ky)
  PROVE  /\ \A j, k \in 0..n : nd[j] = nd[k] => j = k
         /\ \A j, k \in 1..(n + 1) : nd[j] = nd[k] => j = k
<1>1. n \in Nat /\ nd[0] = h /\ nd[n + 1] = h /\ \A k \in 1..n : nd[k] \in M /\ nd[k] # h
  BY DEF IsChain
<1>2. \A k \in 0..n : k = 0 \/ k \in 1..n
  BY <1>1
<1>3. \A k \in 1..(n + 1) : k = n + 1 \/ k \in 1..n
  BY <1>1
<1>4. \A j, k \in 1..n : nd[j] = nd[k] => j = k
  BY DEF IsChain
<1> QED
  BY <1>1, <1>2, <1>3, <1>4

\* Element e, whose own links are set, is linked in at place k of the chain: the link
\* forth of the node before it is changed.
Splices(k, e, h, n, nd, M, nx, pv, ky, nx2, M2, H, H2) ==
  /\ M2 = M \cup {e} /\ H = {} /\ H2 = {e}
  /\ k \in 1..(n + 1) /\ h \notin M /\ e \notin M /\ e # h
  /\ nx[e] = nd[k] /\ pv[e] = nd[k - 1] /\ nx2[nd[k - 1]] = e
  /\ \A x \in M \cup {h, e} : x # nd[k - 1] => nx2[x] = nx[x]
  /\ \A x \in M \cup {e} : ky[x] \in Int
  /\ \A j \in 1..(k - 1) : ky[nd[j]] >= ky[e]
  /\ k = n + 1 \/ ky[nd[k]] < ky[e]

\* That makes it a chain with one element more.
LEMMA ChainInsert ==
  ASSUME NEW h, NEW n, NEW nd, NEW M, NEW nx, NEW pv, NEW ky, NEW nx2, NEW e, NEW k,
         NEW M2, NEW H, NEW H2, IsChain(h, n, nd, M, nx, pv, H, ky),
         Splices(k, e, h, n, nd, M, nx, pv, ky, nx2, M2, H, H2)
  PROVE  \E nd2 : /\ IsChain(h, n + 1, nd2, M2, nx2, pv, H2, ky)
                  /\ nd2[k] = e /\ nd2[k + 1] = nd[k]
<1>20. /\ k \in 1..(n + 1) /\ h \notin M /\ e \notin M /\ e # h
       /\ nx[e] = nd[k] /\ pv[e] = nd[k - 1] /\ nx2[nd[k - 1]] = e
       /\ \A x \in M \cup {h, e} : x # nd[k - 1] => nx2[x] = nx[x]
       /\ \A x \in M \cup {e} : ky[x] \in Int
       /\ \A j \in 1..(k - 1) : ky[nd[j]] >= ky[e]
       /\ k = n + 1 \/ ky[nd[k]] < ky[e]
  BY DEF Splices
<1>21. M \cap H = {} /\ M \cap H2 = {} /\ e \in H2 /\ M2 = M \cup {e}
  BY <1>20 DEF Splices
<1> USE <1>20, <1>21
<1> DEFINE nd2 == [j \in 0..(n + 2) |-> IF j < k THEN nd[j] ELSE IF j = k THEN e ELSE nd[j - 1]]
<1>1. n \in Nat /\ nd[0] = h /\ nd[n + 1] = h /\ (\A j \in 1..n : nd[j] \in M) /\ k \in Nat
  BY DEF IsChain
<1>2. /\ \A j \in 0..(k - 1) : nd2[j] = nd[j]
      /\ nd2[k] = e
      /\ \A j \in (k + 1)..(n + 2) : nd2[j] = nd[j - 1]
  BY <1>1
<1> HIDE DEF nd2
<1>3. nd2[0] = h /\ nd2[n + 2] = h
  <2>1. 0 \in 0..(k - 1) /\ n + 2 \in (k + 1)..(n + 2) /\ (n + 2) - 1 = n + 1
    BY <1>1
  <2> QED
    BY <1>1, <1>2, <2>1
<1>4. \A j \in 1..(n + 1) : \/ j \in 1..(k - 1) /\ j \in 1..n /\ nd2[j] = nd[j]
                            \/ j = k /\ nd2[j] = e
                            \/ j \in (k + 1)..(n + 1) /\ j - 1 \in k..n /\ j - 1 \in 1..n
                               /\ nd2[j] = nd[j - 1]
  <2> SUFFICES ASSUME NEW j \in 1..(n + 1)
               PROVE  \/ j \in 1..(k - 1) /\ j \in 1..n /\ nd2[j] = nd[j]
                      \/ j = k /\ nd2[j] = e
                      \/ j \in (k + 1)..(n + 1) /\ j - 1 \in k..n /\ j - 1 \in 1..n
                         /\ nd2[j] = nd[j - 1]
    OBVIOUS
  <2>1. CASE j < k
    <3>1. j \in 1..(k - 1) /\ j \in 1..n /\ j \in 0..(k - 1)
      BY <1>1, <2>1
    <3> QED
      BY <1>2, <3>1
  <2>2. CASE j = k
    BY <1>2, <2>2
  <2>3. CASE j > k
    <3>1. j \in (k + 1)..(n + 1) /\ j - 1 \in k..n /\ j - 1 \in 1..n /\ j \in (k + 1)..(n + 2)
      BY <1>1, <2>3
    <3> QED
      BY <1>2, <3>1
  <2> QED
    BY <1>1, <2>1, <2>2, <2>3
<1>5. \A j \in 1..(n + 1) : nd2[j] \in M \cup {e}
  BY <1>1, <1>4
<1>6. ASSUME NEW x \in M \cup {e} PROVE \E j \in 1..(n + 1) : nd2[j] = x
  <2>1. CASE x = e
    BY <1>2, <2>1
  <2>2. CASE x # e
    <3>1. PICK j \in 1..n : nd[j] = x
      BY <2>2 DEF IsChain
    <3>2. CASE j < k
      <4>1. j \in 0..(k - 1) /\ j \in 1..(n + 1)
        BY <1>1, <3>2
      <4> QED
        BY <1>2, <3>1, <4>1
    <3>3. CASE j >= k
      <4>1. j + 1 \in (k + 1)..(n + 2) /\ j + 1 \in 1..(n + 1) /\ (j + 1) - 1 = j
        BY <1>1, <3>3
      <4> QED
        BY <1>2, <3>1, <4>1
    <3> QED
      BY <1>1, <3>2, <3>3
  <2> QED
    BY <2>1, <2>2
<1>7. \A a, b \in 1..(n + 1) : nd2[a] = nd2[b] => a = b
  <2>1. \A a, b \in 1..n : nd[a] = nd[b] => a = b
    BY DEF IsChain
  <2>2. \A a \in 1..n : nd[a] # e
    BY <1>1
  <2> SUFFICES ASSUME NEW a \in 1..(n + 1), NEW b \in 1..(n + 1), nd2[a] = nd2[b] PROVE a = b
    OBVIOUS
  <2>3. CASE a = k \/ b = k
    BY <1>1, <1>4, <2>2, <2>3
  <2>4. CASE a < k /\ b < k
    BY <1>1, <1>4, <2>1, <2>4
  <2>5. CASE a < k /\ b > k
    BY <1>1, <1>4, <2>1, <2>5
  <2>6. CASE a > k /\ b < k
    BY <1>1, <1>4, <2>1, <2>6
  <2>7. CASE a > k /\ b > k
    BY <1>1, <1>4, <2>1, <2>7
  <2> QED
    BY <1>1, <2>3, <2>4, <2>5, <2>6, <2>7
<1>8. ASSUME NEW j \in 0..(n + 1) PROVE nx2[nd2[j]] = nd2[j + 1]
  <2>1. \A a, b \in 0..n : nd[a] = nd[b] => a = b
    BY ChainNodes
  <2>2. \A a \in 0..n : nd[a] \in M \cup {h, e} /\ nx[nd[a]] = nd[a + 1]
    BY <1>1 DEF IsChain
  <2>3. k - 1 \in 0..n
    BY <1>1
  <2>4. CASE j < k - 1
    <3>1. j \in 0..n /\ j \in 0..(k - 1) /\ j + 1 \in 0..(k - 1) /\ j # k - 1
      BY <1>1, <2>4
    <3>2. nd[j] # nd[k - 1]
      BY <2>1, <2>3, <3>1
    <3> QED
      BY <1>2, <2>2, <3>1, <3>2
  <2>5. CASE j = k - 1
    <3>1. j \in 0..(k - 1) /\ j + 1 = k
      BY <1>1, <2>5
    <3> QED
      BY <1>2, <2>5, <3>1
  <2>6. CASE j = k
    <3>1. e # nd[k - 1]
      BY <1>1, <2>3
    <3>2. nx2[e] = nd[k]
      BY <3>1
    <3>3. k + 1 \in (k + 1)..(n + 2) /\ (k + 1) - 1 = k
      BY <1>1
    <3>4. nd2[k + 1] = nd[k]
      BY <1>2, <3>3
    <3> QED
      BY <1>2, <2>6, <3>2, <3>4
  <2>7. CASE j > k
    <3>1. /\ j - 1 \in 0..n /\ j \in (k + 1)..(n + 2) /\ j + 1 \in (k + 1)..(n + 2)
          /\ (j + 1) - 1 = j /\ (j - 1) + 1 = j /\ j - 1 # k - 1
      BY <1>1, <2>7
    <3>2. nd[j - 1] # nd[k - 1]
      BY <2>1, <2>3, <3>1
    <3>3. nx2[nd[j - 1]] = nd[j]
      BY <2>2, <3>1, <3>2
    <3> QED
      BY <1>2, <3>1, <3>3
  <2> QED
    BY <1>1, <2>4, <2>5, <2>6, <2>7
<1>9. ASSUME NEW j \in 1..(n + 2)
      PROVE  pv[nd2[j]] = IF j > 1 /\ nd2[j - 1] \in H2 THEN nd2[j - 2] ELSE nd2[j - 1]
  <2>1. ASSUME NEW a \in 1..(n + 1) PROVE pv[nd[a]] = nd[a - 1]
    <3>1. pv[nd[a]] = IF a > 1 /\ nd[a - 1] \in H THEN nd[a - 2] ELSE nd[a - 1]
      BY DEF IsChain
    <3>2. a > 1 => a - 1 \in 1..n
      BY <1>1
    <3>3. a > 1 => nd[a - 1] \in M
      BY <1>1, <3>2
    <3> QED
      BY <3>1, <3>3
  <2>2. CASE j < k
    <3>1. j \in 1..(n + 1) /\ j \in 0..(k - 1) /\ j - 1 \in 0..(k - 1) /\ (j > 1 => j - 1 \in 1..n)
      BY <1>1, <2>2
    <3>2. nd2[j] = nd[j] /\ nd2[j - 1] = nd[j - 1]
      BY <1>2, <3>1
    <3>3. j > 1 => nd2[j - 1] \notin H2
      BY <1>1, <3>1, <3>2
    <3> QED
      BY <2>1, <3>1, <3>2, <3>3
  <2>3. CASE j = k
    <3>1. k - 1 \in 0..(k - 1) /\ (k > 1 => k - 1 \in 1..n)
      BY <1>1
    <3>2. nd2[k - 1] = nd[k - 1]
      BY <1>2, <3>1
    <3>3. k > 1 => nd2[k - 1] \notin H2
      BY <1>1, <3>1, <3>2
    <3> QED
      BY <1>2, <2>3, <3>2, <3>3
  <2>4. CASE j = k + 1
    <3>1. /\ k + 1 \in (k + 1)..(n + 2) /\ (k + 1) - 1 = k /\ k \in 1..(n + 1) /\ k + 1 > 1
          /\ (k + 1) - 2 = k - 1 /\ k - 1 \in 0..(k - 1)
      BY <1>1
    <3>2. nd2[k + 1] = nd[k] /\ nd2[k] \in H2 /\ nd2[k - 1] = nd[k - 1]
      BY <1>2, <3>1
    <3>3. pv[nd[k]] = nd[k - 1]
      BY <2>1
    <3> QED
      BY <2>4, <3>1, <3>2, <3>3
  <2>5. CASE j > k + 1
    <3>1. /\ j \in (k + 1)..(n + 2) /\ j - 1 \in (k + 1)..(n + 2) /\ (j - 1) - 1 = j - 2
          /\ j - 1 \in 1..(n + 1) /\ j - 2 \in 1..n
      BY <1>1, <2>5
    <3>2. nd2[j] = nd[j - 1] /\ nd2[j - 1] = nd[j - 2]
      BY <1>2, <3>1
    <3>3. pv[nd[j - 1]] = nd[j - 2]
      BY <2>1, <3>1
    <3>4. nd2[j - 1] \notin H2
      BY <1>1, <3>1, <3>2
    <3> QED
      BY <3>2, <3>3, <3>4
  <2> QED
    BY <1>1, <2>2, <2>3, <2>4, <2>5
<1>10. ASSUME NEW a \in 1..(n + 1), NEW b \in 1..(n + 1), a <= b PROVE ky[nd2[a]] >= ky[nd2[b]]
  <2>1. \A x, y \in 1..n : x <= y => ky[nd[x]] >= ky[nd[y]]
    BY DEF IsChain
  <2>2. \A x \in 1..n : ky[nd[x]] \in Int
    BY <1>1
  <2>3. ky[e] \in Int
    OBVIOUS
  <2>4. \A x \in k..n : x \in 1..n /\ k \in 1..n /\ ky[nd[x]] <= ky[e]
    <3> SUFFICES ASSUME NEW x \in k..n PROVE x \in 1..n /\ k \in 1..n /\ ky[nd[x]] <= ky[e]
      OBVIOUS
    <3>1. x \in 1..n /\ k \in 1..n /\ k <= x /\ k # n + 1
      BY <1>1
    <3>2. ky[nd[k]] >= ky[nd[x]] /\ ky[nd[k]] < ky[e]
      BY <2>1, <3>1
    <3> QED
      BY <2>2, <2>3, <3>1, <3>2
  <2>5. a \in Int /\ b \in Int /\ k \in Int /\ a <= b
    BY <1>1, <1>10
  <2>6. CASE a < k /\ b < k
    <3>1. nd2[a] = nd[a] /\ nd2[b] = nd[b] /\ a \in 1..n /\ b \in 1..n
      BY <1>1, <1>4, <2>5, <2>6
    <3> QED
      BY <2>1, <2>5, <3>1
  <2>7. CASE a < k /\ b = k
    <3>1. a \in 1..(k - 1) /\ a \in 0..(k - 1)
      BY <2>5, <2>7
    <3> QED
      BY <1>2, <2>7, <3>1
  <2>8. CASE a < k /\ b > k
    <3>1. a \in 1..n /\ nd2[a] = nd[a] /\ b - 1 \in 1..n /\ nd2[b] = nd[b - 1]
      BY <1>1, <1>4, <2>5, <2>8
    <3>2. a <= b - 1
      BY <2>5, <2>8
    <3> QED
      BY <2>1, <3>1, <3>2
  <2>9. CASE a = k /\ b = k
    BY <1>2, <2>3, <2>9
  <2>10. CASE a = k /\ b > k
    <3>1. b - 1 \in k..n /\ nd2[b] = nd[b - 1] /\ b - 1 \in 1..n
      BY <1>1, <1>4, <2>5, <2>10
    <3>2. ky[nd[b - 1]] <= ky[e] /\ ky[nd[b - 1]] \in Int
      BY <2>2, <2>4, <3>1
    <3> QED
      BY <1>2, <2>3, <2>10, <3>1, <3>2
  <2>11. CASE a > k
    <3>1. b > k /\ a - 1 <= b - 1
      BY <2>5, <2>11
    <3>2. /\ a - 1 \in 1..n /\ nd2[a] = nd[a - 1] /\ b - 1 \in 1..n /\ nd2[b] = nd[b - 1]
      BY <1>1, <1>4, <2>5, <2>11, <3>1
    <3> QED
      BY <2>1, <3>1, <3>2
  <2>12. (a < k \/ a = k \/ a > k) /\ (b < k \/ b = k \/ b > k) /\ (a = k => b >= k)
    BY <2>5
  <2> QED
    BY <2>5, <2>6, <2>7, <2>8, <2>9, <2>10, <2>11, <2>12
<1>11. nd2[k + 1] = nd[k]
  <2>1. k + 1 \in (k + 1)..(n + 2) /\ (k + 1) - 1 = k
    BY <1>1
  <2> QED
    BY <1>2, <2>1
<1>12. n + 1 \in Nat /\ (n + 1) + 1 = n + 2
  BY <1>1
<1>13. IsChain(h, n + 1, nd2, M \cup {e}, nx2, pv, H2, ky)
  BY <1>3, <1>5, <1>6, <1>7, <1>8, <1>9, <1>10, <1>12 DEF IsChain
<1> QED
  BY <1>2, <1>11, <1>13

\* The link back past an element is set to the element itself: it is all linked in.
LEMMA ChainWhole ==
  ASSUME NEW h, NEW n, NEW nd, NEW M, NEW nx, NEW pv, NEW H, NEW ky, NEW pv2, NEW H2, NEW k \in 1..n,
         h \notin M, IsChain(h, n, nd, M, nx, pv, H, ky),
         \A x \in M : x \in H => x = nd[k], M \cap H2 = {},
         pv2[nd[k + 1]] = nd[k], \A x \in M \cup {h} : x # nd[k + 1] => pv2[x] = pv[x]
  PROVE  IsChain(h, n, nd, M, nx, pv2, H2, ky)
<1>1. n \in Nat /\ nd[0] = h /\ nd[n + 1] = h /\ (\A j \in 1..n : nd[j] \in M) /\ k \in Nat
  BY DEF IsChain
<1>2. \A a, b \in 1..(n + 1) : nd[a] = nd[b] => a = b
  BY ChainNodes
<1>3. ASSUME NEW j \in 1..(n + 1)
      PROVE  pv2[nd[j]] = IF j > 1 /\ nd[j - 1] \in H2 THEN nd[j - 2] ELSE nd[j - 1]
  <2>1. j > 1 => j - 1 \in 1..n
    BY <1>1
  <2>2. j > 1 => nd[j - 1] \in M /\ nd[j - 1] \notin H2
    BY <1>1, <2>1
  <2>3. k + 1 \in 1..(n + 1) /\ (k + 1) - 1 = k /\ k \in 1..(n + 1)
    BY <1>1
  <2>4. CASE j = k + 1
    <3>1. pv2[nd[j]] = nd[j - 1]
      BY <2>3, <2>4
    <3> QED
      BY <2>2, <3>1
  <2>5. CASE j # k + 1
    <3>1. nd[j] # nd[k + 1] /\ nd[j] \in M \cup {h}
      <4>1. j \in 1..n \/ j = n + 1
        BY <1>1
      <4> QED
        BY <1>1, <1>2, <2>3, <2>5, <4>1
    <3>2. pv2[nd[j]] = IF j > 1 /\ nd[j - 1] \in H THEN nd[j - 2] ELSE nd[j - 1]
      BY <3>1 DEF IsChain
    <3>3. j > 1 => j - 1 # k /\ j - 1 \in 1..(n + 1)
      BY <1>1, <2>5
    <3>4. j > 1 => nd[j - 1] \notin H
      BY <1>2, <2>2, <2>3, <3>3
    <3> QED
      BY <2>2, <3>2, <3>4
  <2> QED
    BY <2>4, <2>5
<1> QED
  BY <1>3 DEF IsChain

\* The link back to an element is set to the node before it: it is half unlinked.
LEMMA ChainHalf ==
  ASSUME NEW h, NEW n, NEW nd, NEW M, NEW nx, NEW pv, NEW H, NEW ky, NEW pv2, NEW H2, NEW m \in 1..n,
         h \notin M, IsChain(h, n, nd, M, nx, pv, H, ky), M \cap H = {},
         \A x \in M : x \in H2 <=> x = nd[m],
         pv2[nd[m + 1]] = nd[m - 1], \A x \in M \cup {h} : x # nd[m + 1] => pv2[x] = pv[x]
  PROVE  IsChain(h, n, nd, M, nx, pv2, H2, ky)
<1>1. n \in Nat /\ nd[0] = h /\ nd[n + 1] = h /\ (\A j \in 1..n : nd[j] \in M) /\ m \in Nat
  BY DEF IsChain
<1>2. \A a, b \in 1..(n + 1) : nd[a] = nd[b] => a = b
  BY ChainNodes
<1>3. ASSUME NEW j \in 1..(n + 1)
      PROVE  pv2[nd[j]] = IF j > 1 /\ nd[j - 1] \in H2 THEN nd[j - 2] ELSE nd[j - 1]
  <2>1. m + 1 \in 1..(n + 1) /\ (m + 1) - 1 = m /\ m \in 1..(n + 1) /\ (m + 1) - 2 = m - 1 /\ m + 1 > 1
    BY <1>1
  <2>2. CASE j = m + 1
    <3>1. nd[m] \in H2
      BY <1>1
    <3> QED
      BY <2>1, <2>2, <3>1
  <2>3. CASE j # m + 1
    <3>1. nd[j] # nd[m + 1] /\ nd[j] \in M \cup {h}
      <4>1. j \in 1..n \/ j = n + 1
        BY <1>1
      <4> QED
        BY <1>1, <1>2, <2>1, <2>3, <4>1
    <3>2. pv2[nd[j]] = IF j > 1 /\ nd[j - 1] \in H THEN nd[j - 2] ELSE nd[j - 1]
      BY <3>1 DEF IsChain
    <3>3. j > 1 => j - 1 # m /\ j - 1 \in 1..(n + 1) /\ j - 1 \in 1..n
      BY <1>1, <2>3
    <3>4. j > 1 => nd[j - 1] \notin H /\ nd[j - 1] \notin H2
      BY <1>1, <1>2, <2>1, <3>3
    <3> QED
      BY <3>2, <3>4
  <2> QED
    BY <2>2, <2>3
<1> QED
  BY <1>3 DEF IsChain

\* The link forth to a half unlinked element is set to the node after it.
LEMMA ChainDelete ==
  ASSUME NEW h, NEW n, NEW nd, NEW M, NEW nx, NEW pv, NEW H, NEW ky, NEW nx2, NEW M2, NEW H2,
         NEW m \in 1..n, M2 = M \ {nd[m]},
         h \notin M, IsChain(h, n, nd, M, nx, pv, H, ky),
         \A x \in M : x \in H <=> x = nd[m], \A x \in M : x \in H2 => x = nd[m],
         nx2[nd[m - 1]] = nd[m + 1], \A x \in M \cup {h} : x # nd[m - 1] => nx2[x] = nx[x]
  PROVE  \E nd2 : IsChain(h, n - 1, nd2, M2, nx2, pv, H2, ky)
<1> DEFINE nd2 == [j \in 0..n |-> IF j < m THEN nd[j] ELSE nd[j + 1]]
<1>1. n \in Nat /\ nd[0] = h /\ nd[n + 1] = h /\ (\A j \in 1..n : nd[j] \in M) /\ m \in Nat
  BY DEF IsChain
<1>2. /\ \A j \in 0..(m - 1) : nd2[j] = nd[j]
      /\ \A j \in m..n : nd2[j] = nd[j + 1]
  BY <1>1
<1> HIDE DEF nd2
<1>3. n - 1 \in Nat /\ (n - 1) + 1 = n /\ n \in m..n /\ 0 \in 0..(m - 1)
  BY <1>1
<1>4. nd2[0] = h /\ nd2[n] = h
  BY <1>1, <1>2, <1>3
<1>5. \A a, b \in 0..n : nd[a] = nd[b] => a = b
  BY ChainNodes
<1>6. ASSUME NEW j \in 1..(n - 1)
      PROVE  \/ j < m /\ j \in 1..n /\ nd2[j] = nd[j]
             \/ j >= m /\ j + 1 \in 1..n /\ nd2[j] = nd[j + 1]
  <2>1. CASE j < m
    <3>1. j \in 1..n /\ j \in 0..(m - 1)
      BY <1>1, <2>1
    <3> QED
      BY <1>2, <2>1, <3>1
  <2>2. CASE j >= m
    <3>1. j + 1 \in 1..n /\ j \in m..n
      BY <1>1, <2>2
    <3> QED
      BY <1>2, <2>2, <3>1
  <2> QED
    BY <1>1, <2>1, <2>2
<1>7. ASSUME NEW j \in 1..(n - 1) PROVE nd2[j] \in M \ {nd[m]}
  <2>1. \A a \in 1..n : a # m => nd[a] \in M \ {nd[m]}
    BY <1>1 DEF IsChain
  <2>2. j < m => j # m
    BY <1>1
  <2>3. j >= m => j + 1 # m
    BY <1>1
  <2> QED
    BY <1>6, <2>1, <2>2, <2>3
<1>8. ASSUME NEW x \in M \ {nd[m]} PROVE \E j \in 1..(n - 1) : nd2[j] = x
  <2>1. PICK j \in 1..n : nd[j] = x
    BY DEF IsChain
  <2>2. CASE j < m
    <3>1. j \in 1..(n - 1) /\ j \in 0..(m - 1)
      BY <1>1, <2>2
    <3> QED
      BY <1>2, <2>1, <3>1
  <2>3. CASE j > m
    <3>1. j - 1 \in 1..(n - 1) /\ j - 1 \in m..n /\ (j - 1) + 1 = j
      BY <1>1, <2>3
    <3> QED
      BY <1>2, <2>1, <3>1
  <2> QED
    BY <1>1, <2>1, <2>2, <2>3
<1>9. ASSUME NEW a \in 1..(n - 1), NEW b \in 1..(n - 1), nd2[a] = nd2[b] PROVE a = b
  <2>1. \A x, y \in 1..n : nd[x] = nd[y] => x = y
    BY DEF IsChain
  <2>2. a \in Int /\ b \in Int /\ m \in Int
    BY <1>1
  <2>3. CASE a < m /\ b < m
    BY <1>6, <1>9, <2>1, <2>2, <2>3
  <2>4. CASE a < m /\ b >= m
    <3>1. a = b + 1
      BY <1>6, <1>9, <2>1, <2>2, <2>4
    <3> QED
      BY <2>2, <2>4, <3>1
  <2>5. CASE a >= m /\ b < m
    <3>1. a + 1 = b
      BY <1>6, <1>9, <2>1, <2>2, <2>5
    <3> QED
      BY <2>2, <2>5, <3>1
  <2>6. CASE a >= m /\ b >= m
    <3>1. a + 1 = b + 1
      BY <1>6, <1>9, <2>1, <2>2, <2>6
    <3> QED
      BY <2>2, <3>1
  <2> QED
    BY <2>2, <2>3, <2>4, <2>5, <2>6
<1>10. ASSUME NEW j \in 0..(n - 1) PROVE nx2[nd2[j]] = nd2[j + 1]
  <2>1. \A a \in 0..n : nd[a] \in M \cup {h} /\ nx[nd[a]] = nd[a + 1]
    BY <1>1 DEF IsChain
  <2>2. m - 1 \in 0..n /\ m \in m..n
    BY <1>1
  <2>3. CASE j < m - 1
    <3>1. j \in 0..n /\ j \in 0..(m - 1) /\ j + 1 \in 0..(m - 1) /\ j # m - 1
      BY <1>1, <2>3
    <3>2. nd[j] # nd[m - 1]
      BY <1>5, <2>2, <3>1
    <3> QED
      BY <1>2, <2>1, <3>1, <3>2
  <2>4. CASE j = m - 1
    <3>1. j \in 0..(m - 1) /\ j + 1 = m
      BY <1>1, <2>4
    <3> QED
      BY <1>2, <2>2, <2>4, <3>1
  <2>5. CASE j >= m
    <3>1. j + 1 \in 0..n /\ j \in m..n /\ j + 1 \in m..n /\ j + 1 # m - 1
      BY <1>1, <2>5
    <3>2. nd[j + 1] # nd[m - 1]
      BY <1>5, <2>2, <3>1
    <3>3. nx2[nd[j + 1]] = nd[(j + 1) + 1]
      BY <2>1, <3>1, <3>2
    <3> QED
      BY <1>2, <3>1, <3>3
  <2> QED
    BY <1>1, <2>3, <2>4, <2>5
<1>11. ASSUME NEW j \in 1..n
      PROVE  pv[nd2[j]] = IF j > 1 /\ nd2[j - 1] \in H2 THEN nd2[j - 2] ELSE nd2[j - 1]
  <2>1. \A a \in 1..(n + 1) : pv[nd[a]] = IF a > 1 /\ nd[a - 1] \in H THEN nd[a - 2] ELSE nd[a - 1]
    BY DEF IsChain
  <2>2. \A a \in 1..n : a # m => nd[a] \notin H
    BY <1>1 DEF IsChain
  <2>3. j > 1 => j - 1 \in 1..(n - 1)
    BY <1>1
  <2>4. j > 1 => nd2[j - 1] \notin H2
    BY <1>7, <2>3
  <2>5. CASE j < m
    <3>1. /\ j \in 1..(n + 1) /\ j \in 0..(m - 1) /\ j - 1 \in 0..(m - 1)
          /\ (j > 1 => j - 1 \in 1..n /\ j - 1 # m)
      BY <1>1, <2>5
    <3>2. nd2[j] = nd[j] /\ nd2[j - 1] = nd[j - 1]
      BY <1>2, <3>1
    <3>3. j > 1 => nd[j - 1] \notin H
      BY <2>2, <3>1
    <3> QED
      BY <2>1, <2>4, <3>1, <3>2, <3>3
  <2>6. CASE j = m
    <3>1. /\ j \in m..n /\ j + 1 \in 1..(n + 1) /\ j + 1 > 1 /\ (j + 1) - 1 = m
          /\ (j + 1) - 2 = m - 1 /\ j - 1 \in 0..(m - 1)
      BY <1>1, <2>6
    <3>2. nd2[j] = nd[j + 1] /\ nd2[j - 1] = nd[j - 1]
      BY <1>2, <3>1
    <3>3. nd[m] \in H
      BY <1>1
    <3>4. pv[nd[j + 1]] = nd[m - 1]
      BY <2>1, <3>1, <3>3
    <3> QED
      BY <2>4, <2>6, <3>2, <3>4
  <2>7. CASE j > m
    <3>1. /\ j \in m..n /\ j - 1 \in m..n /\ j + 1 \in 1..(n + 1) /\ j + 1 > 1 /\ (j + 1) - 1 = j
          /\ (j - 1) + 1 = j /\ j \in 1..n /\ j # m
      BY <1>1, <2>7
    <3>2. nd2[j] = nd[j + 1] /\ nd2[j - 1] = nd[j]
      BY <1>2, <3>1
    <3>3. nd[j] \notin H
      BY <2>2, <3>1
    <3>4. pv[nd[j + 1]] = nd[j]
      BY <2>1, <3>1, <3>3
    <3> QED
      BY <2>4, <3>2, <3>4
  <2> QED
    BY <1>1, <2>5, <2>6, <2>7
<1>12. ASSUME NEW a \in 1..(n - 1), NEW b \in 1..(n - 1), a <= b PROVE ky[nd2[a]] >= ky[nd2[b]]
  <2>1. \A x, y \in 1..n : x <= y => ky[nd[x]] >= ky[nd[y]]
    BY DEF IsChain
  <2>2. a \in Int /\ b \in Int /\ m \in Int /\ a <= b
    BY <1>1, <1>12
  <2>3. CASE b < m
    <3>1. a < m
      BY <2>2, <2>3
    <3> QED
      BY <1>6, <2>1, <2>2, <2>3, <3>1
  <2>4. CASE a < m /\ b >= m
    <3>1. a <= b + 1 /\ ~(a >= m) /\ ~(b < m)
      BY <2>2, <2>4
    <3> QED
      BY <1>6, <2>1, <2>4, <3>1
  <2>5. CASE a >= m
    <3>1. b >= m /\ a + 1 <= b + 1 /\ ~(a < m) /\ ~(b < m)
      BY <2>2, <2>5
    <3> QED
      BY <1>6, <2>1, <2>5, <3>1
  <2>6. b < m \/ (a < m /\ b >= m) \/ a >= m
    BY <2>2
  <2> QED
    BY <2>3, <2>4, <2>5, <2>6
<1> HIDE DEF nd2
<1>13. IsChain(h, n - 1, nd2, M2, nx2, pv, H2, ky)
  BY <1>3, <1>4, <1>7, <1>8, <1>9, <1>10, <1>11, <1>12 DEF IsChain
<1> QED
  BY <1>13

-----------------------------------------------------------------------------
\* The synchronised lists.  A sublist is a chain at every moment, also in the middle
\* of an insertion or a deletion: the links forth are changed by one store, and only
\* the link back to the element inserted or deleted may not be what it should be.
BadPlaces  == {"bad_length", "bad_lookup", "bad_delete"}
HalfPlaces == {"i_prev", "d_un4", "d_un5", "d_un6"}

\* The links forth lead to element e.
InL(e) ==
  \/ /\ op[e[1]] = "insert"
     /\ e[2] < i[e[1]] \/ (e[2] = i[e[1]] /\ pc[e[1]] \in {"i_prev", "return"})
  \/ op[e[1]] = "length"
  \/ /\ op[e[1]] = "delete"
     /\ e[2] > i[e[1]] \/ (e[2] = i[e[1]] /\ pc[e[1]] # "return")

Members(l) == {e \in Elements : InL(e) /\ get_key_hash(key[e]) = l}

\* The elements the links back lead past.
HalfSet   == {e \in Elements : e[2] = i[e[1]] /\ pc[e[1]] \in HalfPlaces}
HalfOf(p) == {e \in Elements : e = Element(p) /\ pc[p] \in HalfPlaces}

Chain(l, n, nd)    == IsChain(Head(l), n, nd, Members(l), next, prev, HalfSet, key)
OwnChain(p, n, nd) == IsChain(Head(Sublist(p)), n, nd, Members(Sublist(p)), next, prev,
                              HalfOf(p), key)

\* What the frame of a call at place `at' has to do with the chain: `lk', a, b and c
\* are its cursor, its registers and its count, e its element with the links nxe and pve.
FrameOK(at, o, lk, a, b, c, e, nxe, pve, ky, n, nd) ==
  /\ at \in {"i_walk", "i_self", "i_pred", "i_next"} =>
       \E k \in 1..(n + 1) :
         /\ lk = nd[k] /\ \A j \in 1..(k - 1) : ky[nd[j]] >= ky[e]
         /\ at # "i_walk" => k = n + 1 \/ ky[nd[k]] < ky[e]
         /\ at \in {"i_pred", "i_next"} => nxe = nd[k] /\ pve = nd[k - 1]
         /\ at = "i_next" => a = nd[k - 1]
  /\ at = "i_prev" => \E k \in 1..n : nd[k] = e /\ lk = nd[k + 1]
  /\ at = "l_walk" => \E k, m \in 1..n : nd[m] = e /\ k <= m /\ lk = nd[k]
  /\ at \in {"d_chk1", "d_chk2", "d_un2", "d_un3", "d_un5", "d_un6"} =>
       \E m \in 1..n :
         /\ nd[m] = e
         /\ at \in {"d_chk1", "d_un2", "d_un3"} => a = nd[m + 1]
         /\ at \in {"d_chk2", "d_un5", "d_un6"} => a = nd[m - 1]
         /\ at = "d_un3" => b = nd[m - 1]
         /\ at = "d_un6" => b = nd[m + 1]
  /\ at \in {"n_head", "n_walk", "n_chk", "n_step"} =>
       \E k \in 1..(n + 1) :
         /\ lk = nd[k] /\ c = k - 1
         /\ at = "n_head" => k = 1
         /\ at \in {"n_chk", "n_step"} => k <= n
         /\ at = "n_chk" => a = nd[k + 1]
  /\ at = "length" => c = 0
  /\ at = "return" /\ o = "length" => c = n

Frame(p, n, nd) == FrameOK(pc[p], op[p], lookup[p], ra[p], rb[p], count[p], Element(p),
                           next[Element(p)], prev[Element(p)], key, n, nd)

ListOK(l) == \E n, nd : /\ Chain(l, n, nd)
                        /\ \A p \in Procs : InCall(p) /\ Sublist(p) = l => Frame(p, n, nd)

\* The elements of a sublist, and their keys.
LEMMA MembersFacts ==
  ASSUME TypeOK, NEW l \in Lists
  PROVE  /\ Members(l) \subseteq Elements /\ Head(l) \notin Members(l) /\ Head(l) \notin Elements
         /\ Head(l) \in Nodes /\ Elements \subseteq Nodes
         /\ \A e \in Elements : key[e] \in Int
<1>1. Head(l) \notin Elements
  BY OptionsAssumption DEF Head, Elements, Threads
<1>2. \A e \in Elements : key[e] \in Int
  BY OptionsAssumption DEF TypeOK
<1> QED
  BY <1>1, <1>2, Domains DEF Members

\* A list is as it was when its links are and the calls on it are, or begin.
LEMMA SameList ==
  ASSUME NEW l, ListOK(l), key' = key, Members(l)' = Members(l),
         \A x \in Members(l) : x \in HalfSet' <=> x \in HalfSet,
         \A x \in Members(l) \cup {Head(l)} : next'[x] = next[x] /\ prev'[x] = prev[x],
         \A q \in Procs : InCall(q)' /\ Sublist(q)' = l =>
            \/ pc'[q] \in {"insert", "lookup"}
            \/ pc'[q] = "length" /\ count'[q] = 0
            \/ InCall(q) /\ Sublist(q) = l /\ \A n, nd : Frame(q, n, nd) => Frame(q, n, nd)'
  PROVE  ListOK(l)'
<1>1. PICK n, nd : /\ Chain(l, n, nd)
                   /\ \A p \in Procs : InCall(p) /\ Sublist(p) = l => Frame(p, n, nd)
  BY DEF ListOK
<1>2. Chain(l, n, nd)'
  <2>1. IsChain(Head(l), n, nd, Members(l), next', prev', HalfSet', key)
    BY <1>1, ChainSame DEF Chain
  <2> QED
    BY <2>1 DEF Chain, Head
<1>3. ASSUME NEW q \in Procs, InCall(q)', Sublist(q)' = l PROVE Frame(q, n, nd)'
  <2>1. CASE pc'[q] \in {"insert", "lookup"}
    BY <2>1 DEF Frame, FrameOK
  <2>2. CASE pc'[q] = "length" /\ count'[q] = 0
    BY <2>2 DEF Frame, FrameOK
  <2>3. CASE InCall(q) /\ Sublist(q) = l /\ \A m, md : Frame(q, m, md) => Frame(q, m, md)'
    BY <1>1, <2>3
  <2> QED
    BY <1>3, <2>1, <2>2, <2>3
<1> QED
  BY <1>2, <1>3 DEF ListOK

\* A step of the call of p.
OnlyMoves(p) ==
  /\ op' = op /\ i' = i /\ key' = key
  /\ \A q \in Procs : q # p => /\ pc'[q] = pc[q] /\ lookup'[q] = lookup[q] /\ ra'[q] = ra[q]
                               /\ rb'[q] = rb[q] /\ count'[q] = count[q]

\* It changes nothing about the elements p is not at.
LEMMA OtherElements ==
  ASSUME TypeOK, NEW p \in Procs, OnlyMoves(p), NEW e \in Elements, e # Element(p)
  PROVE  (InL(e)' <=> InL(e)) /\ (e \in HalfSet' <=> e \in HalfSet)
<1>1. e[1] \in Procs /\ e = <<e[1], e[2]>> /\ e[2] \in Int /\ i[e[1]] \in Int
  BY Domains, OptionsAssumption DEF TypeOK
<1>2. CASE e[1] # p
  BY <1>1, <1>2 DEF OnlyMoves, InL, HalfSet
<1>3. CASE e[1] = p
  <2>1. e[2] # i[e[1]]
    BY <1>1, <1>3 DEF Element
  <2> QED
    BY <1>1, <2>1 DEF OnlyMoves, InL, HalfSet
<1> QED
  BY <1>2, <1>3

\* The nodes a call on sublist l may write to.
Touches(l) ==
  \A x \in Nodes : \/ next'[x] = next[x] /\ prev'[x] = prev[x]
                   \/ x = Head(l)
                   \/ x \in Elements /\ get_key_hash(key[x]) = l

\* At the places of a length no element is linked in or out.
LEMMA LengthNotHalf ==
  ASSUME PlacesOK, NEW p \in Threads, op[p] = "length"
  PROVE  pc[p] \notin HalfPlaces
BY DEF PlacesOK, HalfPlaces, InsertPlaces, DeletePlaces

\* It changes nothing about the other sublists.
LEMMA OtherLists ==
  ASSUME WInv, WInv', NEW p \in Procs, OnlyMoves(p), Touches(Sublist(p)),
         NEW l \in Lists, l # Sublist(p), ListOK(l)
  PROVE  ListOK(l)'
<1>1. TypeOK /\ PlacesOK /\ PlacesOK'
  BY DEF WInv
<1>2. key' = key /\ op' = op /\ i' = i
  BY DEF OnlyMoves
<1>3. ASSUME NEW e \in Elements, get_key_hash(key[e]) = l
      PROVE  (InL(e)' <=> InL(e)) /\ (e \in HalfSet' <=> e \in HalfSet)
  <2>1. CASE e # Element(p)
    BY <1>1, <2>1, OtherElements
  <2>2. CASE e = Element(p)
    <3>1. op[p] = "length"
      BY <1>3, <2>2 DEF Sublist
    <3>2. p \in Threads /\ e[1] = p
      <4>1. e[1] \in Threads
        BY Domains
      <4> QED
        BY <2>2, <4>1 DEF Element
    <3>3. pc[p] \notin HalfPlaces
      BY <1>1, <3>1, <3>2, LengthNotHalf
    <3>4. pc'[p] \notin HalfPlaces
      BY <1>1, <1>2, <3>1, <3>2 DEF PlacesOK, HalfPlaces, InsertPlaces, DeletePlaces
    <3> QED
      BY <1>2, <3>1, <3>2, <3>3, <3>4 DEF InL, HalfSet
  <2> QED
    BY <2>1, <2>2
<1>4. Members(l)' = Members(l) /\ \A x \in Members(l) : x \in HalfSet' <=> x \in HalfSet
  BY <1>2, <1>3 DEF Members, get_key_hash
<1>5. Head(l) # Head(Sublist(p))
  BY DEF Head
<1>6. \A x \in Members(l) \cup {Head(l)} : next'[x] = next[x] /\ prev'[x] = prev[x]
  <2>1. \A x \in Members(l) : x \in Elements /\ x \in Nodes /\ get_key_hash(key[x]) = l
    BY Domains DEF Members
  <2>2. Head(l) \in Nodes /\ Head(l) \notin Elements
    BY <1>1, MembersFacts
  <2>3. Sublist(p) \in Lists => Head(Sublist(p)) \notin Elements
    BY <1>1, MembersFacts
  <2>4. Head(Sublist(p)) \notin Elements
    BY OptionsAssumption DEF Head, Elements, Threads
  <2> QED
    BY <1>5, <2>1, <2>2, <2>4 DEF Touches
<1>7. ASSUME NEW q \in Procs, InCall(q)', Sublist(q)' = l
      PROVE  InCall(q) /\ Sublist(q) = l /\ \A n, nd : Frame(q, n, nd) => Frame(q, n, nd)'
  <2>1. Sublist(q)' = Sublist(q) /\ Element(q)' = Element(q)
    BY <1>2 DEF Sublist, Element, get_key_hash
  <2>2. q # p
    BY <1>7, <2>1
  <2>3. /\ pc'[q] = pc[q] /\ lookup'[q] = lookup[q] /\ ra'[q] = ra[q] /\ rb'[q] = rb[q]
        /\ count'[q] = count[q]
    BY <2>2 DEF OnlyMoves
  <2>4. CASE op[q] # "length"
    <3>1. q \in Threads
      BY <1>1, <2>4, Domains DEF PlacesOK
    <3>2. Element(q) \in Elements /\ Element(q) \in Nodes /\ get_key_hash(key[Element(q)]) = l
      BY <1>1, <1>7, <2>1, <2>3, <2>4, <3>1, Arguments, Domains DEF InCall, Sublist
    <3>3. Head(Sublist(p)) \notin Elements
      BY OptionsAssumption DEF Head, Elements, Threads
    <3>4. next'[Element(q)] = next[Element(q)] /\ prev'[Element(q)] = prev[Element(q)]
      BY <3>2, <3>3 DEF Touches
    <3>5. \A n, nd : Frame(q, n, nd) => Frame(q, n, nd)'
      BY <1>2, <2>1, <2>3, <3>4 DEF Frame
    <3> QED
      BY <1>7, <2>1, <2>3, <3>5 DEF InCall
  <2>5. CASE op[q] = "length"
    <3>1. pc[q] \notin {"i_pred", "i_next"}
      BY <1>1, <2>5, Domains DEF PlacesOK, InsertPlaces, LengthPlaces
    <3>2. \A n, nd : Frame(q, n, nd) => Frame(q, n, nd)'
      BY <1>2, <2>1, <2>3, <3>1 DEF Frame, FrameOK
    <3> QED
      BY <1>7, <2>1, <2>3, <3>2 DEF InCall
  <2> QED
    BY <2>4, <2>5
<1> QED
  BY <1>2, <1>4, <1>6, <1>7, SameList

-----------------------------------------------------------------------------
\* The calls on a sublist nobody else is in.

\* The element p is at is linked in.
CurIn(p) == \/ op[p] = "insert" /\ pc[p] \in {"i_prev", "return"}
            \/ op[p] = "delete" /\ pc[p] # "return"

\* The element p is at is one of its sublist, which holds it when it is linked in.
LEMMA CurrentElement ==
  ASSUME TypeOK, PlacesOK, NEW p \in Procs, InCall(p)
  PROVE  /\ Sublist(p) \in Lists
         /\ op[p] # "length" => /\ p \in Threads /\ Element(p) \in Elements /\ Element(p) \in Nodes
                                /\ Sublist(p) = get_key_hash(key[Element(p)])
                                /\ Element(p) \in Members(Sublist(p)) <=> CurIn(p)
<1>1. Sublist(p) \in Lists
  BY Domains, Arguments DEF InCall, PlacesOK, CallPlaces, LengthPlaces
<1>2. ASSUME op[p] # "length"
      PROVE  /\ p \in Threads /\ Element(p) \in Elements /\ Element(p) \in Nodes
             /\ Sublist(p) = get_key_hash(key[Element(p)])
  BY <1>2, Domains, Arguments DEF InCall, PlacesOK, Sublist
<1>3. ASSUME op[p] # "length" PROVE InL(Element(p)) <=> CurIn(p)
  BY <1>3 DEF InL, CurIn, Element, TypeOK
<1> QED
  BY <1>1, <1>2, <1>3 DEF Members

\* The elements of the sublist but the one p is at are the same after a step of p.
LEMMA MembersStep ==
  ASSUME WInv, WInv', NEW p \in Procs, InCall(p), InCall(p)', OnlyMoves(p)
  PROVE  /\ Sublist(p)' = Sublist(p) /\ Element(p)' = Element(p)
         /\ op[p] = "length" \/ (CurIn(p)' <=> CurIn(p)) =>
              Members(Sublist(p))' = Members(Sublist(p))
         /\ op[p] # "length" /\ CurIn(p)' =>
              Members(Sublist(p))' = Members(Sublist(p)) \cup {Element(p)}
         /\ op[p] # "length" /\ ~CurIn(p)' =>
              Members(Sublist(p))' = Members(Sublist(p)) \ {Element(p)}
<1> DEFINE l == Sublist(p)  e == Element(p)
<1>1. TypeOK /\ PlacesOK /\ TypeOK' /\ PlacesOK'
  BY DEF WInv
<1>2. key' = key /\ op' = op /\ i' = i
  BY DEF OnlyMoves
<1>3. Sublist(p)' = l /\ Element(p)' = e
  BY <1>2 DEF Sublist, Element, get_key_hash
<1>4. \A x \in Elements : x # e => (InL(x)' <=> InL(x))
  BY <1>1, OtherElements
<1>5. PICK A : A = {x \in Elements : InL(x)}
  OBVIOUS
<1>6. PICK B : B = {x \in Elements : InL(x)'}
  OBVIOUS
<1>7. ASSUME NEW x \in Elements, x # e PROVE x \in B <=> x \in A
  <2>1. InL(x)' <=> InL(x)
    BY <1>4, <1>7
  <2> QED
    BY <1>5, <1>6, <2>1
<1>8. PICK N : /\ N = Members(Sublist(p))'
               /\ \A x : x \in N <=> x \in B /\ get_key_hash(key[x]) = l
  <2>1. \A x : x \in Members(Sublist(p))' <=> x \in B /\ get_key_hash(key[x]) = l
    BY <1>2, <1>3, <1>6 DEF Members, get_key_hash
  <2> QED
    BY <2>1
<1>9. PICK M : /\ M = Members(l)
               /\ \A x : x \in M <=> x \in A /\ get_key_hash(key[x]) = l
  <2>1. \A x : x \in Members(l) <=> x \in A /\ get_key_hash(key[x]) = l
    BY <1>5 DEF Members
  <2> QED
    BY <2>1
<1>10. A \subseteq Elements /\ B \subseteq Elements
  BY <1>5, <1>6
<1> HIDE DEF l, e
<1>11. CASE op[p] = "length"
  <2>1. e \in Elements => e \in A /\ e \in B
    BY <1>2, <1>5, <1>6, <1>11 DEF InL, Element, e
  <2>2. N = M
    BY <1>7, <1>8, <1>9, <1>10, <2>1
  <2> QED
    BY <1>3, <1>8, <1>9, <1>11, <2>2 DEF l, e
<1>12. CASE op[p] # "length"
  <2>1. e \in Elements /\ get_key_hash(key[e]) = l /\ (e \in A <=> CurIn(p))
    BY <1>1, <1>9, <1>12, CurrentElement DEF l, e
  <2>2. e \in B <=> CurIn(p)'
    BY <1>1, <1>2, <1>6, <1>12, <2>1 DEF InL, CurIn, Element, TypeOK, e
  <2>3. (CurIn(p)' <=> CurIn(p)) => N = M
    BY <1>7, <1>8, <1>9, <1>10, <2>1, <2>2
  <2>4. CurIn(p)' => N = M \cup {e}
    BY <1>7, <1>8, <1>9, <1>10, <2>1, <2>2
  <2>5. ~CurIn(p)' => N = M \ {e}
    BY <1>7, <1>8, <1>9, <1>10, <2>1, <2>2
  <2> QED
    BY <1>3, <1>8, <1>9, <1>12, <2>3, <2>4, <2>5 DEF l, e
<1> QED
  BY <1>11, <1>12

\* The links of a list, as a call on it finds them.
LEMMA Links ==
  ASSUME WInv, NEW p \in Procs, InCall(p), NEW n, NEW nd, OwnChain(p, n, nd)
  PROVE  /\ n \in Nat /\ nd[0] = Head(Sublist(p)) /\ nd[n + 1] = Head(Sublist(p))
         /\ \A k \in 1..n : /\ nd[k] # Head(Sublist(p)) /\ nd[k] \in Elements
                            /\ nd[k] \in Members(Sublist(p)) /\ key[nd[k]] \in Int
         /\ \A k \in 0..(n + 1) : nd[k] \in Nodes
         /\ \A k \in 0..n : next[nd[k]] = nd[k + 1]
         /\ pc[p] \notin HalfPlaces => \A k \in 1..(n + 1) : prev[nd[k]] = nd[k - 1]
         /\ \A j, k \in 1..n : j <= k => key[nd[j]] >= key[nd[k]]
         /\ \A x \in Members(Sublist(p)) : \E k \in 1..n : nd[k] = x
<1>1. TypeOK /\ PlacesOK
  BY DEF WInv
<1>2. Sublist(p) \in Lists
  BY <1>1, CurrentElement
<1>3. n \in Nat /\ nd[0] = Head(Sublist(p)) /\ nd[n + 1] = Head(Sublist(p))
  BY DEF OwnChain, IsChain
<1>4. \A k \in 1..n : /\ nd[k] # Head(Sublist(p)) /\ nd[k] \in Elements /\ nd[k] \in Nodes
                      /\ nd[k] \in Members(Sublist(p)) /\ key[nd[k]] \in Int
  BY <1>1, <1>2, MembersFacts DEF OwnChain, IsChain
<1>5. \A k \in 0..(n + 1) : nd[k] \in Nodes
  <2>1. Head(Sublist(p)) \in Nodes
    BY <1>1, <1>2, MembersFacts
  <2>2. \A k \in 0..(n + 1) : k = 0 \/ k = n + 1 \/ k \in 1..n
    BY <1>3
  <2> QED
    BY <1>3, <1>4, <2>1, <2>2
<1>6. ASSUME pc[p] \notin HalfPlaces, NEW k \in 1..(n + 1) PROVE prev[nd[k]] = nd[k - 1]
  <2>1. HalfOf(p) = {}
    BY <1>6 DEF HalfOf
  <2> QED
    BY <2>1 DEF OwnChain, IsChain
<1> QED
  BY <1>3, <1>4, <1>5, <1>6 DEF OwnChain, IsChain

\* A step that only reads leaves the list as it is.
LEMMA KeepsChain ==
  ASSUME WInv, WInv', NEW p \in Procs, InCall(p), InCall(p)', OnlyMoves(p),
         NEW n, NEW nd, OwnChain(p, n, nd), UNCHANGED links,
         pc'[p] \in HalfPlaces <=> pc[p] \in HalfPlaces, CurIn(p)' <=> CurIn(p)
  PROVE  OwnChain(p, n, nd)'
<1>1. Sublist(p)' = Sublist(p) /\ Members(Sublist(p))' = Members(Sublist(p)) /\ Element(p)' = Element(p)
  BY MembersStep
<1>2. HalfOf(p)' = HalfOf(p) /\ key' = key /\ next' = next /\ prev' = prev
  BY <1>1 DEF HalfOf, OnlyMoves, links
<1> QED
  BY <1>1, <1>2 DEF OwnChain, Head

\* What a step of a call on the sublist does.
CallKeeps(p) ==
  /\ \E n, nd : OwnChain(p, n, nd)' /\ Frame(p, n, nd)'
  /\ pc'[p] \notin BadPlaces
  /\ Touches(Sublist(p))

\* SortedList_length()
LEMMA LengthCall ==
  ASSUME WInv, WInv', NEW p \in Procs, InCall(p), InCall(p)', OnlyMoves(p), op[p] = "length",
         NEW n, NEW nd, OwnChain(p, n, nd), Frame(p, n, nd),
         SortedList_length(p, Head(Sublist(p)))
  PROVE  CallKeeps(p)
<1> DEFINE h == Head(Sublist(p))
<1>1. TypeOK /\ PlacesOK /\ TypeOK' /\ PlacesOK'
  BY DEF WInv
<1>2. op' = op /\ i' = i /\ key' = key
  BY DEF OnlyMoves
<1>3. UNCHANGED links
  BY DEF SortedList_length, Advance, Check, LoadA
<1>4. pc[p] \notin HalfPlaces /\ pc'[p] \notin HalfPlaces
  BY DEF SortedList_length, Advance, Check, LoadA, At, Moves, HalfPlaces, TypeOK, WInv
<1>5. OwnChain(p, n, nd)'
  <2>1. CurIn(p)' <=> CurIn(p)
    BY <1>2 DEF CurIn
  <2> QED
    BY <1>3, <1>4, <2>1, KeepsChain
<1>6. /\ n \in Nat /\ nd[0] = h /\ nd[n + 1] = h
      /\ \A k \in 1..n : nd[k] # h
      /\ \A k \in 0..n : next[nd[k]] = nd[k + 1]
      /\ \A k \in 1..(n + 1) : prev[nd[k]] = nd[k - 1]
  BY <1>4, Links
<1> HIDE DEF h
<1>7. Frame(p, n, nd)' /\ pc'[p] \notin BadPlaces
  <2>1. CASE At(p, "length") /\ Advance(p, h, "n_head") /\ UNCHANGED count
    <3>1. pc'[p] = "n_head" /\ lookup'[p] = nd[1] /\ count'[p] = 0
      BY <1>1, <1>6, <2>1 DEF At, Advance, Moves, TypeOK, Frame, FrameOK
    <3>2. 1 \in 1..(n + 1) /\ 1 - 1 = 0
      BY <1>6
    <3> QED
      BY <3>1, <3>2 DEF Frame, FrameOK, BadPlaces
  <2>2. CASE Check(p, "n_head", "n_walk", "bad_length", prev, lookup[p], h)
    <3>1. lookup[p] = nd[1] /\ count[p] = 0 /\ 1 \in 1..(n + 1) /\ 1 - 1 = 0
      BY <1>6, <2>2 DEF Check, At, Frame, FrameOK
    <3>2. prev[lookup[p]] = h
      BY <1>6, <3>1
    <3>3. pc'[p] = "n_walk" /\ lookup' = lookup /\ count' = count
      BY <1>1, <2>2, <3>2 DEF Check, At, Moves, TypeOK, frame
    <3> QED
      BY <3>1, <3>3 DEF Frame, FrameOK, BadPlaces
  <2>3. CASE lookup[p] # h /\ LoadA(p, "n_walk", "n_chk", next, lookup[p])
    <3>1. PICK k \in 1..(n + 1) : lookup[p] = nd[k] /\ count[p] = k - 1
      BY <2>3 DEF LoadA, At, Frame, FrameOK
    <3>2. k \in 0..n /\ k <= n
      BY <1>6, <2>3, <3>1
    <3>3. pc'[p] = "n_chk" /\ lookup' = lookup /\ count' = count /\ ra'[p] = nd[k + 1]
      BY <1>1, <1>6, <2>3, <3>1, <3>2 DEF LoadA, At, Moves, TypeOK
    <3> QED
      BY <3>1, <3>2, <3>3 DEF Frame, FrameOK, BadPlaces
  <2>4. CASE Check(p, "n_chk", "n_step", "bad_length", prev, ra[p], lookup[p])
    <3>1. PICK k \in 1..(n + 1) : lookup[p] = nd[k] /\ count[p] = k - 1 /\ k <= n /\ ra[p] = nd[k + 1]
      BY <2>4 DEF Check, At, Frame, FrameOK
    <3>2. k + 1 \in 1..(n + 1) /\ (k + 1) - 1 = k
      BY <1>6, <3>1
    <3>3. prev[ra[p]] = lookup[p]
      BY <1>6, <3>1, <3>2
    <3>4. pc'[p] = "n_step" /\ lookup' = lookup /\ count' = count
      BY <1>1, <2>4, <3>3 DEF Check, At, Moves, TypeOK, frame
    <3> QED
      BY <3>1, <3>4 DEF Frame, FrameOK, BadPlaces
  <2>5. CASE /\ At(p, "n_step") /\ Advance(p, lookup[p], "n_walk")
             /\ count' = [count EXCEPT ![p] = @ + 1]
    <3>1. PICK k \in 1..(n + 1) : lookup[p] = nd[k] /\ count[p] = k - 1 /\ k <= n
      BY <2>5 DEF At, Frame, FrameOK
    <3>2. k + 1 \in 1..(n + 1) /\ (k + 1) - 1 = k /\ k \in 0..n /\ (k - 1) + 1 = k
      BY <1>6, <3>1
    <3>3. pc'[p] = "n_walk" /\ lookup'[p] = nd[k + 1] /\ count'[p] = k
      BY <1>1, <1>6, <2>5, <3>1, <3>2 DEF At, Advance, Moves, TypeOK
    <3> QED
      BY <3>2, <3>3 DEF Frame, FrameOK, BadPlaces
  <2>6. CASE /\ At(p, "n_walk") /\ lookup[p] = h /\ Moves(p, "return") /\ UNCHANGED <<links, frame>>
    <3>1. PICK k \in 1..(n + 1) : lookup[p] = nd[k] /\ count[p] = k - 1
      BY <2>6 DEF At, Frame, FrameOK
    <3>2. k = n + 1
      <4>1. k \in 1..n \/ k = n + 1
        BY <1>6
      <4> QED
        BY <1>6, <2>6, <3>1, <4>1
    <3>3. count[p] = n
      BY <1>6, <3>1, <3>2
    <3>4. pc'[p] = "return" /\ count' = count
      BY <1>1, <2>6 DEF At, Moves, TypeOK, frame
    <3> QED
      BY <3>3, <3>4 DEF Frame, FrameOK, BadPlaces
  <2> QED
    BY <2>1, <2>2, <2>3, <2>4, <2>5, <2>6 DEF SortedList_length, h
<1> QED
  BY <1>3, <1>5, <1>7 DEF CallKeeps, Touches, links

\* SortedList_lookup()
LEMMA LookupCall ==
  ASSUME WInv, WInv', NEW p \in Procs, InCall(p), InCall(p)', OnlyMoves(p), op[p] = "delete",
         NEW n, NEW nd, OwnChain(p, n, nd), Frame(p, n, nd),
         SortedList_lookup(p, Head(Sublist(p)), Element(p))
  PROVE  CallKeeps(p)
<1> DEFINE h == Head(Sublist(p))  e == Element(p)
<1>1. TypeOK /\ PlacesOK /\ TypeOK' /\ PlacesOK'
  BY DEF WInv
<1>2. op' = op /\ i' = i /\ key' = key /\ Element(p)' = e
  BY DEF OnlyMoves, Element
<1>3. UNCHANGED links
  BY DEF SortedList_lookup, Advance
<1>4. pc[p] \notin HalfPlaces /\ pc'[p] \notin HalfPlaces /\ pc[p] # "return" /\ pc'[p] # "return"
  BY DEF SortedList_lookup, Advance, At, Moves, HalfPlaces, TypeOK, WInv
<1>5. OwnChain(p, n, nd)'
  <2>1. CurIn(p)' <=> CurIn(p)
    BY <1>2, <1>4 DEF CurIn
  <2> QED
    BY <1>3, <1>4, <2>1, KeepsChain
<1>6. /\ n \in Nat /\ nd[0] = h
      /\ \A k \in 1..n : nd[k] # h /\ key[nd[k]] \in Int
      /\ \A k \in 0..n : next[nd[k]] = nd[k + 1]
      /\ \A j, k \in 1..n : j <= k => key[nd[j]] >= key[nd[k]]
      /\ \A x \in Members(Sublist(p)) : \E k \in 1..n : nd[k] = x
  BY <1>4, Links
<1>7. PICK m \in 1..n : nd[m] = e
  <2>1. e \in Members(Sublist(p))
    BY <1>1, <1>4, CurrentElement DEF CurIn
  <2> QED
    BY <1>6, <2>1
<1> HIDE DEF h, e
<1>8. Frame(p, n, nd)' /\ pc'[p] \notin BadPlaces
  <2>1. CASE At(p, "lookup") /\ Advance(p, h, "l_walk") /\ UNCHANGED count
    <3>1. 1 \in 1..n /\ 1 <= m /\ 0 \in 0..n
      BY <1>6, <1>7
    <3>2. pc'[p] = "l_walk" /\ lookup'[p] = nd[1]
      BY <1>1, <1>6, <2>1, <3>1 DEF At, Advance, Moves, TypeOK
    <3> QED
      BY <1>2, <1>7, <3>1, <3>2 DEF Frame, FrameOK, BadPlaces
  <2>2. CASE At(p, "l_walk")
    <3>1. PICK k \in 1..n, mm \in 1..n : nd[mm] = e /\ k <= mm /\ lookup[p] = nd[k]
      BY <2>2 DEF At, Frame, FrameOK, e
    <3>2. WalksOn(e, lookup[p], h)
      <4>1. key[nd[k]] >= key[nd[mm]] /\ nd[k] # h
        BY <1>6, <3>1
      <4>2. key[nd[k]] \in Int /\ key[nd[mm]] \in Int
        BY <1>6
      <4> QED
        BY <3>1, <4>1, <4>2 DEF WalksOn
    <3>3. CASE ~Finds(e, lookup[p]) /\ Advance(p, lookup[p], "l_walk")
      <4>1. k # mm
        BY <3>1, <3>3 DEF Finds
      <4>2. k + 1 \in 1..n /\ k + 1 <= mm /\ k \in 0..n
        BY <1>6, <3>1, <4>1
      <4>3. pc'[p] = "l_walk" /\ lookup'[p] = nd[k + 1]
        BY <1>1, <1>6, <3>1, <3>3, <4>2 DEF Advance, Moves, TypeOK
      <4> QED
        BY <1>2, <3>1, <4>2, <4>3 DEF Frame, FrameOK, BadPlaces
    <3>4. CASE Moves(p, "d_next")
      <4>1. pc'[p] = "d_next"
        BY <1>1, <3>4 DEF Moves, TypeOK
      <4> QED
        BY <4>1 DEF Frame, FrameOK, BadPlaces
    <3> QED
      BY <2>2, <3>2, <3>3, <3>4 DEF SortedList_lookup, At, h, e
  <2> QED
    BY <2>1, <2>2 DEF SortedList_lookup, At, h, e
<1> QED
  BY <1>3, <1>5, <1>8 DEF CallKeeps, Touches, links

\* SortedList_insert()
LEMMA InsertCall ==
  ASSUME WInv, WInv', NEW p \in Procs, InCall(p), InCall(p)', OnlyMoves(p), op[p] = "insert",
         NEW n, NEW nd, OwnChain(p, n, nd), Frame(p, n, nd),
         SortedList_insert(p, Head(Sublist(p)), Element(p))
  PROVE  CallKeeps(p)
<1> DEFINE l == Sublist(p)  h == Head(l)  e == Element(p)  M == Members(l)
<1>1. TypeOK /\ PlacesOK /\ TypeOK' /\ PlacesOK'
  BY DEF WInv
<1>2. op' = op /\ i' = i /\ key' = key /\ Element(p)' = e /\ Sublist(p)' = l
  BY MembersStep DEF OnlyMoves
<1>3. /\ n \in Nat /\ nd[0] = h /\ nd[n + 1] = h
      /\ \A k \in 1..n : nd[k] # h /\ nd[k] \in Elements /\ nd[k] \in M /\ key[nd[k]] \in Int
      /\ \A k \in 0..(n + 1) : nd[k] \in Nodes
      /\ \A k \in 0..n : next[nd[k]] = nd[k + 1]
      /\ pc[p] \notin HalfPlaces => \A k \in 1..(n + 1) : prev[nd[k]] = nd[k - 1]
  BY Links
<1>4. e \in Elements /\ e \in Nodes /\ key[e] \in Int /\ e # h /\ (e \in M <=> CurIn(p))
  BY <1>1, CurrentElement, MembersFacts
<1>5. M \subseteq Elements /\ h \notin M /\ h \notin Elements /\ h \in Nodes /\ \A x \in M : key[x] \in Int
  BY <1>1, CurrentElement, MembersFacts
<1>6. get_key_hash(key[e]) = l /\ \A x \in M : get_key_hash(key[x]) = l
  BY <1>1, CurrentElement DEF Members
<1> HIDE DEF l, h, e, M
<1>7. CASE InsertWalk(p, h, e)
  <2>1. UNCHANGED links
    BY <1>7 DEF InsertWalk, Advance
  <2>2. pc[p] \in {"insert", "i_walk"} /\ pc'[p] \in {"i_walk", "i_self"}
    BY <1>1, <1>7 DEF InsertWalk, Advance, At, Moves, TypeOK
  <2>3. OwnChain(p, n, nd)'
    <3>1. (CurIn(p)' <=> CurIn(p)) /\ (pc'[p] \in HalfPlaces <=> pc[p] \in HalfPlaces)
      BY <1>2, <2>2 DEF CurIn, HalfPlaces
    <3> QED
      BY <2>1, <3>1, KeepsChain
  <2>4. Frame(p, n, nd)'
    <3>1. CASE At(p, "insert") /\ Advance(p, h, "i_walk")
      <4>1. pc'[p] = "i_walk" /\ lookup'[p] = nd[1] /\ 1 \in 1..(n + 1) /\ 1..(1 - 1) = {}
        BY <1>1, <1>3, <3>1 DEF At, Advance, Moves, TypeOK
      <4> QED
        BY <4>1 DEF Frame, FrameOK
    <3>2. CASE At(p, "i_walk") /\ WalksOn(e, lookup[p], h) /\ Advance(p, lookup[p], "i_walk")
      <4>1. PICK k \in 1..(n + 1) : lookup[p] = nd[k] /\ \A j \in 1..(k - 1) : key[nd[j]] >= key[e]
        BY <3>2 DEF At, Frame, FrameOK, e
      <4>2. k # n + 1 /\ key[nd[k]] >= key[e]
        <5>1. nd[k] # h /\ key[e] <= key[nd[k]]
          BY <3>2, <4>1 DEF WalksOn
        <5>2. k # n + 1
          BY <1>3, <5>1
        <5>3. k \in 1..n
          BY <1>3, <5>2
        <5> QED
          BY <1>3, <1>4, <5>1, <5>2, <5>3
      <4>3. k + 1 \in 1..(n + 1) /\ k \in 0..n
        BY <1>3, <4>2
      <4>4. \A j \in 1..((k + 1) - 1) : key[nd[j]] >= key[e]
        <5>1. \A j \in 1..((k + 1) - 1) : j = k \/ j \in 1..(k - 1)
          BY <1>3
        <5> QED
          BY <4>1, <4>2, <5>1
      <4>5. pc'[p] = "i_walk" /\ lookup'[p] = nd[k + 1]
        BY <1>1, <1>3, <3>2, <4>1, <4>3 DEF Advance, Moves, TypeOK
      <4> QED
        BY <1>2, <4>3, <4>4, <4>5 DEF Frame, FrameOK
    <3>3. CASE At(p, "i_walk") /\ ~WalksOn(e, lookup[p], h) /\ Moves(p, "i_self") /\ UNCHANGED <<links, frame>>
      <4>1. PICK k \in 1..(n + 1) : lookup[p] = nd[k] /\ \A j \in 1..(k - 1) : key[nd[j]] >= key[e]
        BY <3>3 DEF At, Frame, FrameOK, e
      <4>2. k = n + 1 \/ key[nd[k]] < key[e]
        <5>1. k = n + 1 \/ k \in 1..n
          BY <1>3
        <5>2. k \in 1..n => ~(key[e] <= key[nd[k]])
          BY <1>3, <3>3, <4>1 DEF WalksOn
        <5> QED
          BY <1>3, <1>4, <5>1, <5>2
      <4>3. pc'[p] = "i_self" /\ lookup' = lookup
        BY <1>1, <3>3 DEF Moves, TypeOK, frame
      <4> QED
        BY <1>2, <4>1, <4>2, <4>3 DEF Frame, FrameOK
    <3> QED
      BY <1>7, <3>1, <3>2, <3>3 DEF InsertWalk
  <2> QED
    BY <2>1, <2>2, <2>3, <2>4 DEF CallKeeps, Touches, links, BadPlaces
<1>8. CASE InsertSelf(p, e)
  <2>1. PICK k \in 1..(n + 1) : /\ lookup[p] = nd[k] /\ \A j \in 1..(k - 1) : key[nd[j]] >= key[e]
                                /\ k = n + 1 \/ key[nd[k]] < key[e]
    BY <1>8 DEF InsertSelf, At, Frame, FrameOK, e
  <2>2. pc[p] = "i_self" /\ pc'[p] = "i_pred" /\ lookup' = lookup
    BY <1>1, <1>8 DEF InsertSelf, At, Moves, TypeOK, frame
  <2>3. prev[nd[k]] = nd[k - 1]
    BY <1>3, <2>2 DEF HalfPlaces
  <2>4. /\ next'[e] = nd[k] /\ prev'[e] = nd[k - 1]
        /\ \A x \in Nodes : x # e => next'[x] = next[x] /\ prev'[x] = prev[x]
    BY <1>1, <1>4, <1>8, <2>1, <2>3 DEF InsertSelf, TypeOK
  <2>5. e \notin M
    BY <1>4, <2>2 DEF CurIn
  <2>6. OwnChain(p, n, nd)'
    <3>1. (CurIn(p)' <=> CurIn(p)) /\ pc'[p] \notin HalfPlaces /\ pc[p] \notin HalfPlaces
      BY <1>2, <2>2 DEF CurIn, HalfPlaces
    <3>2. Members(Sublist(p))' = M
      BY <3>1, MembersStep DEF M, l
    <3>3. HalfOf(p)' = HalfOf(p)
      BY <3>1 DEF HalfOf
    <3>4. \A x \in M \cup {h} : next'[x] = next[x] /\ prev'[x] = prev[x]
      BY <1>4, <1>5, <2>4, <2>5, Domains
    <3>5. IsChain(h, n, nd, M, next, prev, HalfOf(p), key)
      BY DEF OwnChain, h, M, l
    <3>6. IsChain(h, n, nd, M, next', prev', HalfOf(p), key)
      BY <3>4, <3>5, ChainSame
    <3> QED
      BY <1>2, <3>2, <3>3, <3>6 DEF OwnChain, Head, h
  <2>7. Frame(p, n, nd)'
    BY <1>2, <2>1, <2>2, <2>4 DEF Frame, FrameOK
  <2>8. Touches(l)
    BY <1>4, <1>6, <2>4 DEF Touches
  <2> QED
    BY <2>2, <2>6, <2>7, <2>8 DEF CallKeeps, BadPlaces, l
<1>9. CASE LoadA(p, "i_pred", "i_next", prev, lookup[p])
  <2>1. PICK k \in 1..(n + 1) : /\ lookup[p] = nd[k] /\ \A j \in 1..(k - 1) : key[nd[j]] >= key[e]
                                /\ k = n + 1 \/ key[nd[k]] < key[e]
                                /\ next[e] = nd[k] /\ prev[e] = nd[k - 1]
    BY <1>9 DEF LoadA, At, Frame, FrameOK, e
  <2>2. pc[p] = "i_pred" /\ pc'[p] = "i_next" /\ lookup' = lookup /\ UNCHANGED links
    BY <1>1, <1>9 DEF LoadA, At, Moves, TypeOK
  <2>3. prev[nd[k]] = nd[k - 1]
    BY <1>3, <2>2 DEF HalfPlaces
  <2>4. ra'[p] = nd[k - 1]
    BY <1>1, <1>9, <2>1, <2>3 DEF LoadA, TypeOK
  <2>5. OwnChain(p, n, nd)'
    <3>1. (CurIn(p)' <=> CurIn(p)) /\ (pc'[p] \in HalfPlaces <=> pc[p] \in HalfPlaces)
      BY <1>2, <2>2 DEF CurIn, HalfPlaces
    <3> QED
      BY <2>2, <3>1, KeepsChain
  <2>6. Frame(p, n, nd)'
    BY <1>2, <2>1, <2>2, <2>4 DEF Frame, FrameOK, links
  <2> QED
    BY <2>2, <2>5, <2>6 DEF CallKeeps, Touches, links, BadPlaces
<1>10. CASE StoreNext(p, "i_next", "i_prev", ra[p], e)
  <2>1. PICK k \in 1..(n + 1) : /\ lookup[p] = nd[k] /\ \A j \in 1..(k - 1) : key[nd[j]] >= key[e]
                                /\ k = n + 1 \/ key[nd[k]] < key[e]
                                /\ next[e] = nd[k] /\ prev[e] = nd[k - 1] /\ ra[p] = nd[k - 1]
    BY <1>10 DEF StoreNext, At, Frame, FrameOK, e
  <2>2. pc[p] = "i_next" /\ pc'[p] = "i_prev" /\ lookup' = lookup /\ prev' = prev
    BY <1>1, <1>10 DEF StoreNext, At, Moves, TypeOK, frame
  <2>3. k - 1 \in 0..(n + 1) /\ (k - 1 = 0 \/ k - 1 \in 1..n)
    BY <1>3
  <2>4. nd[k - 1] \in Nodes /\ (nd[k - 1] = h \/ nd[k - 1] \in M)
    BY <1>3, <2>3
  <2>5. next'[nd[k - 1]] = e /\ \A x \in Nodes : x # nd[k - 1] => next'[x] = next[x]
    BY <1>1, <1>10, <2>1, <2>4 DEF StoreNext, TypeOK
  <2>6. e \notin M
    BY <1>4, <2>2 DEF CurIn
  <2>7. Members(Sublist(p))' = M \cup {e}
    <3>1. CurIn(p)'
      BY <1>2, <2>2 DEF CurIn
    <3> QED
      BY <3>1, MembersStep DEF M, l, e
  <2>8. HalfOf(p) = {}
    BY <2>2 DEF HalfOf, HalfPlaces
  <2>9. HalfOf(p)' = {e}
    BY <1>2, <1>4, <2>2 DEF HalfOf, HalfPlaces
  <2>10. PICK nd2 : /\ IsChain(h, n + 1, nd2, M \cup {e}, next', prev, {e}, key)
                    /\ nd2[k] = e /\ nd2[k + 1] = nd[k]
    <3>1. IsChain(h, n, nd, M, next, prev, {}, key)
      BY <2>8 DEF OwnChain, h, M, l
    <3>2. \A x \in M \cup {h, e} : x # nd[k - 1] => next'[x] = next[x]
      BY <1>4, <1>5, <2>5, Domains
    <3>3. PICK M2, H, H2 : M2 = M \cup {e} /\ H = {} /\ H2 = {e}
      OBVIOUS
    <3>4. IsChain(h, n, nd, M, next, prev, H, key)
      BY <3>1, <3>3
    <3>5. Splices(k, e, h, n, nd, M, next, prev, key, next', M2, H, H2)
      BY <1>4, <1>5, <2>1, <2>5, <2>6, <3>2, <3>3 DEF Splices
    <3>6. \E nd2 : /\ IsChain(h, n + 1, nd2, M2, next', prev, H2, key)
                   /\ nd2[k] = e /\ nd2[k + 1] = nd[k]
      BY <3>4, <3>5, ChainInsert
    <3> QED
      BY <3>3, <3>6
  <2>11. OwnChain(p, n + 1, nd2)'
    BY <1>2, <2>2, <2>7, <2>9, <2>10 DEF OwnChain, Head, h
  <2>12. Frame(p, n + 1, nd2)'
    BY <1>2, <2>1, <2>2, <2>10 DEF Frame, FrameOK
  <2>13. Touches(l)
    BY <1>5, <1>6, <2>2, <2>4, <2>5 DEF Touches, h
  <2> QED
    BY <2>2, <2>11, <2>12, <2>13 DEF CallKeeps, BadPlaces, l
<1>11. CASE StorePrev(p, "i_prev", "return", lookup[p], e)
  <2>1. PICK k \in 1..n : nd[k] = e /\ lookup[p] = nd[k + 1]
    BY <1>11 DEF StorePrev, At, Frame, FrameOK, e
  <2>2. pc[p] = "i_prev" /\ pc'[p] = "return" /\ next' = next
    BY <1>1, <1>11 DEF StorePrev, At, Moves, TypeOK, frame
  <2>3. k + 1 \in 0..(n + 1) /\ (k + 1 = n + 1 \/ k + 1 \in 1..n)
    BY <1>3
  <2>4. nd[k + 1] \in Nodes /\ (nd[k + 1] = h \/ nd[k + 1] \in M)
    BY <1>3, <2>3
  <2>5. prev'[nd[k + 1]] = nd[k] /\ \A x \in Nodes : x # nd[k + 1] => prev'[x] = prev[x]
    BY <1>1, <1>11, <2>1, <2>4 DEF StorePrev, TypeOK
  <2>6. Members(Sublist(p))' = M
    <3>1. CurIn(p)' <=> CurIn(p)
      BY <1>2, <2>2 DEF CurIn
    <3> QED
      BY <3>1, MembersStep DEF M, l
  <2>7. HalfOf(p) = {e}
    BY <1>4, <2>2 DEF HalfOf, HalfPlaces, e
  <2>8. HalfOf(p)' = {}
    BY <2>2 DEF HalfOf, HalfPlaces
  <2>9. IsChain(h, n, nd, M, next, prev', {}, key)
    <3>1. IsChain(h, n, nd, M, next, prev, {e}, key)
      BY <2>7 DEF OwnChain, h, M, l
    <3>2. \A x \in M \cup {h} : x # nd[k + 1] => prev'[x] = prev[x]
      BY <1>5, <2>5, Domains
    <3>3. M \cap {} = {} /\ \A x \in M : x \in {e} => x = nd[k]
      BY <2>1
    <3> QED
      BY <1>5, <2>5, <3>1, <3>2, <3>3, ChainWhole
  <2>10. OwnChain(p, n, nd)'
    BY <1>2, <2>2, <2>6, <2>8, <2>9 DEF OwnChain, Head, h
  <2>11. Frame(p, n, nd)'
    BY <1>2, <2>2 DEF Frame, FrameOK
  <2>12. Touches(l)
    BY <1>5, <1>6, <2>2, <2>4, <2>5 DEF Touches, h
  <2> QED
    BY <2>2, <2>10, <2>11, <2>12 DEF CallKeeps, BadPlaces, l
<1> QED
  BY <1>7, <1>8, <1>9, <1>10, <1>11 DEF SortedList_insert, h, e, l

\* SortedList_delete()
LEMMA DeleteCall ==
  ASSUME WInv, WInv', NEW p \in Procs, InCall(p), InCall(p)', OnlyMoves(p), op[p] = "delete",
         NEW n, NEW nd, OwnChain(p, n, nd), Frame(p, n, nd),
         SortedList_delete(p, Element(p))
  PROVE  CallKeeps(p)
<1> DEFINE l == Sublist(p)  h == Head(l)  e == Element(p)  M == Members(l)
<1>1. TypeOK /\ PlacesOK /\ TypeOK' /\ PlacesOK'
  BY DEF WInv
<1>2. op' = op /\ i' = i /\ key' = key /\ Element(p)' = e /\ Sublist(p)' = l
  BY MembersStep DEF OnlyMoves
<1>3. /\ n \in Nat /\ nd[0] = h /\ nd[n + 1] = h
      /\ \A k \in 1..n : nd[k] # h /\ nd[k] \in Elements /\ nd[k] \in M
      /\ \A k \in 0..(n + 1) : nd[k] \in Nodes
      /\ \A k \in 0..n : next[nd[k]] = nd[k + 1]
      /\ pc[p] \notin HalfPlaces => \A k \in 1..(n + 1) : prev[nd[k]] = nd[k - 1]
      /\ \A x \in M : \E k \in 1..n : nd[k] = x
  BY Links
<1>4. pc[p] # "return"
  BY DEF SortedList_delete, LoadA, LoadB, Check, StorePrev, StoreNext, At
<1>5. e \in Elements /\ e \in M
  BY <1>1, <1>4, CurrentElement DEF CurIn
<1>6. M \subseteq Elements /\ h \notin M /\ h \notin Elements /\ h \in Nodes
  BY <1>1, CurrentElement, MembersFacts
<1>7. \A x \in M : get_key_hash(key[x]) = l
  BY DEF Members
<1>8. \A a, b \in 1..n : nd[a] = nd[b] => a = b
  BY DEF OwnChain, IsChain
<1>9. PICK m \in 1..n : nd[m] = e
  BY <1>3, <1>5
<1>10. \A k \in 1..n : nd[k] = e => k = m
  BY <1>8, <1>9
<1>11. /\ m \in 0..n /\ m + 1 \in 1..(n + 1) /\ (m + 1) - 1 = m /\ m - 1 \in 0..n /\ (m - 1) + 1 = m
       /\ m \in 1..(n + 1) /\ m + 1 \in 0..(n + 1) /\ m - 1 \in 0..(n + 1)
       /\ (m + 1 = n + 1 \/ m + 1 \in 1..n) /\ (m - 1 = 0 \/ m - 1 \in 1..n)
  BY <1>3
<1>12. /\ next[e] = nd[m + 1] /\ next[nd[m - 1]] = e
       /\ pc[p] \notin HalfPlaces => prev[nd[m + 1]] = e /\ prev[e] = nd[m - 1]
  BY <1>3, <1>9, <1>11
<1>13. pc[p] \in HalfPlaces => prev[e] = nd[m - 1]
  <2> SUFFICES ASSUME pc[p] \in HalfPlaces PROVE prev[e] = nd[m - 1]
    OBVIOUS
  <2>1. HalfOf(p) = {e}
    BY <1>5 DEF HalfOf
  <2>2. prev[nd[m]] = IF m > 1 /\ nd[m - 1] \in HalfOf(p) THEN nd[m - 2] ELSE nd[m - 1]
    BY <1>11 DEF OwnChain, IsChain
  <2>3. m > 1 => m - 1 \in 1..n /\ m - 1 # m
    BY <1>3
  <2>4. m > 1 => nd[m - 1] \notin HalfOf(p)
    BY <1>10, <2>1, <2>3
  <2> QED
    BY <1>9, <2>2, <2>4
<1>14. nd[m - 1] \in Nodes /\ nd[m + 1] \in Nodes
  BY <1>3, <1>11
<1>15. (nd[m - 1] = h \/ nd[m - 1] \in M) /\ (nd[m + 1] = h \/ nd[m + 1] \in M)
  BY <1>3, <1>11
<1> HIDE DEF l, h, e, M
<1>16. ASSUME UNCHANGED links, pc'[p] \in HalfPlaces <=> pc[p] \in HalfPlaces, pc'[p] # "return",
              Frame(p, n, nd)', pc'[p] \notin BadPlaces
       PROVE  CallKeeps(p)
  <2>1. CurIn(p)' <=> CurIn(p)
    BY <1>2, <1>4, <1>16 DEF CurIn
  <2>2. OwnChain(p, n, nd)'
    BY <1>16, <2>1, KeepsChain
  <2> QED
    BY <1>16, <2>2 DEF CallKeeps, Touches, links
<1>17. CASE LoadA(p, "d_next", "d_chk1", next, e)
  <2>1. pc[p] = "d_next" /\ pc'[p] = "d_chk1" /\ UNCHANGED links /\ ra'[p] = nd[m + 1]
    BY <1>1, <1>12, <1>17 DEF LoadA, At, Moves, TypeOK
  <2>2. Frame(p, n, nd)'
    BY <1>2, <1>9, <2>1 DEF Frame, FrameOK
  <2> QED
    BY <1>16, <2>1, <2>2 DEF HalfPlaces, BadPlaces
<1>18. CASE Check(p, "d_chk1", "d_prev", "bad_delete", prev, ra[p], e)
  <2>1. pc[p] = "d_chk1" /\ ra[p] = nd[m + 1]
    BY <1>10, <1>18 DEF Check, At, Frame, FrameOK, e
  <2>2. prev[ra[p]] = e
    BY <1>12, <2>1 DEF HalfPlaces
  <2>3. pc'[p] = "d_prev" /\ UNCHANGED links
    BY <1>1, <1>18, <2>2 DEF Check, At, Moves, TypeOK
  <2>4. Frame(p, n, nd)'
    BY <2>3 DEF Frame, FrameOK
  <2> QED
    BY <1>16, <2>1, <2>3, <2>4 DEF HalfPlaces, BadPlaces
<1>19. CASE LoadA(p, "d_prev", "d_chk2", prev, e)
  <2>1. pc[p] = "d_prev" /\ pc'[p] = "d_chk2" /\ UNCHANGED links
    BY <1>1, <1>19 DEF LoadA, At, Moves, TypeOK
  <2>2. ra'[p] = nd[m - 1]
    BY <1>1, <1>12, <1>19, <2>1 DEF LoadA, TypeOK, HalfPlaces
  <2>3. Frame(p, n, nd)'
    BY <1>2, <1>9, <2>1, <2>2 DEF Frame, FrameOK
  <2> QED
    BY <1>16, <2>1, <2>3 DEF HalfPlaces, BadPlaces
<1>20. CASE Check(p, "d_chk2", "d_un1", "bad_delete", next, ra[p], e)
  <2>1. pc[p] = "d_chk2" /\ ra[p] = nd[m - 1]
    BY <1>10, <1>20 DEF Check, At, Frame, FrameOK, e
  <2>2. next[ra[p]] = e
    BY <1>12, <2>1
  <2>3. pc'[p] = "d_un1" /\ UNCHANGED links
    BY <1>1, <1>20, <2>2 DEF Check, At, Moves, TypeOK
  <2>4. Frame(p, n, nd)'
    BY <2>3 DEF Frame, FrameOK
  <2> QED
    BY <1>16, <2>1, <2>3, <2>4 DEF HalfPlaces, BadPlaces
<1>21. CASE LoadA(p, "d_un1", "d_un2", next, e)
  <2>1. pc[p] = "d_un1" /\ pc'[p] = "d_un2" /\ UNCHANGED links /\ ra'[p] = nd[m + 1]
    BY <1>1, <1>12, <1>21 DEF LoadA, At, Moves, TypeOK
  <2>2. Frame(p, n, nd)'
    BY <1>2, <1>9, <2>1 DEF Frame, FrameOK
  <2> QED
    BY <1>16, <2>1, <2>2 DEF HalfPlaces, BadPlaces
<1>22. CASE LoadB(p, "d_un2", "d_un3", prev, e)
  <2>1. pc[p] = "d_un2" /\ pc'[p] = "d_un3" /\ UNCHANGED links /\ ra' = ra
    BY <1>1, <1>22 DEF LoadB, At, Moves, TypeOK
  <2>2. rb'[p] = nd[m - 1]
    BY <1>1, <1>12, <1>22, <2>1 DEF LoadB, TypeOK, HalfPlaces
  <2>3. ra[p] = nd[m + 1]
    BY <1>10, <2>1 DEF Frame, FrameOK, e
  <2>4. Frame(p, n, nd)'
    BY <1>2, <1>9, <2>1, <2>2, <2>3 DEF Frame, FrameOK
  <2> QED
    BY <1>16, <2>1, <2>4 DEF HalfPlaces, BadPlaces
<1>23. CASE StorePrev(p, "d_un3", "d_un4", ra[p], rb[p])
  <2>1. pc[p] = "d_un3" /\ pc'[p] = "d_un4" /\ next' = next
    BY <1>1, <1>23 DEF StorePrev, At, Moves, TypeOK
  <2>2. ra[p] = nd[m + 1] /\ rb[p] = nd[m - 1]
    BY <1>10, <2>1 DEF Frame, FrameOK, e
  <2>3. prev'[nd[m + 1]] = nd[m - 1] /\ \A x \in Nodes : x # nd[m + 1] => prev'[x] = prev[x]
    BY <1>1, <1>14, <1>23, <2>2 DEF StorePrev, TypeOK
  <2>4. Members(Sublist(p))' = M
    <3>1. CurIn(p)' <=> CurIn(p)
      BY <1>2, <2>1 DEF CurIn
    <3> QED
      BY <3>1, MembersStep DEF M, l
  <2>5. HalfOf(p) = {}
    BY <2>1 DEF HalfOf, HalfPlaces
  <2>6. HalfOf(p)' = {e}
    BY <1>2, <1>5, <2>1 DEF HalfOf, HalfPlaces
  <2>7. IsChain(h, n, nd, M, next, prev', {e}, key)
    <3>1. PICK H, H2 : H = {} /\ H2 = {e}
      OBVIOUS
    <3>2. IsChain(h, n, nd, M, next, prev, H, key)
      BY <2>5, <3>1 DEF OwnChain, h, M, l
    <3>3. \A x \in M \cup {h} : x # nd[m + 1] => prev'[x] = prev[x]
      BY <1>6, <2>3, Domains
    <3>4. M \cap H = {} /\ \A x \in M : x \in H2 <=> x = nd[m]
      BY <1>9, <3>1
    <3>5. IsChain(h, n, nd, M, next, prev', H2, key)
      BY <1>6, <2>3, <3>2, <3>3, <3>4, ChainHalf
    <3> QED
      BY <3>1, <3>5
  <2>8. OwnChain(p, n, nd)'
    BY <1>2, <2>1, <2>4, <2>6, <2>7 DEF OwnChain, Head, h
  <2>9. Frame(p, n, nd)'
    BY <2>1 DEF Frame, FrameOK
  <2>10. Touches(l)
    BY <1>6, <1>7, <1>15, <2>1, <2>3 DEF Touches, h
  <2> QED
    BY <2>1, <2>8, <2>9, <2>10 DEF CallKeeps, BadPlaces, l
<1>24. CASE LoadA(p, "d_un4", "d_un5", prev, e)
  <2>1. pc[p] = "d_un4" /\ pc'[p] = "d_un5" /\ UNCHANGED links
    BY <1>1, <1>24 DEF LoadA, At, Moves, TypeOK
  <2>2. ra'[p] = nd[m - 1]
    BY <1>1, <1>13, <1>24, <2>1 DEF LoadA, TypeOK, HalfPlaces
  <2>3. Frame(p, n, nd)'
    BY <1>2, <1>9, <2>1, <2>2 DEF Frame, FrameOK
  <2> QED
    BY <1>16, <2>1, <2>3 DEF HalfPlaces, BadPlaces
<1>25. CASE LoadB(p, "d_un5", "d_un6", next, e)
  <2>1. pc[p] = "d_un5" /\ pc'[p] = "d_un6" /\ UNCHANGED links /\ ra' = ra /\ rb'[p] = nd[m + 1]
    BY <1>1, <1>12, <1>25 DEF LoadB, At, Moves, TypeOK
  <2>2. ra[p] = nd[m - 1]
    BY <1>10, <2>1 DEF Frame, FrameOK, e
  <2>3. Frame(p, n, nd)'
    BY <1>2, <1>9, <2>1, <2>2 DEF Frame, FrameOK
  <2> QED
    BY <1>16, <2>1, <2>3 DEF HalfPlaces, BadPlaces
<1>26. CASE StoreNext(p, "d_un6", "return", ra[p], rb[p])
  <2>1. pc[p] = "d_un6" /\ pc'[p] = "return" /\ prev' = prev
    BY <1>1, <1>26 DEF StoreNext, At, Moves, TypeOK
  <2>2. ra[p] = nd[m - 1] /\ rb[p] = nd[m + 1]
    BY <1>10, <2>1 DEF Frame, FrameOK, e
  <2>3. next'[nd[m - 1]] = nd[m + 1] /\ \A x \in Nodes : x # nd[m - 1] => next'[x] = next[x]
    BY <1>1, <1>14, <1>26, <2>2 DEF StoreNext, TypeOK
  <2>4. Members(Sublist(p))' = M \ {e}
    <3>1. ~CurIn(p)'
      BY <1>2, <2>1 DEF CurIn
    <3> QED
      BY <3>1, MembersStep DEF M, l, e
  <2>5. HalfOf(p) = {e}
    BY <1>5, <2>1 DEF HalfOf, HalfPlaces, e
  <2>6. HalfOf(p)' = {}
    BY <2>1 DEF HalfOf, HalfPlaces
  <2>7. PICK nd2 : IsChain(h, n - 1, nd2, M \ {e}, next', prev, {}, key)
    <3>1. PICK M2, H, H2 : M2 = M \ {e} /\ H = {e} /\ H2 = {}
      OBVIOUS
    <3>2. IsChain(h, n, nd, M, next, prev, H, key)
      BY <2>5, <3>1 DEF OwnChain, h, M, l
    <3>3. \A x \in M \cup {h} : x # nd[m - 1] => next'[x] = next[x]
      BY <1>6, <2>3, Domains
    <3>4. (\A x \in M : x \in H <=> x = nd[m]) /\ (\A x \in M : x \in H2 => x = nd[m]) /\ M2 = M \ {nd[m]}
      BY <1>9, <3>1
    <3>5. \E nd2 : IsChain(h, n - 1, nd2, M2, next', prev, H2, key)
      BY <1>6, <2>3, <3>2, <3>3, <3>4, ChainDelete
    <3> QED
      BY <3>1, <3>5
  <2>8. OwnChain(p, n - 1, nd2)'
    BY <1>2, <2>1, <2>4, <2>6, <2>7 DEF OwnChain, Head, h
  <2>9. Frame(p, n - 1, nd2)'
    BY <1>2, <2>1 DEF Frame, FrameOK
  <2>10. Touches(l)
    BY <1>6, <1>7, <1>15, <2>1, <2>3 DEF Touches, h
  <2> QED
    BY <2>1, <2>8, <2>9, <2>10 DEF CallKeeps, BadPlaces, l
<1> QED
  BY <1>17, <1>18, <1>19, <1>20, <1>21, <1>22, <1>23, <1>24, <1>25, <1>26 DEF SortedList_delete, e

-----------------------------------------------------------------------------
\* What main() and the workers know of each other, in every mode.  main() asks for
\* lengths only when every worker has returned, and a worker that has returned has
\* been through its three loops.
Phases ==
  /\ pc[MainT] = "opts" => i[MainT] = 1 /\ \A t \in Threads : pc[t] = "none"
  /\ pc[MainT] = "create" => \A t \in Threads : t >= i[MainT] => pc[t] = "none"
  /\ pc[MainT] = "join" => \A t \in Threads : t < i[MainT] => pc[t] = "returned"
  /\ pc[MainT] \in {"create", "join"} => i[MainT] <= n_threads + 1
  /\ pc[MainT] \in {"check", "report"} \cup CallPlaces => \A t \in Threads : pc[t] = "returned"
  /\ \A t \in Threads : /\ i[t] <= LoopBound(t) + 1
                        /\ pc[t] = "none" => op[t] = "insert" /\ i[t] = 1
                        /\ pc[t] = "returned" => op[t] = "delete" /\ i[t] = n_iterations + 1

\* No count is left over from an earlier call.
Reset == \A p \in Procs : ~InCall(p) => count[p] = 0

\* The waits worker t has timed: one for every operation begun.
WaitsOf(t) == (IF op[t] = "insert" THEN 0
               ELSE IF op[t] = "length" THEN n_iterations ELSE n_iterations + n_lists)
              + (i[t] - 1) + (IF InCall(t) THEN 1 ELSE 0)

AllWaits == 2 * n_iterations + n_lists

Waited ==
  /\ \A t \in Threads : thrd_lock_wait[t] = WaitsOf(t)
  /\ pc[MainT] \in {"opts", "create"} => total_lock_wait = 0
  /\ pc[MainT] = "join" => total_lock_wait = (i[MainT] - 1) * AllWaits
  /\ pc[MainT] \in {"check", "report"} \cup CallPlaces => total_lock_wait = n_threads * AllWaits
  /\ status = 0 => report = <<n_threads * AllWaits, 2 * (n_threads * n_iterations) + n_threads>>

\* A step of a list call stays in the call and changes nothing about anybody else.
LEMMA CallMoves ==
  ASSUME TypeOK, NEW p \in Procs, ListCall(p)
  PROVE  OnlyMoves(p) /\ InCall(p) /\ InCall(p)' /\ UNCHANGED <<sync_type, locks, stats, status>>
<1>1. InCall(p) /\ UNCHANGED <<sync_type, key, locks, op, i, stats, status>>
  BY DEF ListCall, InCall
<1> USE DEF TypeOK, OnlyMoves, InCall, CallPlaces, links, frame, At, Moves
<1>2. CASE SortedList_length(p, Head(Sublist(p)))
  BY <1>1, <1>2 DEF SortedList_length, Advance, LoadA, Check
<1>3. CASE SortedList_insert(p, Head(Sublist(p)), Element(p))
  BY <1>1, <1>3 DEF SortedList_insert, InsertWalk, InsertSelf, Advance, LoadA, StoreNext, StorePrev
<1>4. CASE SortedList_lookup(p, Head(Sublist(p)), Element(p))
  BY <1>1, <1>4 DEF SortedList_lookup, Advance
<1>5. CASE SortedList_delete(p, Element(p))
  BY <1>1, <1>5 DEF SortedList_delete, LoadA, LoadB, Check, StoreNext, StorePrev
<1> QED
  BY <1>2, <1>3, <1>4, <1>5 DEF ListCall

\* Only the step of worker t itself makes a difference for what is said of a worker.
LEMMA WorkerPhases ==
  ASSUME TypeOK, Phases, NEW t \in Threads,
         pc[t] # "none", pc[t] # "returned",
         pc'[MainT] = pc[MainT], i'[MainT] = i[MainT],
         \A u \in Threads : u # t => pc'[u] = pc[u] /\ op'[u] = op[u] /\ i'[u] = i[u],
         i'[t] <= LoopBound(t)' + 1, pc'[t] # "none",
         pc'[t] = "returned" => op'[t] = "delete" /\ i'[t] = n_iterations + 1
  PROVE  Phases'
<1>1. \A u \in Threads : u # t => LoopBound(u)' = LoopBound(u)
  BY DEF LoopBound
<1>2. /\ (pc[MainT] = "opts" => i[MainT] = 1 /\ \A u \in Threads : pc[u] = "none")'
      /\ (pc[MainT] = "create" => \A u \in Threads : u >= i[MainT] => pc[u] = "none")'
      /\ (pc[MainT] = "join" => \A u \in Threads : u < i[MainT] => pc[u] = "returned")'
      /\ (pc[MainT] \in {"create", "join"} => i[MainT] <= n_threads + 1)'
      /\ (pc[MainT] \in {"check", "report"} \cup CallPlaces => \A u \in Threads : pc[u] = "returned")'
  BY DEF Phases
<1>3. \A u \in Threads : /\ i'[u] <= LoopBound(u)' + 1
                         /\ pc'[u] = "none" => op'[u] = "insert" /\ i'[u] = 1
                         /\ pc'[u] = "returned" => op'[u] = "delete" /\ i'[u] = n_iterations + 1
  BY <1>1 DEF Phases
<1> QED
  BY <1>2, <1>3 DEF Phases

\* Every step keeps to the phases.
LEMMA PhasesStep == WInv /\ Phases /\ [Next]_vars => Phases'
<1> SUFFICES ASSUME WInv, Phases, [Next]_vars PROVE Phases'
  OBVIOUS
<1>1. TypeOK /\ PlacesOK
  BY DEF WInv
<1>2. MainT \in Procs /\ MainT \notin Threads /\ Threads \subseteq Procs
  BY Domains
<1>3. n_threads \in Nat /\ n_iterations \in Nat /\ n_lists \in Nat /\ \A t \in Threads : t \in Nat /\ t <= n_threads /\ t >= 1
  BY OptionsAssumption DEF Threads
<1>4. \A p \in Procs : i[p] \in Nat \ {0}
  BY <1>1 DEF TypeOK
<1>5. ASSUME pc' = pc, op' = op, i' = i PROVE Phases'
  BY <1>5 DEF Phases, LoopBound
<1>6. CASE UNCHANGED vars \/ Ended
  BY <1>5, <1>6 DEF vars, Ended
<1>7. CASE Main
  <2>1. CASE Fail \/ sig_corrupt(MainT) \/ Report
    BY <1>5, <2>1 DEF Fail, sig_corrupt, Report
  <2>2. CASE GetOpts
    <3>1. pc[MainT] = "opts" /\ pc' = [pc EXCEPT ![MainT] = "create"] /\ op' = op /\ i' = i
      BY <2>2 DEF GetOpts, At, Moves
    <3>2. pc'[MainT] = "create" /\ \A t \in Threads : pc'[t] = pc[t]
      BY <1>1, <1>2, <3>1 DEF TypeOK
    <3> QED
      BY <1>3, <3>1, <3>2 DEF Phases, LoopBound, CallPlaces
  <2>3. CASE Create
    <3>1. pc[MainT] = "create" /\ op' = op
      BY <2>3 DEF Create, At
    <3>2. CASE i[MainT] <= n_threads
      <4> DEFINE u == i[MainT]
      <4>1. u \in Threads /\ u \in Procs
        BY <1>2, <1>4, <3>2 DEF Threads
      <4>2. pc' = [pc EXCEPT ![u] = "loop"] /\ i' = [i EXCEPT ![MainT] = @ + 1]
        BY <2>3, <3>2 DEF Create
      <4>3. /\ pc'[MainT] = "create" /\ i'[MainT] = u + 1 /\ pc'[u] = "loop" /\ pc[u] = "none"
            /\ \A t \in Threads : i'[t] = i[t] /\ (t # u => pc'[t] = pc[t])
        BY <1>1, <1>2, <1>3, <1>4, <3>1, <4>1, <4>2 DEF TypeOK, Phases
      <4>4. \A t \in Threads : t >= u + 1 => t # u /\ t >= u
        BY <1>2, <1>3, <1>4
      <4>5. u + 1 <= n_threads + 1
        BY <1>2, <1>3, <1>4, <3>2
      <4> HIDE DEF u
      <4> QED
        BY <3>1, <4>1, <4>3, <4>4, <4>5 DEF Phases, LoopBound, CallPlaces, u
    <3>3. CASE ~(i[MainT] <= n_threads)
      <4>1. pc' = [pc EXCEPT ![MainT] = "join"] /\ i' = [i EXCEPT ![MainT] = 1]
        BY <2>3, <3>3 DEF Create, Moves
      <4>2. /\ pc'[MainT] = "join" /\ i'[MainT] = 1
            /\ \A t \in Threads : i'[t] = i[t] /\ pc'[t] = pc[t] /\ ~(t < 1)
        BY <1>1, <1>2, <1>3, <4>1 DEF TypeOK
      <4>3. 1 <= n_threads + 1
        BY <1>3
      <4> QED
        BY <3>1, <4>2, <4>3 DEF Phases, LoopBound, CallPlaces
    <3> QED
      BY <3>2, <3>3
  <2>4. CASE Join
    <3>1. pc[MainT] = "join" /\ op' = op
      BY <2>4 DEF Join, At
    <3>2. CASE i[MainT] <= n_threads
      <4> DEFINE u == i[MainT]
      <4>1. pc[u] = "returned" /\ pc' = pc /\ i' = [i EXCEPT ![MainT] = @ + 1]
        BY <2>4, <3>2 DEF Join
      <4>2. i'[MainT] = u + 1 /\ \A t \in Threads : i'[t] = i[t]
        BY <1>1, <1>2, <4>1 DEF TypeOK
      <4>3. \A t \in Threads : t < u + 1 => t = u \/ t < u
        BY <1>2, <1>3, <1>4
      <4>4. u + 1 <= n_threads + 1
        BY <1>2, <1>3, <1>4, <3>2
      <4> HIDE DEF u
      <4> QED
        BY <3>1, <4>1, <4>2, <4>3, <4>4 DEF Phases, LoopBound, CallPlaces, u
    <3>3. CASE ~(i[MainT] <= n_threads)
      <4>1. pc' = [pc EXCEPT ![MainT] = "check"] /\ i' = [i EXCEPT ![MainT] = 1]
        BY <2>4, <3>3 DEF Join, Moves
      <4>2. pc'[MainT] = "check" /\ \A t \in Threads : i'[t] = i[t] /\ pc'[t] = pc[t]
        BY <1>1, <1>2, <4>1 DEF TypeOK
      <4>3. \A t \in Threads : t < i[MainT]
        BY <1>2, <1>3, <1>4, <3>3
      <4> QED
        BY <3>1, <4>2, <4>3 DEF Phases, LoopBound
    <3> QED
      BY <3>2, <3>3
  <2>5. CASE CheckList \/ ListChecked \/ ListCall(MainT)
    <3>1. pc[MainT] \in {"check"} \cup CallPlaces /\ op' = op
      BY <2>5 DEF CheckList, ListChecked, ListCall, At, CallPlaces
    <3>2. pc'[MainT] \in {"check", "report"} \cup CallPlaces /\ \A t \in Threads : i'[t] = i[t] /\ pc'[t] = pc[t]
      <4>1. CASE CheckList
        BY <1>1, <1>2, <4>1 DEF CheckList, Moves, TypeOK, CallPlaces
      <4>2. CASE ListChecked
        BY <1>1, <1>2, <4>2 DEF ListChecked, Moves, TypeOK, CallPlaces
      <4>3. CASE ListCall(MainT)
        BY <1>1, <1>2, <4>3, CallMoves DEF OnlyMoves, InCall
      <4> QED
        BY <2>5, <4>1, <4>2, <4>3
    <3>3. pc'[MainT] \notin {"opts", "create", "join"}
      BY <3>2 DEF CallPlaces
    <3> QED
      BY <3>1, <3>2, <3>3 DEF Phases, LoopBound
  <2> QED
    BY <1>7, <2>1, <2>2, <2>3, <2>4, <2>5 DEF Main
<1>8. ASSUME NEW t \in Threads, Worker(t) PROVE Phases'
  <2>1. t \in Procs /\ t # MainT
    BY <1>2
  <2>2. CASE sig_corrupt(t)
    BY <1>5, <2>2 DEF sig_corrupt
  <2>3. CASE Loop(t)
    <3>1. pc[t] = "loop"
      BY <2>3 DEF Loop, At
    <3>2. i[t] \in Nat \ {0} /\ i[t] <= LoopBound(t) + 1 /\ LoopBound(t) \in Nat
      BY <1>3, <1>4, <2>1 DEF Phases, LoopBound
    <3>3. /\ pc'[MainT] = pc[MainT] /\ i'[MainT] = i[MainT]
          /\ \A u \in Threads : u # t => pc'[u] = pc[u] /\ op'[u] = op[u] /\ i'[u] = i[u]
      BY <1>1, <1>2, <2>1, <2>3 DEF Loop, Moves, TypeOK
    <3>4. CASE i[t] <= LoopBound(t) /\ Moves(t, "lock") /\ UNCHANGED <<op, i>>
      <4>1. pc'[t] = "lock" /\ i'[t] <= LoopBound(t)' + 1
        BY <1>1, <2>1, <3>2, <3>4 DEF Moves, TypeOK, LoopBound
      <4> QED
        BY <1>1, <3>1, <3>3, <4>1, WorkerPhases
    <3>5. CASE i' = [i EXCEPT ![t] = 1] /\ UNCHANGED pc
      <4>1. i'[t] = 1 /\ pc'[t] = "loop"
        BY <1>1, <2>1, <3>1, <3>5 DEF TypeOK
      <4>2. LoopBound(t)' \in Nat
        BY <1>3 DEF LoopBound
      <4>3. i'[t] <= LoopBound(t)' + 1
        BY <4>1, <4>2
      <4> QED
        BY <1>1, <3>1, <3>3, <4>1, <4>3, WorkerPhases
    <3>6. CASE i[t] > LoopBound(t) /\ op[t] = "delete" /\ Moves(t, "returned") /\ UNCHANGED <<op, i>>
      <4>1. pc'[t] = "returned" /\ op'[t] = "delete" /\ i'[t] = i[t] /\ LoopBound(t)' = LoopBound(t) /\ LoopBound(t) = n_iterations
        BY <1>1, <2>1, <3>6 DEF Moves, TypeOK, LoopBound
      <4>2. i'[t] = n_iterations + 1 /\ i'[t] <= LoopBound(t)' + 1
        BY <1>3, <3>2, <3>6, <4>1
      <4> QED
        BY <1>1, <3>1, <3>3, <4>1, <4>2, WorkerPhases
    <3> QED
      BY <2>3, <3>4, <3>5, <3>6 DEF Loop
  <2>4. CASE NoLock(t) \/ MutexLock(t) \/ TestAndSet(t) \/ Spin(t) \/ ListCall(t)
    <3>1. /\ pc[t] \in {"lock", "spin"} \cup CallPlaces /\ pc'[t] \in {"lock", "spin"} \cup CallPlaces
          /\ op' = op /\ i' = i /\ \A u \in Procs : u # t => pc'[u] = pc[u]
      <4>1. Entry(t) \in CallPlaces
        BY <1>1, <2>1 DEF Entry, TypeOK, CallPlaces
      <4>2. CASE NoLock(t) \/ MutexLock(t) \/ TestAndSet(t) \/ Spin(t)
        BY <1>1, <2>1, <4>1, <4>2 DEF NoLock, MutexLock, TestAndSet, Spin, Acquired, At, Moves,
           TypeOK
      <4>3. CASE ListCall(t)
        BY <1>1, <2>1, <4>3, CallMoves DEF OnlyMoves, InCall
      <4> QED
        BY <2>4, <4>2, <4>3
    <3>2. i'[t] <= LoopBound(t)' + 1
      BY <3>1 DEF Phases, LoopBound
    <3>3. pc[t] \notin {"none", "returned"} /\ pc'[t] \notin {"none", "returned"}
      BY <3>1 DEF CallPlaces
    <3> QED
      BY <1>1, <1>2, <3>1, <3>2, <3>3, WorkerPhases
  <2>5. CASE Unlock(t)
    <3>1. pc[t] = "return" /\ pc' = [pc EXCEPT ![t] = "loop"] /\ i' = [i EXCEPT ![t] = @ + 1] /\ op' = op
      BY <2>5 DEF Unlock, At, Moves
    <3>2. pc'[t] = "loop" /\ i'[t] = i[t] + 1 /\ \A u \in Procs : u # t => pc'[u] = pc[u] /\ i'[u] = i[u]
      BY <1>1, <2>1, <3>1 DEF TypeOK
    <3>3. i[t] <= LoopBound(t) /\ LoopBound(t)' = LoopBound(t) /\ LoopBound(t) \in Nat /\ i[t] \in Nat
      BY <1>1, <1>3, <1>4, <2>1, <3>1 DEF PlacesOK, LoopBound, CallPlaces
    <3>4. i'[t] <= LoopBound(t)' + 1
      BY <3>2, <3>3
    <3> QED
      BY <1>1, <1>2, <3>1, <3>2, <3>4, WorkerPhases
  <2> QED
    BY <1>8, <2>2, <2>3, <2>4, <2>5 DEF Worker
<1> QED
  BY <1>6, <1>7, <1>8 DEF Next

\* Every step leaves the counts outside the calls at 0.
LEMMA ResetStep == WInv /\ Phases /\ Reset /\ [Next]_vars => Reset'
<1> SUFFICES ASSUME WInv, Phases, Reset, [Next]_vars PROVE Reset'
  OBVIOUS
<1>1. TypeOK /\ PlacesOK
  BY DEF WInv
<1>2. MainT \in Procs /\ MainT \notin Threads /\ Threads \subseteq Procs
  BY Domains
<1>3. ASSUME count' = count, \A p \in Procs : InCall(p) => InCall(p)' PROVE Reset'
  BY <1>3 DEF Reset
<1>4. ASSUME count' = count, NEW q \in Procs, pc[q] \notin CallPlaces, NEW x, pc' = [pc EXCEPT ![q] = x]
      PROVE  Reset'
  <2>1. \A p \in Procs : p # q => pc'[p] = pc[p]
    BY <1>1, <1>4 DEF TypeOK
  <2> QED
    BY <1>4, <2>1 DEF Reset, InCall
<1>5. CASE UNCHANGED vars \/ Ended
  BY <1>3, <1>5 DEF vars, Ended, InCall, frame
<1>6. ASSUME NEW p \in Procs, ListCall(p) PROVE Reset'
  BY <1>1, <1>6, CallMoves DEF Reset, OnlyMoves, InCall
<1>7. CASE Main
  <2>1. CASE Fail \/ sig_corrupt(MainT) \/ Report
    BY <1>3, <2>1 DEF Fail, sig_corrupt, Report, frame, InCall
  <2>2. CASE GetOpts \/ CheckList
    <3>1. count' = count /\ pc[MainT] \notin CallPlaces /\ \E x : pc' = [pc EXCEPT ![MainT] = x]
      BY <2>2 DEF GetOpts, CheckList, frame, At, Moves, CallPlaces
    <3> QED
      BY <1>2, <1>4, <3>1
  <2>3. CASE Create
    <3>1. count' = count /\ pc[MainT] \notin CallPlaces
      BY <2>3 DEF Create, At, frame, CallPlaces
    <3>2. CASE i[MainT] <= n_threads
      <4>1. pc' = [pc EXCEPT ![i[MainT]] = "loop"]
        BY <2>3, <3>2 DEF Create
      <4>2. i[MainT] \in Nat \ {0}
        BY <1>1, <1>2 DEF TypeOK
      <4>3. i[MainT] \in Threads /\ i[MainT] >= i[MainT]
        BY <3>2, <4>2, OptionsAssumption DEF Threads
      <4>4. i[MainT] \in Procs /\ pc[i[MainT]] \notin CallPlaces
        BY <1>2, <2>3, <4>3 DEF Phases, Create, At, CallPlaces
      <4> QED
        BY <1>4, <3>1, <4>1, <4>4
    <3>3. CASE ~(i[MainT] <= n_threads)
      BY <1>2, <1>4, <2>3, <3>1, <3>3 DEF Create, Moves
    <3> QED
      BY <3>2, <3>3
  <2>4. CASE Join
    <3>1. count' = count /\ pc[MainT] \notin CallPlaces /\ (pc' = pc \/ \E x : pc' = [pc EXCEPT ![MainT] = x])
      BY <2>4 DEF Join, frame, At, Moves, CallPlaces
    <3> QED
      BY <1>2, <1>3, <1>4, <3>1 DEF InCall
  <2>5. CASE ListChecked
    <3>1. count' = count /\ \A q \in Procs : q # MainT => pc'[q] = pc[q]
      BY <1>1, <2>5 DEF ListChecked, Moves, TypeOK
    <3>2. count[MainT] = 0 \/ pc'[MainT] = "bad_length"
      BY <1>1, <1>2, <2>5 DEF ListChecked, Moves, TypeOK
    <3> QED
      BY <3>1, <3>2 DEF Reset, InCall, CallPlaces
  <2> QED
    BY <1>2, <1>6, <1>7, <2>1, <2>2, <2>3, <2>4, <2>5 DEF Main
<1>8. ASSUME NEW t \in Threads, Worker(t) PROVE Reset'
  <2>1. CASE sig_corrupt(t)
    BY <1>3, <2>1 DEF sig_corrupt, frame, InCall
  <2>2. CASE Loop(t) \/ NoLock(t) \/ MutexLock(t) \/ TestAndSet(t) \/ Spin(t)
    <3>1. count' = count /\ pc[t] \notin CallPlaces /\ (pc' = pc \/ \E x : pc' = [pc EXCEPT ![t] = x])
      BY <2>2 DEF Loop, NoLock, MutexLock, TestAndSet, Spin, Acquired, frame, At, Moves, CallPlaces
    <3> QED
      BY <1>2, <1>3, <1>4, <3>1 DEF InCall
  <2>3. CASE Unlock(t)
    <3>1. count'[t] = 0 /\ \A q \in Procs : q # t => pc'[q] = pc[q] /\ count'[q] = count[q]
      BY <1>1, <1>2, <2>3 DEF Unlock, Moves, TypeOK
    <3> QED
      BY <3>1 DEF Reset, InCall
  <2> QED
    BY <1>2, <1>6, <1>8, <2>1, <2>2, <2>3 DEF Worker
<1> QED
  BY <1>5, <1>7, <1>8 DEF Next

\* A process in a call has its sublist to itself.
AloneIn(p) == \A q \in Procs : InCall(q) /\ Sublist(q) = Sublist(p) => q = p

\* The locks see to it, and that main() only calls when the workers have returned.
LEMMA CallsAlone ==
  ASSUME TypeOK, PlacesOK, Phases, MutualExclusion, sync_type # "n" \/ pc[MainT] = "opts",
         NEW p \in Procs, InCall(p)
  PROVE  AloneIn(p)
<1> SUFFICES ASSUME NEW q \in Procs, InCall(q), Sublist(q) = Sublist(p) PROVE q = p
  BY DEF AloneIn
<1>1. \A u \in Procs : u = MainT \/ u \in Threads
  BY Domains
<1>2. ASSUME NEW u \in Threads, InCall(u) PROVE ~InCall(MainT) /\ sync_type # "n"
  BY <1>2 DEF Phases, InCall, CallPlaces
<1> QED
  BY <1>1, <1>2 DEF MutualExclusion

\* The link back past an element of its sublist is its own doing.
LEMMA HalfIsOwn ==
  ASSUME TypeOK, PlacesOK, NEW p \in Procs, AloneIn(p), NEW x \in Members(Sublist(p))
  PROVE  x \in HalfSet <=> x \in HalfOf(p)
<1>1. x \in Elements /\ x[1] \in Threads /\ x[1] \in Procs /\ x = <<x[1], x[2]>> /\ get_key_hash(key[x]) = Sublist(p)
  BY Domains DEF Members
<1>2. ASSUME x \in HalfSet PROVE x \in HalfOf(p)
  <2>1. x = Element(x[1]) /\ pc[x[1]] \in HalfPlaces
    BY <1>1, <1>2 DEF HalfSet, Element
  <2>2. op[x[1]] # "length"
    BY <1>1, <2>1, LengthNotHalf
  <2>3. InCall(x[1]) /\ Sublist(x[1]) = Sublist(p)
    BY <1>1, <2>1, <2>2 DEF InCall, HalfPlaces, CallPlaces, Sublist
  <2>4. x[1] = p
    BY <1>1, <2>3 DEF AloneIn
  <2> QED
    BY <1>1, <2>1, <2>4 DEF HalfOf
<1>3. ASSUME x \in HalfOf(p) PROVE x \in HalfSet
  BY <1>1, <1>3 DEF HalfOf, HalfSet, Element
<1> QED
  BY <1>2, <1>3

\* So is the one after its step.
LEMMA HalfIsOwnNext ==
  ASSUME TypeOK', PlacesOK', NEW p \in Procs, AloneIn(p)', NEW x, x \in Members(Sublist(p))'
  PROVE  x \in HalfSet' <=> x \in HalfOf(p)'
<1>1. x \in Elements /\ x[1] \in Threads /\ x[1] \in Procs /\ x = <<x[1], x[2]>> /\ get_key_hash(key[x])' = Sublist(p)'
  BY Domains DEF Members
<1>2. ASSUME x \in HalfSet' PROVE x \in HalfOf(p)'
  <2>1. x = Element(x[1])' /\ pc'[x[1]] \in HalfPlaces
    BY <1>1, <1>2 DEF HalfSet, Element
  <2>2. op'[x[1]] # "length"
    BY <1>1, <2>1 DEF PlacesOK, HalfPlaces, InsertPlaces, DeletePlaces
  <2>3. InCall(x[1])' /\ Sublist(x[1])' = Sublist(p)'
    BY <1>1, <2>1, <2>2 DEF InCall, HalfPlaces, CallPlaces, Sublist
  <2>4. x[1] = p
    BY <1>1, <2>3 DEF AloneIn
  <2> QED
    BY <1>1, <2>1, <2>4 DEF HalfOf
<1>3. ASSUME x \in HalfOf(p)' PROVE x \in HalfSet'
  BY <1>1, <1>3 DEF HalfOf, HalfSet, Element
<1> QED
  BY <1>2, <1>3

\* A step of a call keeps all lists.
LEMMA CallKeepsLists ==
  ASSUME WInv, WInv', Phases, MutualExclusion, sync_type # "n" \/ pc[MainT] = "opts",
         \A l \in Lists : ListOK(l), NEW p \in Procs, ListCall(p)
  PROVE  pc'[p] \notin BadPlaces /\ \A l \in Lists : ListOK(l)'
<1>1. TypeOK /\ PlacesOK /\ TypeOK' /\ PlacesOK'
  BY DEF WInv
<1>2. OnlyMoves(p) /\ InCall(p) /\ InCall(p)'
  BY <1>1, CallMoves
<1>3. AloneIn(p)
  BY <1>1, <1>2, CallsAlone
<1>4. Sublist(p) \in Lists
  BY <1>1, <1>2, CurrentElement
<1>5. op' = op /\ i' = i /\ key' = key
  BY <1>2 DEF OnlyMoves
<1>6. \A q \in Procs : Sublist(q)' = Sublist(q)
  BY <1>5 DEF Sublist, Element, get_key_hash
<1>7. \A q \in Procs : q # p => (InCall(q)' <=> InCall(q))
  BY <1>2 DEF OnlyMoves, InCall
<1>8. AloneIn(p)'
  BY <1>3, <1>6, <1>7 DEF AloneIn
<1>9. PICK n, nd : Chain(Sublist(p), n, nd) /\ Frame(p, n, nd)
  BY <1>2, <1>4 DEF ListOK
<1>10. OwnChain(p, n, nd)
  <2>1. \A x \in Members(Sublist(p)) : x \in HalfOf(p) <=> x \in HalfSet
    BY <1>1, <1>3, HalfIsOwn
  <2> QED
    BY <1>9, <2>1, ChainSame DEF Chain, OwnChain
<1>11. CallKeeps(p)
  <2>1. p = MainT \/ p \in Threads
    BY Domains
  <2>2. CASE SortedList_length(p, Head(Sublist(p)))
    <3>1. pc[p] \in LengthPlaces
      BY <2>2 DEF SortedList_length, LoadA, Check, At, LengthPlaces
    <3>2. op[p] = "length"
      BY <1>1, <2>1, <3>1 DEF PlacesOK
    <3> QED
      BY <1>2, <1>9, <1>10, <2>2, <3>2, LengthCall
  <2>3. CASE p # MainT /\ SortedList_insert(p, Head(Sublist(p)), Element(p))
    <3>1. pc[p] \in InsertPlaces
      BY <2>3 DEF SortedList_insert, InsertWalk, InsertSelf, LoadA, StoreNext, StorePrev, At,
         InsertPlaces
    <3>2. op[p] = "insert"
      BY <1>1, <2>1, <2>3, <3>1 DEF PlacesOK
    <3> QED
      BY <1>2, <1>9, <1>10, <2>3, <3>2, InsertCall
  <2>4. CASE p # MainT /\ SortedList_lookup(p, Head(Sublist(p)), Element(p))
    <3>1. pc[p] \in DeletePlaces
      BY <2>4 DEF SortedList_lookup, At, DeletePlaces
    <3>2. op[p] = "delete"
      BY <1>1, <2>1, <2>4, <3>1 DEF PlacesOK
    <3> QED
      BY <1>2, <1>9, <1>10, <2>4, <3>2, LookupCall
  <2>5. CASE p # MainT /\ SortedList_delete(p, Element(p))
    <3>1. pc[p] \in DeletePlaces
      BY <2>5 DEF SortedList_delete, LoadA, LoadB, Check, StoreNext, StorePrev, At, DeletePlaces
    <3>2. op[p] = "delete"
      BY <1>1, <2>1, <2>5, <3>1 DEF PlacesOK
    <3> QED
      BY <1>2, <1>9, <1>10, <2>5, <3>2, DeleteCall
  <2> QED
    BY <2>2, <2>3, <2>4, <2>5 DEF ListCall
<1>12. ASSUME NEW l \in Lists PROVE ListOK(l)'
  <2>1. CASE l # Sublist(p)
    BY <1>2, <1>11, <2>1, OtherLists DEF CallKeeps
  <2>2. CASE l = Sublist(p)
    <3>1. PICK m, md : OwnChain(p, m, md)' /\ Frame(p, m, md)'
      BY <1>11 DEF CallKeeps
    <3>2. \A x \in Members(Sublist(p))' : x \in HalfSet' <=> x \in HalfOf(p)'
      BY <1>1, <1>8, HalfIsOwnNext
    <3>3. PICK M, H, H2, nx, pv, ky : /\ M = Members(Sublist(p))' /\ H = HalfOf(p)' /\ H2 = HalfSet'
                                      /\ nx = next' /\ pv = prev' /\ ky = key'
      OBVIOUS
    <3>4. IsChain(Head(l), m, md, M, nx, pv, H, ky)
      BY <1>6, <2>2, <3>1, <3>3 DEF OwnChain, Head
    <3>5. \A x \in M : x \in H2 <=> x \in H
      BY <3>2, <3>3
    <3>6. IsChain(Head(l), m, md, M, nx, pv, H2, ky)
      BY <3>4, <3>5, ChainSame
    <3>7. M = Members(l)'
      BY <1>6, <2>2, <3>3 DEF Members
    <3>8. Chain(l, m, md)'
      BY <3>3, <3>6, <3>7 DEF Chain, Head
    <3>9. \A q \in Procs : InCall(q)' /\ Sublist(q)' = l => q = p
      BY <1>6, <1>8, <2>2 DEF AloneIn
    <3> QED
      BY <3>1, <3>8, <3>9 DEF ListOK
  <2> QED
    BY <2>1, <2>2
<1> QED
  BY <1>11, <1>12 DEF CallKeeps

\* A step that is no step of a call keeps all lists, if it changes nothing about
\* which elements are linked in and a call it begins is at its beginning.
LEMMA QuietLists ==
  ASSUME \A l \in Lists : ListOK(l), key' = key, next' = next, prev' = prev,
         \A e \in Elements : (InL(e)' <=> InL(e)) /\ (e \in HalfSet' <=> e \in HalfSet),
         \A q \in Procs : InCall(q)' =>
            \/ pc'[q] \in {"insert", "lookup"}
            \/ pc'[q] = "length" /\ count'[q] = 0
            \/ /\ pc'[q] = pc[q] /\ op'[q] = op[q] /\ i'[q] = i[q] /\ lookup'[q] = lookup[q]
               /\ ra'[q] = ra[q] /\ rb'[q] = rb[q] /\ count'[q] = count[q]
  PROVE  \A l \in Lists : ListOK(l)'
<1> SUFFICES ASSUME NEW l \in Lists PROVE ListOK(l)'
  OBVIOUS
<1>1. Members(l)' = Members(l)
  BY DEF Members, get_key_hash
<1>2. \A x \in Members(l) : x \in HalfSet' <=> x \in HalfSet
  BY DEF Members
<1>3. ASSUME NEW q \in Procs, InCall(q)', Sublist(q)' = l,
             pc'[q] = pc[q] /\ op'[q] = op[q] /\ i'[q] = i[q] /\ lookup'[q] = lookup[q],
             ra'[q] = ra[q] /\ rb'[q] = rb[q] /\ count'[q] = count[q]
      PROVE  InCall(q) /\ Sublist(q) = l /\ \A n, nd : Frame(q, n, nd) => Frame(q, n, nd)'
  <2>1. Element(q)' = Element(q)
    BY <1>3 DEF Element
  <2>2. Sublist(q)' = Sublist(q)
    BY <1>3, <2>1 DEF Sublist, get_key_hash
  <2>3. \A n, nd : Frame(q, n, nd) => Frame(q, n, nd)'
    BY <1>3, <2>1 DEF Frame
  <2> QED
    BY <1>3, <2>2, <2>3 DEF InCall
<1>4. \A q \in Procs : InCall(q)' /\ Sublist(q)' = l =>
            \/ pc'[q] \in {"insert", "lookup"}
            \/ pc'[q] = "length" /\ count'[q] = 0
            \/ InCall(q) /\ Sublist(q) = l /\ \A n, nd : Frame(q, n, nd) => Frame(q, n, nd)'
  BY <1>3
<1> QED
  BY <1>1, <1>2, <1>4, SameList

\* That of a worker is such a step when it keeps what is said of its own elements.
LEMMA WorkerQuiet ==
  ASSUME TypeOK, \A l \in Lists : ListOK(l), key' = key, next' = next, prev' = prev,
         NEW t \in Threads,
         \A q \in Procs : q # t => /\ pc'[q] = pc[q] /\ op'[q] = op[q] /\ i'[q] = i[q] /\ lookup'[q] = lookup[q]
                                   /\ ra'[q] = ra[q] /\ rb'[q] = rb[q] /\ count'[q] = count[q],
         \A e \in Elements : e[1] = t => (InL(e)' <=> InL(e)),
         pc[t] \notin HalfPlaces, pc'[t] \notin HalfPlaces,
         InCall(t)' => pc'[t] \in {"insert", "lookup"} \/ (pc'[t] = "length" /\ count'[t] = 0)
  PROVE  \A l \in Lists : ListOK(l)'
<1>1. \A e \in Elements : e[1] \in Procs
  BY Domains
<1>2. ASSUME NEW e \in Elements PROVE (InL(e)' <=> InL(e)) /\ (e \in HalfSet' <=> e \in HalfSet)
  <2>1. CASE e[1] = t
    BY <2>1 DEF HalfSet
  <2>2. CASE e[1] # t
    BY <1>1, <2>2 DEF HalfSet, InL
  <2> QED
    BY <2>1, <2>2
<1>3. \A q \in Procs : InCall(q)' =>
            \/ pc'[q] \in {"insert", "lookup"}
            \/ pc'[q] = "length" /\ count'[q] = 0
            \/ /\ pc'[q] = pc[q] /\ op'[q] = op[q] /\ i'[q] = i[q] /\ lookup'[q] = lookup[q]
               /\ ra'[q] = ra[q] /\ rb'[q] = rb[q] /\ count'[q] = count[q]
  OBVIOUS
<1> QED
  BY <1>2, <1>3, QuietLists

\* When main() has been given the length of a sublist, the sublist is empty.
LEMMA MainFindsNothing ==
  ASSUME WInv, Phases, \A l \in Lists : ListOK(l), pc[MainT] = "return"
  PROVE  count[MainT] = 0
<1>1. MainT \in Procs /\ InCall(MainT) /\ op[MainT] = "length"
  BY Domains DEF InCall, CallPlaces, WInv, PlacesOK
<1>2. Sublist(MainT) \in Lists
  BY <1>1, CurrentElement DEF WInv
<1>3. PICK n, nd : Chain(Sublist(MainT), n, nd) /\ Frame(MainT, n, nd)
  BY <1>1, <1>2 DEF ListOK
<1>4. ASSUME NEW e \in Elements PROVE ~InL(e)
  <2>1. e[1] \in Threads /\ e[2] \in 1..n_iterations
    BY Domains
  <2>2. op[e[1]] = "delete" /\ i[e[1]] = n_iterations + 1
    BY <2>1 DEF Phases, CallPlaces
  <2>3. ~(e[2] > n_iterations + 1) /\ e[2] # n_iterations + 1
    BY <2>1, OptionsAssumption
  <2> QED
    BY <2>2, <2>3 DEF InL
<1>5. Members(Sublist(MainT)) = {}
  BY <1>4 DEF Members
<1>6. n = 0
  <2>1. n \in Nat /\ \A k \in 1..n : nd[k] \in {}
    BY <1>3, <1>5 DEF Chain, IsChain
  <2>2. n # 0 => 1 \in 1..n
    BY <2>1
  <2> QED
    BY <2>1, <2>2
<1> QED
  BY <1>1, <1>3, <1>6 DEF Frame, FrameOK

\* Until the mode is known, or once it is one with locks.
Synced == sync_type # "n" \/ pc[MainT] = "opts"

NoBad == \A p \in Procs : pc[p] \notin BadPlaces

SInv == Synced => NoBad /\ status # 2 /\ \A l \in Lists : ListOK(l)

\* A step of worker t outside the calls changes nothing about which elements are linked in.
LEMMA WorkerLinks ==
  ASSUME TypeOK, NEW t \in Threads,
         Loop(t) \/ NoLock(t) \/ MutexLock(t) \/ TestAndSet(t) \/ Spin(t) \/ Unlock(t),
         NEW e \in Elements
  PROVE  InL(e)' <=> InL(e)
<1>1. t \in Procs /\ e[1] \in Procs /\ n_iterations \in Nat /\ n_lists \in Nat
  BY Domains, OptionsAssumption
<1>2. CASE e[1] # t
  <2>1. pc'[e[1]] = pc[e[1]] /\ op'[e[1]] = op[e[1]] /\ i'[e[1]] = i[e[1]]
    BY <1>1, <1>2 DEF Loop, NoLock, MutexLock, TestAndSet, Spin, Unlock, Acquired, Moves, TypeOK
  <2> QED
    BY <2>1 DEF InL
<1>3. CASE e[1] = t
  <2>1. e[2] \in 1..n_iterations /\ e[2] \in Int /\ i[t] \in Nat \ {0}
    BY <1>1, Domains DEF TypeOK
  <2>2. CASE Loop(t)
    <3>1. pc[t] = "loop" /\ pc'[t] \in {"loop", "lock", "returned"}
      BY <1>1, <2>2 DEF Loop, At, Moves, TypeOK
    <3>2. CASE op' = op /\ i' = i
      BY <1>3, <3>1, <3>2 DEF InL
    <3>3. CASE i[t] > LoopBound(t) /\ op[t] = "insert" /\ op'[t] = "length"
      <4>1. e[2] < i[t]
        BY <1>1, <2>1, <3>3 DEF LoopBound
      <4> QED
        BY <1>3, <3>3, <4>1 DEF InL
    <3>4. CASE op[t] = "length" /\ op'[t] = "delete" /\ i'[t] = 1
      <4>1. e[2] > 1 \/ e[2] = 1
        BY <2>1
      <4> QED
        BY <1>3, <3>1, <3>4, <4>1 DEF InL
    <3>5. \/ op' = op /\ i' = i
          \/ i[t] > LoopBound(t) /\ op[t] = "insert" /\ op'[t] = "length"
          \/ op[t] = "length" /\ op'[t] = "delete" /\ i'[t] = 1
      BY <1>1, <2>2 DEF Loop, TypeOK
    <3> QED
      BY <3>2, <3>3, <3>4, <3>5
  <2>3. CASE NoLock(t) \/ MutexLock(t) \/ TestAndSet(t) \/ Spin(t)
    <3>1. Entry(t) \in {"insert", "length", "lookup"}
      BY <1>1 DEF Entry, TypeOK
    <3>2. pc[t] \in {"lock", "spin"} /\ pc'[t] \in {"lock", "spin", "insert", "length", "lookup"}
      BY <1>1, <2>3, <3>1 DEF NoLock, MutexLock, TestAndSet, Spin, Acquired, At, Moves, TypeOK
    <3>3. op' = op /\ i' = i
      BY <2>3 DEF NoLock, MutexLock, TestAndSet, Spin
    <3> QED
      BY <1>3, <3>2, <3>3 DEF InL
  <2>4. CASE Unlock(t)
    <3>1. pc[t] = "return" /\ pc'[t] = "loop" /\ op' = op /\ i'[t] = i[t] + 1
      BY <1>1, <2>4 DEF Unlock, At, Moves, TypeOK
    <3>2. /\ e[2] < i[t] + 1 <=> (e[2] < i[t] \/ e[2] = i[t])
          /\ (e[2] > i[t] + 1 \/ e[2] = i[t] + 1) <=> e[2] > i[t]
      BY <2>1
    <3> QED
      BY <1>3, <3>1, <3>2 DEF InL
  <2> QED
    BY <2>2, <2>3, <2>4
<1> QED
  BY <1>2, <1>3

\* Every step keeps the lists of a synchronised run.
LEMMA SyncStep ==
  WInv /\ WInv' /\ LockInv /\ Phases /\ Reset /\ SInv /\ [Next]_vars => SInv'
<1> SUFFICES ASSUME WInv, WInv', LockInv, Phases, Reset, SInv, [Next]_vars, Synced'
             PROVE  (NoBad /\ status # 2 /\ \A l \in Lists : ListOK(l))'
  BY DEF SInv
<1>1. TypeOK /\ PlacesOK /\ TypeOK' /\ PlacesOK' /\ MutualExclusion
  BY DEF WInv, LockInv
<1>2. MainT \in Procs /\ MainT \notin Threads /\ Threads \subseteq Procs /\ \A e \in Elements : e[1] \in Threads
  BY Domains
<1>3. n_threads \in Nat /\ n_iterations \in Nat /\ n_lists \in Nat
  BY OptionsAssumption
<1>4. \A p \in Procs : i[p] \in Nat \ {0}
  BY <1>1 DEF TypeOK
<1>5. CASE UNCHANGED vars \/ Ended
  <2>1. UNCHANGED vars
    BY <1>5 DEF Ended
  <2>2. /\ key' = key /\ next' = next /\ prev' = prev /\ pc' = pc /\ op' = op /\ i' = i
        /\ lookup' = lookup /\ ra' = ra /\ rb' = rb /\ count' = count /\ status' = status /\ sync_type' = sync_type
    BY <2>1 DEF vars, links, frame
  <2>3. NoBad /\ status # 2 /\ \A l \in Lists : ListOK(l)
    BY <2>2 DEF SInv, Synced
  <2>4. \A e \in Elements : (InL(e)' <=> InL(e)) /\ (e \in HalfSet' <=> e \in HalfSet)
    BY <2>2 DEF InL, HalfSet
  <2> QED
    BY <2>2, <2>3, <2>4, QuietLists DEF NoBad
<1>6. ASSUME NEW p \in Procs, sig_corrupt(p) PROVE FALSE
  <2>1. pc' = pc /\ sync_type' = sync_type
    BY <1>6 DEF sig_corrupt
  <2>2. NoBad
    BY <2>1 DEF SInv, Synced
  <2> QED
    BY <1>6, <2>2 DEF sig_corrupt, NoBad, BadPlaces
<1>7. ASSUME NEW p \in Procs, ListCall(p) PROVE (NoBad /\ status # 2 /\ \A l \in Lists : ListOK(l))'
  <2>1. OnlyMoves(p) /\ InCall(p) /\ InCall(p)' /\ UNCHANGED <<sync_type, status>>
    BY <1>1, <1>7, CallMoves
  <2>2. Synced
    <3>1. pc'[MainT] = "opts" => pc[MainT] = "opts"
      BY <1>2, <2>1 DEF OnlyMoves, InCall, CallPlaces
    <3> QED
      BY <2>1, <3>1 DEF Synced
  <2>3. NoBad /\ status # 2 /\ \A l \in Lists : ListOK(l)
    BY <2>2 DEF SInv
  <2>4. pc'[p] \notin BadPlaces /\ \A l \in Lists : ListOK(l)'
    BY <1>1, <1>7, <2>2, <2>3, CallKeepsLists DEF Synced
  <2> QED
    BY <2>1, <2>3, <2>4 DEF NoBad, OnlyMoves
<1>8. CASE Main
  <2>1. Synced
    <3>1. CASE GetOpts
      BY <3>1 DEF GetOpts, At, Synced
    <3>2. CASE ~GetOpts
      <4>1. sync_type' = sync_type
        BY <1>8, <3>2 DEF Main, Fail, Create, Join, CheckList, ListChecked, Report, ListCall,
           sig_corrupt
      <4>2. pc'[MainT] = "opts" => pc[MainT] = "opts"
        <5>1. CASE Create
          <6>1. i[MainT] <= n_threads => pc' = [pc EXCEPT ![i[MainT]] = "loop"] /\ i[MainT] # MainT
            BY <1>2, <1>4, <5>1 DEF Create, MainT
          <6> QED
            BY <1>1, <1>2, <5>1, <6>1 DEF Create, Moves, TypeOK
        <5>2. CASE ListCall(MainT)
          BY <1>1, <1>2, <5>2, CallMoves DEF InCall, CallPlaces
        <5>3. CASE Fail \/ Join \/ CheckList \/ ListChecked \/ Report \/ sig_corrupt(MainT)
          BY <1>1, <1>2, <5>3 DEF Fail, Join, CheckList, ListChecked, Report, sig_corrupt, Moves,
             TypeOK
        <5> QED
          BY <1>8, <3>2, <5>1, <5>2, <5>3 DEF Main
      <4> QED
        BY <4>1, <4>2 DEF Synced
    <3> QED
      BY <3>1, <3>2
  <2>2. NoBad /\ status # 2 /\ \A l \in Lists : ListOK(l)
    BY <2>1 DEF SInv
  <2>3. ASSUME key' = key, next' = next, prev' = prev, op' = op, pc'[MainT] \notin BadPlaces, status' # 2,
               \A t \in Threads : /\ i'[t] = i[t] /\ lookup'[t] = lookup[t] /\ ra'[t] = ra[t] /\ rb'[t] = rb[t]
                                  /\ count'[t] = count[t]
                                  /\ pc'[t] = pc[t] \/ (pc[t] = "none" /\ pc'[t] = "loop"),
               InCall(MainT)' => \/ pc'[MainT] = "length" /\ count'[MainT] = 0
                                 \/ /\ pc'[MainT] = pc[MainT] /\ i'[MainT] = i[MainT] /\ lookup'[MainT] = lookup[MainT]
                                    /\ ra'[MainT] = ra[MainT] /\ rb'[MainT] = rb[MainT] /\ count'[MainT] = count[MainT]
        PROVE  (NoBad /\ status # 2 /\ \A l \in Lists : ListOK(l))'
    <3>1. \A q \in Procs : q = MainT \/ q \in Threads
      BY Domains
    <3>2. NoBad'
      BY <2>2, <2>3, <3>1 DEF NoBad, BadPlaces
    <3>3. ASSUME NEW e \in Elements PROVE (InL(e)' <=> InL(e)) /\ (e \in HalfSet' <=> e \in HalfSet)
      <4>1. e[1] \in Threads
        BY <1>2
      <4>2. CASE pc'[e[1]] = pc[e[1]]
        BY <2>3, <4>1, <4>2 DEF InL, HalfSet
      <4>3. CASE pc[e[1]] = "none" /\ pc'[e[1]] = "loop"
        BY <2>3, <4>1, <4>3 DEF InL, HalfSet, HalfPlaces
      <4> QED
        BY <2>3, <4>1, <4>2, <4>3
    <3>4. \A q \in Procs : InCall(q)' =>
            \/ pc'[q] \in {"insert", "lookup"}
            \/ pc'[q] = "length" /\ count'[q] = 0
            \/ /\ pc'[q] = pc[q] /\ op'[q] = op[q] /\ i'[q] = i[q] /\ lookup'[q] = lookup[q]
               /\ ra'[q] = ra[q] /\ rb'[q] = rb[q] /\ count'[q] = count[q]
      BY <2>3, <3>1 DEF InCall, CallPlaces
    <3>5. \A l \in Lists : ListOK(l)'
      BY <2>2, <2>3, <3>3, <3>4, QuietLists
    <3> QED
      BY <2>3, <3>2, <3>5
  <2>4. CASE Fail \/ Report
    <3>1. /\ key' = key /\ next' = next /\ prev' = prev /\ op' = op /\ pc' = pc /\ i' = i
          /\ lookup' = lookup /\ ra' = ra /\ rb' = rb /\ count' = count
      BY <2>4 DEF Fail, Report, links, frame
    <3>2. status' # 2
      BY <2>4 DEF Fail, Report, SigFpe
    <3> QED
      BY <1>2, <2>2, <2>3, <3>1, <3>2 DEF NoBad
  <2>5. CASE GetOpts \/ CheckList
    <3>1. /\ key' = key /\ next' = next /\ prev' = prev /\ op' = op /\ i' = i
          /\ lookup' = lookup /\ ra' = ra /\ rb' = rb /\ count' = count /\ status' = status
      BY <2>5 DEF GetOpts, CheckList, links, frame
    <3>2. /\ pc'[MainT] \in {"create", "length", "report"} /\ \A t \in Threads : pc'[t] = pc[t]
          /\ pc[MainT] \in {"opts", "check"}
      BY <1>1, <1>2, <2>5 DEF GetOpts, CheckList, At, Moves, TypeOK
    <3>3. count[MainT] = 0
      BY <1>2, <3>2 DEF Reset, InCall, CallPlaces
    <3>4. /\ pc'[MainT] \notin BadPlaces /\ (InCall(MainT)' => pc'[MainT] = "length" /\ count'[MainT] = 0)
      BY <3>1, <3>2, <3>3 DEF BadPlaces, InCall, CallPlaces
    <3> QED
      BY <2>2, <2>3, <3>1, <3>2, <3>4
  <2>6. CASE Create
    <3>1. /\ key' = key /\ next' = next /\ prev' = prev /\ op' = op
          /\ lookup' = lookup /\ ra' = ra /\ rb' = rb /\ count' = count /\ status' = status /\ pc[MainT] = "create"
      BY <2>6 DEF Create, links, frame, At
    <3>2. CASE i[MainT] <= n_threads
      <4>1. pc' = [pc EXCEPT ![i[MainT]] = "loop"] /\ i' = [i EXCEPT ![MainT] = @ + 1]
        BY <2>6, <3>2 DEF Create
      <4>2. i[MainT] \in Threads /\ i[MainT] >= i[MainT]
        BY <1>2, <1>3, <1>4, <3>2 DEF Threads
      <4>3. pc[i[MainT]] = "none"
        BY <3>1, <4>2 DEF Phases
      <4>4. pc'[MainT] = "create" /\ \A t \in Threads : i'[t] = i[t] /\ (pc'[t] = pc[t] \/ (pc[t] = "none" /\ pc'[t] = "loop"))
        BY <1>1, <1>2, <3>1, <4>1, <4>2, <4>3 DEF TypeOK
      <4>5. pc'[MainT] \notin BadPlaces /\ ~InCall(MainT)'
        BY <4>4 DEF BadPlaces, InCall, CallPlaces
      <4> QED
        BY <2>2, <2>3, <3>1, <4>4, <4>5
    <3>3. CASE ~(i[MainT] <= n_threads)
      <4>1. pc'[MainT] = "join" /\ \A t \in Threads : i'[t] = i[t] /\ pc'[t] = pc[t]
        BY <1>1, <1>2, <2>6, <3>3 DEF Create, Moves, TypeOK
      <4>2. pc'[MainT] \notin BadPlaces /\ ~InCall(MainT)'
        BY <4>1 DEF BadPlaces, InCall, CallPlaces
      <4> QED
        BY <2>2, <2>3, <3>1, <4>1, <4>2
    <3> QED
      BY <3>2, <3>3
  <2>7. CASE Join
    <3>1. /\ key' = key /\ next' = next /\ prev' = prev /\ op' = op
          /\ lookup' = lookup /\ ra' = ra /\ rb' = rb /\ count' = count /\ status' = status
      BY <2>7 DEF Join, links, frame, At
    <3>2. pc'[MainT] \in {"join", "check"} /\ \A t \in Threads : i'[t] = i[t] /\ pc'[t] = pc[t]
      BY <1>1, <1>2, <2>7 DEF Join, At, Moves, TypeOK
    <3>3. pc'[MainT] \notin BadPlaces /\ ~InCall(MainT)'
      BY <3>2 DEF BadPlaces, InCall, CallPlaces
    <3> QED
      BY <2>2, <2>3, <3>1, <3>2, <3>3
  <2>8. CASE ListChecked
    <3>1. count[MainT] = 0
      BY <2>2, <2>8, MainFindsNothing DEF ListChecked, At
    <3>2. /\ key' = key /\ next' = next /\ prev' = prev /\ op' = op
          /\ ra' = ra /\ rb' = rb /\ count' = count /\ status' = status
      BY <2>8 DEF ListChecked, links, At
    <3>3. /\ pc'[MainT] = "check"
          /\ \A t \in Threads : i'[t] = i[t] /\ pc'[t] = pc[t] /\ lookup'[t] = lookup[t]
      BY <1>1, <1>2, <2>8, <3>1 DEF ListChecked, Moves, TypeOK
    <3>4. pc'[MainT] \notin BadPlaces /\ ~InCall(MainT)'
      BY <3>3 DEF BadPlaces, InCall, CallPlaces
    <3> QED
      BY <2>2, <2>3, <3>2, <3>3, <3>4
  <2> QED
    BY <1>2, <1>6, <1>7, <1>8, <2>4, <2>5, <2>6, <2>7, <2>8 DEF Main
<1>9. ASSUME NEW t \in Threads, Worker(t) PROVE (NoBad /\ status # 2 /\ \A l \in Lists : ListOK(l))'
  <2>1. t \in Procs /\ t # MainT
    BY <1>2
  <2>2. CASE Loop(t) \/ NoLock(t) \/ MutexLock(t) \/ TestAndSet(t) \/ Spin(t) \/ Unlock(t)
    <3>1. /\ key' = key /\ next' = next /\ prev' = prev /\ sync_type' = sync_type /\ status' = status
          /\ \A q \in Procs : q # t => /\ pc'[q] = pc[q] /\ op'[q] = op[q] /\ i'[q] = i[q] /\ lookup'[q] = lookup[q]
                                       /\ ra'[q] = ra[q] /\ rb'[q] = rb[q] /\ count'[q] = count[q]
      <4>1. CASE Loop(t)
        BY <1>1, <2>1, <4>1 DEF Loop, Moves, TypeOK, links, frame
      <4>2. CASE NoLock(t) \/ MutexLock(t) \/ TestAndSet(t) \/ Spin(t)
        BY <1>1, <2>1, <4>2 DEF NoLock, MutexLock, TestAndSet, Spin, Acquired, Moves, TypeOK,
           links, frame
      <4>3. CASE Unlock(t)
        BY <1>1, <2>1, <4>3 DEF Unlock, Moves, TypeOK, links
      <4> QED
        BY <2>2, <4>1, <4>2, <4>3
    <3>2. NoBad /\ status # 2 /\ \A l \in Lists : ListOK(l)
      BY <1>2, <2>1, <3>1 DEF SInv, Synced
    <3>3. pc[t] \notin HalfPlaces
      BY <2>2 DEF Loop, NoLock, MutexLock, TestAndSet, Spin, Unlock, At, HalfPlaces
    <3>4. pc'[t] \in {"loop", "lock", "spin", "returned", "insert", "length", "lookup"}
      <4>1. Entry(t) \in {"insert", "length", "lookup"}
        BY <1>1, <2>1 DEF Entry, TypeOK
      <4> QED
        BY <1>1, <2>1, <2>2, <4>1 DEF Loop, NoLock, MutexLock, TestAndSet, Spin, Unlock, Acquired,
           At, Moves, TypeOK
    <3>5. pc'[t] = "length" => count'[t] = 0
      <4>1. CASE Unlock(t)
        BY <1>1, <2>1, <4>1 DEF Unlock, Moves, TypeOK
      <4>2. CASE ~Unlock(t)
        <5>1. count' = count /\ pc[t] \in {"loop", "lock", "spin"}
          BY <2>2, <4>2 DEF Loop, NoLock, MutexLock, TestAndSet, Spin, At, frame
        <5> QED
          BY <2>1, <5>1 DEF Reset, InCall, CallPlaces
      <4> QED
        BY <4>1, <4>2
    <3>6. \A e \in Elements : InL(e)' <=> InL(e)
      BY <1>1, <2>2, WorkerLinks
    <3>7. \A l \in Lists : ListOK(l)'
      <4>1. pc'[t] \notin HalfPlaces /\ (InCall(t)' => pc'[t] \in {"insert", "lookup"} \/ (pc'[t] = "length" /\ count'[t] = 0))
        BY <3>4, <3>5 DEF HalfPlaces, InCall, CallPlaces
      <4> QED
        BY <1>1, <3>1, <3>2, <3>3, <3>6, <4>1, WorkerQuiet
    <3>8. NoBad'
      BY <3>1, <3>2, <3>4 DEF NoBad, BadPlaces
    <3> QED
      BY <3>1, <3>2, <3>7, <3>8
  <2> QED
    BY <1>6, <1>7, <1>9, <2>1, <2>2 DEF Worker
<1> QED
  BY <1>5, <1>8, <1>9 DEF Next

\* At the start all of this holds: the sublists are empty chains.
LEMMA ListInit == Init => Phases /\ Reset /\ SInv
<1> SUFFICES ASSUME Init PROVE Phases /\ Reset /\ SInv
  OBVIOUS
<1>1. MainT \in Procs /\ MainT \notin Threads /\ Threads \subseteq Procs /\ \A q \in Procs : q = MainT \/ q \in Threads
  BY Domains
<1>2. /\ pc[MainT] = "opts" /\ op[MainT] = "length" /\ i[MainT] = 1
      /\ \A t \in Threads : pc[t] = "none" /\ op[t] = "insert" /\ i[t] = 1
      /\ \A p \in Procs : count[p] = 0
  BY <1>1 DEF Init
<1>3. Phases
  <2>1. \A t \in Threads : i[t] <= LoopBound(t) + 1
    BY <1>2, OptionsAssumption DEF LoopBound
  <2> QED
    BY <1>2, <2>1 DEF Phases, CallPlaces
<1>4. Reset
  BY <1>2 DEF Reset
<1>5. NoBad /\ \A p \in Procs : ~InCall(p)
  BY <1>1, <1>2 DEF NoBad, BadPlaces, InCall, CallPlaces
<1>6. ASSUME NEW l \in Lists PROVE ListOK(l)
  <2>1. ASSUME NEW e \in Elements PROVE ~InL(e)
    <3>1. e[1] \in Threads /\ e[2] \in 1..n_iterations
      BY Domains
    <3>2. ~(e[2] < 1)
      BY <3>1, OptionsAssumption
    <3> QED
      BY <1>2, <3>1, <3>2 DEF InL
  <2>2. Members(l) = {}
    BY <2>1 DEF Members
  <2>3. next[Head(l)] = Head(l) /\ prev[Head(l)] = Head(l)
    BY Domains DEF Init
  <2> DEFINE nd == [k \in 0..1 |-> Head(l)]
  <2>4. nd[0] = Head(l) /\ nd[1] = Head(l)
    OBVIOUS
  <2> HIDE DEF nd
  <2>5. IsChain(Head(l), 0, nd, {}, next, prev, HalfSet, key)
    BY <2>3, <2>4 DEF IsChain
  <2>6. Chain(l, 0, nd)
    BY <2>2, <2>5 DEF Chain
  <2> QED
    BY <1>5, <2>6 DEF ListOK
<1>7. status # 2
  BY DEF Init, Running
<1> QED
  BY <1>3, <1>4, <1>5, <1>6, <1>7 DEF SInv

\* All of it, in every reachable state.
LEMMA ListInvHolds == Spec => [](WInv /\ LockInv /\ Phases /\ Reset /\ SInv)
<1>1. Init => Phases /\ Reset /\ SInv
  BY ListInit
<1>2. WInv /\ WInv' /\ LockInv /\ Phases /\ Reset /\ SInv /\ [Next]_vars => (Phases /\ Reset /\ SInv)'
  BY PhasesStep, ResetStep, SyncStep
<1> QED
  BY <1>1, <1>2, WInvHolds, LockInvHolds, PTL DEF Spec

\* sig_corrupt() is never called in a synchronised run of lab2_list, for any number of
\* threads, iterations and sublists and whatever the keys are: no walk, no check of a
\* link and no comparison of a length ever fails.
THEOREM NeverCorruptHolds == Spec => []NeverCorrupt
<1>1. SInv => NeverCorrupt
  BY DEF SInv, Synced, NoBad, BadPlaces, NeverCorrupt
<1> QED
  BY <1>1, ListInvHolds, PTL

-----------------------------------------------------------------------------
\* Going round a circle of d places.
LEMMA Quotient ==
  ASSUME NEW m \in Nat, NEW d \in Nat \ {0}
  PROVE  \E q \in Int, r \in 0..(d - 1) : m = d * q + r /\ r = m % d
<1>1. m = d * (m \div d) + (m % d) /\ m \div d \in Int
  OBVIOUS
<1>2. m % d \in 0..(d - 1)
  OBVIOUS
<1> QED
  BY <1>1, <1>2

\* Quotient and remainder are the only ones.
LEMMA Remainder ==
  ASSUME NEW q \in Int, NEW q2 \in Int, NEW r \in Int, NEW r2 \in Int, NEW d \in Nat \ {0},
         d * q + r = d * q2 + r2, 0 <= r, r < d, 0 <= r2, r2 < d
  PROVE  r = r2
<1>1. d * (q - q2) = r2 - r
  OBVIOUS
<1>2. CASE q > q2
  <2>1. d * (q - q2) >= d
    BY <1>2
  <2> QED
    BY <1>1, <2>1
<1>3. CASE q < q2
  <2>1. d * (q - q2) <= -d
    BY <1>3
  <2> QED
    BY <1>1, <2>1
<1>4. CASE q = q2
  BY <1>4
<1> QED
  BY <1>2, <1>3, <1>4

\* A step further.
LEMMA Around ==
  ASSUME NEW m \in Nat, NEW d \in Nat \ {0}
  PROVE  (m + 1) % d = IF m % d = d - 1 THEN 0 ELSE (m % d) + 1
<1>1. PICK m1 \in Nat : m1 = m + 1
  OBVIOUS
<1>2. PICK q \in Int, r \in 0..(d - 1) : m = d * q + r /\ r = m % d
  BY Quotient
<1>3. PICK q1 \in Int, r1 \in 0..(d - 1) : m1 = d * q1 + r1 /\ r1 = m1 % d
  BY Quotient
<1>4. CASE r = d - 1
  <2>1. PICK q2 \in Int : q2 = q + 1
    OBVIOUS
  <2>2. d * q2 = d * q + d
    BY <2>1
  <2>3. d * q1 + r1 = d * q2 + 0
    BY <1>1, <1>2, <1>3, <1>4, <2>2
  <2>4. r1 = 0
    BY <2>3, Remainder
  <2> QED
    BY <1>1, <1>2, <1>3, <1>4, <2>4
<1>5. CASE r # d - 1
  <2>1. d * q1 + r1 = d * q + (r + 1)
    BY <1>1, <1>2, <1>3
  <2>2. r1 = r + 1
    BY <1>5, <2>1, Remainder
  <2> QED
    BY <1>1, <1>2, <1>3, <1>5, <2>2
<1> QED
  BY <1>4, <1>5

\* A set of naturals has a least element.
LEMMA Least ==
  ASSUME NEW S \in SUBSET Nat, S # {}
  PROVE  \E m \in S : \A j \in S : m <= j
<1>1. PICK m \in S : \A j \in S : ~(<<j, m>> \in OpToRel(<, Nat))
  BY WFMin, NatLessThanWellFounded
<1>2. \A j \in S : ~(j < m)
  BY <1>1 DEF OpToRel
<1> QED
  BY <1>2

\* The pool has n_threads * n_iterations elements.
LEMMA PoolSize == IsFiniteSet(Elements) /\ Cardinality(Elements) = n_threads * n_iterations
<1>1. n_threads \in Nat /\ n_iterations \in Nat
  BY OptionsAssumption
<1>2. IsFiniteSet(1..n_threads) /\ Cardinality(1..n_threads) = n_threads
  BY <1>1, FS_Interval
<1>3. IsFiniteSet(1..n_iterations) /\ Cardinality(1..n_iterations) = n_iterations
  BY <1>1, FS_Interval
<1>4. PICK A, B : A = 1..n_threads /\ B = 1..n_iterations
  OBVIOUS
<1>5. IsFiniteSet(A) /\ IsFiniteSet(B)
  BY <1>2, <1>3, <1>4
<1>6. IsFiniteSet(A \X B) /\ Cardinality(A \X B) = Cardinality(A) * Cardinality(B)
  BY <1>5, FS_Product, Zenon
<1>7. Elements = A \X B
  BY <1>4 DEF Elements, Threads
<1>8. PICK E : E = A \X B
  OBVIOUS
<1>9. IsFiniteSet(E) /\ Cardinality(E) = Cardinality(A) * Cardinality(B) /\ Elements = E
  BY <1>6, <1>7, <1>8, Zenon
<1> QED
  BY <1>2, <1>3, <1>4, <1>9

\* A chain has as many places as elements.
LEMMA ChainLength ==
  ASSUME NEW n, NEW nd, NEW l, Chain(l, n, nd)
  PROVE  IsFiniteSet(Members(l)) /\ Cardinality(Members(l)) = n /\ n <= n_threads * n_iterations
<1> DEFINE f == [k \in 1..n |-> nd[k]]
<1>1. n \in Nat
  BY DEF Chain, IsChain
<1>2. /\ \A k \in 1..n : nd[k] \in Members(l)
      /\ \A x \in Members(l) : \E k \in 1..n : nd[k] = x
      /\ \A j, k \in 1..n : nd[j] = nd[k] => j = k
  BY DEF Chain, IsChain
<1>3. f \in Bijection(1..n, Members(l))
  BY <1>2 DEF Bijection, Injection, Surjection, IsInjective
<1>4. ExistsBijection(1..n, Members(l))
  BY <1>3 DEF ExistsBijection
<1>5. IsFiniteSet(1..n) /\ Cardinality(1..n) = n
  BY <1>1, FS_Interval
<1>6. IsFiniteSet(Members(l)) /\ Cardinality(Members(l)) = n
  BY <1>4, <1>5, FS_Bijection
<1>7. Cardinality(Members(l)) <= Cardinality(Elements)
  <2>1. Members(l) \in SUBSET Elements
    BY DEF Members
  <2> QED
    BY <2>1, PoolSize, FS_Subset
<1> QED
  BY <1>6, <1>7, PoolSize

\* The elements a walk along the links passes are the elements of the chain.
LEMMA ReachIs ==
  ASSUME NEW n, NEW nd, NEW l \in Lists, Chain(l, n, nd), TypeOK
  PROVE  Reach(l) = Members(l)
<1> DEFINE h == Head(l)  N == n_threads * n_iterations
           F == CHOOSE f : f = [m \in Nat |-> IF m = 0 THEN h ELSE next[f[m - 1]]]
           g == [m \in Nat |-> nd[m % (n + 1)]]
<1>1. /\ n \in Nat /\ nd[0] = h /\ nd[n + 1] = h
      /\ \A k \in 1..n : nd[k] \in Members(l)
      /\ \A x \in Members(l) : \E k \in 1..n : nd[k] = x
      /\ \A k \in 0..n : next[nd[k]] = nd[k + 1]
  BY DEF Chain, IsChain
<1>2. h \notin Members(l) /\ N \in Nat /\ n <= N
  BY MembersFacts, ChainLength, OptionsAssumption
<1>3. g = [m \in Nat |-> IF m = 0 THEN h ELSE next[g[m - 1]]]
  <2>1. ASSUME NEW m \in Nat PROVE g[m] = IF m = 0 THEN h ELSE next[g[m - 1]]
    <3>1. n + 1 \in Nat \ {0}
      BY <1>1
    <3>2. CASE m = 0
      <4>1. 0 % (n + 1) = 0
        BY <3>1
      <4> QED
        BY <1>1, <3>2, <4>1
    <3>3. CASE m # 0
      <4>1. PICK k \in Nat : m = k + 1 /\ k = m - 1
        BY <3>3
      <4>2. PICK r \in 0..n : r = k % (n + 1)
        BY <1>1, <3>1, <4>1
      <4>3. m % (n + 1) = IF r = n THEN 0 ELSE r + 1
        <5>1. PICK d \in Nat \ {0} : d = n + 1
          BY <3>1
        <5>2. (k + 1) % d = IF k % d = d - 1 THEN 0 ELSE (k % d) + 1
          BY Around
        <5>3. d - 1 = n
          BY <1>1, <5>1
        <5>4. m % d = IF r = n THEN 0 ELSE r + 1
          BY <4>1, <4>2, <5>1, <5>2, <5>3
        <5> QED
          BY <5>1, <5>4
      <4>4. next[nd[r]] = nd[r + 1]
        BY <1>1
      <4>5. g[m - 1] = nd[r] /\ g[m] = nd[m % (n + 1)]
        BY <4>1, <4>2
      <4>6. nd[m % (n + 1)] = nd[r + 1]
        BY <1>1, <4>3
      <4> HIDE DEF g
      <4> QED
        BY <3>3, <4>4, <4>5, <4>6
    <3> QED
      BY <3>2, <3>3
  <2> QED
    BY <2>1
<1>4. F = [m \in Nat |-> IF m = 0 THEN h ELSE next[F[m - 1]]]
  <2> DEFINE Good(f) == f = [m \in Nat |-> IF m = 0 THEN h ELSE next[f[m - 1]]]
  <2>1. Good(g)
    BY <1>3
  <2>2. Good(CHOOSE f : Good(f))
    <3> HIDE DEF Good, g
    <3> QED
      BY <2>1
  <2> QED
    BY <2>2
<1>5. Reach(l) = {F[m] : m \in 1..N} \ {h}
  BY DEF Reach
<1> HIDE DEF F, g
<1>6. F[0] = h /\ \A m \in Nat : F[m + 1] = next[F[m]]
  BY <1>4
<1>7. \A k \in 0..n : F[k] = nd[k]
  <2> DEFINE S == {k \in Nat : k <= n /\ F[k] # nd[k]}
  <2>1. S = {}
    <3> SUFFICES ASSUME S # {} PROVE FALSE
      OBVIOUS
    <3>1. PICK k \in S : \A j \in S : k <= j
      BY Least
    <3>2. k # 0
      BY <1>1, <1>6, <3>1
    <3>3. PICK j \in Nat : k = j + 1
      BY <3>1, <3>2
    <3>4. j <= n /\ j \in 0..n /\ ~(k <= j)
      BY <1>1, <3>1, <3>3
    <3>5. F[j] = nd[j]
      BY <3>1, <3>4
    <3>6. F[k] = nd[k]
      BY <1>1, <1>6, <3>3, <3>4, <3>5
    <3> QED
      BY <3>1, <3>6
  <2> QED
    BY <1>1, <2>1
<1>8. \A m \in Nat : F[m] \in Members(l) \cup {h}
  <2> DEFINE S == {m \in Nat : F[m] \notin Members(l) \cup {h}}
  <2>1. ASSUME NEW x \in Members(l) \cup {h} PROVE next[x] \in Members(l) \cup {h}
    <3>1. PICK k \in 0..n : nd[k] = x
      <4>1. CASE x = h
        BY <1>1, <4>1
      <4>2. CASE x # h
        <5>1. PICK k \in 1..n : nd[k] = x
          BY <1>1, <4>2
        <5> QED
          BY <1>1, <5>1
      <4> QED
        BY <4>1, <4>2
    <3>2. next[x] = nd[k + 1] /\ (k + 1 \in 1..n \/ k + 1 = n + 1)
      BY <1>1, <3>1
    <3> QED
      BY <1>1, <3>2
  <2>2. S = {}
    <3> SUFFICES ASSUME S # {} PROVE FALSE
      OBVIOUS
    <3>1. PICK m \in S : \A j \in S : m <= j
      BY Least
    <3>2. m # 0
      BY <1>6, <3>1
    <3>3. PICK j \in Nat : m = j + 1
      BY <3>1, <3>2
    <3>4. ~(m <= j)
      BY <3>3
    <3>5. F[j] \in Members(l) \cup {h}
      BY <3>1, <3>4
    <3>6. F[m] = next[F[j]]
      BY <1>6, <3>3
    <3>7. F[m] \in Members(l) \cup {h}
      BY <2>1, <3>5, <3>6
    <3> QED
      BY <3>1, <3>7
  <2> QED
    BY <2>2
<1>9. ASSUME NEW x \in Members(l) PROVE x \in Reach(l)
  <2>1. PICK k \in 1..n : nd[k] = x
    BY <1>1
  <2>2. k \in 1..N /\ k \in 0..n
    BY <1>1, <1>2
  <2> QED
    BY <1>2, <1>5, <1>7, <2>1, <2>2
<1>10. ASSUME NEW x \in Reach(l) PROVE x \in Members(l)
  BY <1>2, <1>5, <1>8
<1> QED
  BY <1>9, <1>10

\* In a sublist nobody is in, the links lead to the elements that belong there, and
\* there and back again.
LEMMA FreeList ==
  ASSUME TypeOK, PlacesOK, NEW l \in Lists, ListOK(l), IsFree(l)
  PROVE  /\ Reach(l) = {e \in Elements : InPool(e) /\ get_key_hash(key[e]) = l}
         /\ \A x \in Reach(l) \cup {Head(l)} : prev[next[x]] = x /\ next[prev[x]] = x
         /\ \A x \in Reach(l) : next[x] \in Reach(l) => key[x] >= key[next[x]]
<1>1. PICK n, nd : Chain(l, n, nd)
  BY DEF ListOK
<1>2. PICK h, M, H : h = Head(l) /\ M = Members(l) /\ H = HalfSet
  OBVIOUS
<1>3. Reach(l) = M /\ h \notin M
  BY <1>1, <1>2, ReachIs, MembersFacts
<1>4. ASSUME NEW e \in Elements, get_key_hash(key[e]) = l
      PROVE  (InL(e) <=> InPool(e)) /\ e \notin HalfSet
  <2>1. /\ e[1] \in Threads /\ e = <<e[1], e[2]>> /\ e[2] \in Int /\ i[e[1]] \in Int
        /\ op[e[1]] \in {"insert", "length", "delete"}
    BY Domains, OptionsAssumption DEF TypeOK
  <2>2. InPool(e) <=> \/ op[e[1]] = "insert" /\ e[2] < i[e[1]]
                      \/ op[e[1]] = "length"
                      \/ op[e[1]] = "delete" /\ e[2] >= i[e[1]]
    <3>1. CASE op[e[1]] = "insert"
      BY <3>1 DEF InPool
    <3>2. CASE op[e[1]] = "length"
      BY <3>2 DEF InPool
    <3>3. CASE op[e[1]] = "delete"
      BY <3>3 DEF InPool
    <3> QED
      BY <2>1, <3>1, <3>2, <3>3
  <2>3. CASE e[2] # i[e[1]]
    BY <2>1, <2>2, <2>3 DEF InL, HalfSet
  <2>4. CASE e[2] = i[e[1]]
    <3>1. e = Element(e[1])
      BY <2>1, <2>4 DEF Element
    <3>2. op[e[1]] # "length" => ~InCall(e[1])
      BY <1>4, <2>1, <3>1 DEF IsFree, Sublist
    <3>3. pc[e[1]] \notin HalfPlaces
      BY <2>1, <3>2, LengthNotHalf DEF InCall, CallPlaces, HalfPlaces
    <3>4. op[e[1]] # "length" => pc[e[1]] \notin {"i_prev", "return"}
      BY <3>2 DEF InCall, CallPlaces
    <3> QED
      BY <2>1, <2>2, <2>4, <3>3, <3>4 DEF InL, HalfSet
  <2> QED
    BY <2>3, <2>4
<1>5. M = {e \in Elements : InPool(e) /\ get_key_hash(key[e]) = l}
  BY <1>2, <1>4 DEF Members
<1>6. \A x \in M : x \notin H
  BY <1>2, <1>4 DEF Members
<1>7. /\ n \in Nat /\ nd[0] = h /\ nd[n + 1] = h
      /\ \A k \in 1..n : nd[k] \in M
      /\ \A x \in M : \E k \in 1..n : nd[k] = x
      /\ \A k \in 0..n : next[nd[k]] = nd[k + 1]
      /\ \A k \in 1..(n + 1) : prev[nd[k]] = IF k > 1 /\ nd[k - 1] \in H THEN nd[k - 2] ELSE nd[k - 1]
      /\ \A j, k \in 1..n : j <= k => key[nd[j]] >= key[nd[k]]
  BY <1>1, <1>2 DEF Chain, IsChain
<1>8. \A k \in 1..(n + 1) : prev[nd[k]] = nd[k - 1]
  <2> SUFFICES ASSUME NEW k \in 1..(n + 1) PROVE prev[nd[k]] = nd[k - 1]
    OBVIOUS
  <2>1. k > 1 => k - 1 \in 1..n
    BY <1>7
  <2>2. ~(k > 1 /\ nd[k - 1] \in H)
    BY <1>6, <1>7, <2>1
  <2> QED
    BY <1>7, <2>2
<1>9. ASSUME NEW x \in M \cup {h} PROVE prev[next[x]] = x /\ next[prev[x]] = x
  <2>1. PICK k \in 0..n : nd[k] = x
    <3>1. CASE x = h
      BY <1>7, <3>1
    <3>2. CASE x # h
      BY <1>7, <3>2
    <3> QED
      BY <3>1, <3>2
  <2>2. next[x] = nd[k + 1] /\ k + 1 \in 1..(n + 1) /\ (k + 1) - 1 = k
    BY <1>7, <2>1
  <2>3. prev[next[x]] = x
    BY <1>8, <2>1, <2>2
  <2>4. PICK j \in 1..(n + 1) : nd[j] = x
    <3>1. CASE x = h
      BY <1>7, <3>1
    <3>2. CASE x # h
      BY <1>7, <3>2
    <3> QED
      BY <3>1, <3>2
  <2>5. prev[x] = nd[j - 1] /\ j - 1 \in 0..n /\ (j - 1) + 1 = j
    BY <1>7, <1>8, <2>4
  <2>6. next[prev[x]] = x
    BY <1>7, <2>4, <2>5
  <2> QED
    BY <2>3, <2>6
<1>10. ASSUME NEW x \in M, next[x] \in M PROVE key[x] >= key[next[x]]
  <2>1. PICK k \in 1..n : nd[k] = x
    BY <1>7
  <2>2. next[x] = nd[k + 1]
    BY <1>7, <2>1
  <2>3. k + 1 \in 1..n
    <3>1. k # n
      BY <1>3, <1>7, <1>10, <2>2
    <3> QED
      BY <1>7, <3>1
  <2> QED
    BY <1>7, <2>1, <2>2, <2>3
<1> QED
  BY <1>2, <1>3, <1>5, <1>9, <1>10

\* Whenever no thread is inside a sublist of a synchronised run, the sublist holds
\* exactly the elements inserted and not yet deleted, in order, with its links
\* both ways in agreement.
THEOREM FreeListsAreIntact == Spec => []FreeListsIntact
<1>1. WInv /\ SInv => FreeListsIntact
  <2> SUFFICES ASSUME WInv, SInv, sync_type # "n", NEW l \in Lists, IsFree(l)
               PROVE  /\ Reach(l) = {e \in Elements : InPool(e) /\ get_key_hash(key[e]) = l}
                      /\ \A x \in Reach(l) \cup {Head(l)} : prev[next[x]] = x /\ next[prev[x]] = x
                      /\ \A x \in Reach(l) : next[x] \in Reach(l) => key[x] >= key[next[x]]
    BY DEF FreeListsIntact
  <2>1. TypeOK /\ PlacesOK /\ ListOK(l)
    BY DEF WInv, SInv, Synced
  <2> QED
    BY <2>1, FreeList
<1> QED
  BY <1>1, ListInvHolds, PTL

\* The length a worker is given is that of its sublist at that moment.
THEOREM LengthHolds == Spec => []LengthIsExact
<1>1. WInv /\ SInv => LengthIsExact
  <2> SUFFICES ASSUME WInv, SInv, sync_type # "n",
                      NEW t \in Threads, At(t, "return"), op[t] = "length"
               PROVE  count[t] = Cardinality(Reach(Sublist(t)))
    BY DEF LengthIsExact
  <2>1. TypeOK /\ PlacesOK /\ t \in Procs /\ pc[t] = "return" /\ InCall(t)
    BY Domains DEF WInv, At, InCall, CallPlaces
  <2>2. PICK l \in Lists : l = Sublist(t)
    BY <2>1, Arguments DEF InCall
  <2>3. ListOK(l)
    BY DEF SInv, Synced
  <2>4. PICK n, nd : Chain(l, n, nd) /\ Frame(t, n, nd)
    BY <2>1, <2>2, <2>3 DEF ListOK
  <2>5. count[t] = n
    BY <2>1, <2>4 DEF Frame, FrameOK
  <2>6. Reach(l) = Members(l) /\ Cardinality(Members(l)) = n
    BY <2>1, <2>4, ReachIs, ChainLength
  <2> QED
    BY <2>2, <2>5, <2>6
<1> QED
  BY <1>1, ListInvHolds, PTL

-----------------------------------------------------------------------------
\* The refinement.  An element is in the set of its sublist as long as the links
\* forth lead to it; a run without locks leaves the sets empty.
SetOf(e)  == IF InL(e) THEN get_key_hash(key[e]) ELSE IF op[e[1]] = "delete" THEN -1 ELSE 0
WhereIs   == Where = [e \in Elements |-> SetOf(e)]
Showing   == IF sync_type = "n" THEN Where = [e \in Elements |-> 0] ELSE WhereIs

\* The links say where an element is.
LEMMA WhereHolds ==
  ASSUME WInv, SInv, sync_type # "n"
  PROVE  WhereIs
<1>1. TypeOK /\ \A l \in Lists : ListOK(l)
  BY DEF WInv, SInv, Synced
<1>2. ASSUME NEW l \in Lists PROVE Reach(l) = Members(l)
  <2>1. PICK n, nd : Chain(l, n, nd)
    BY <1>1 DEF ListOK
  <2> QED
    BY <1>1, <2>1, ReachIs
<1> DEFINE reach == [l \in Lists |-> Reach(l)]
<1>3. ASSUME NEW e \in Elements
      PROVE  (IF \E l \in Lists : e \in reach[l] THEN CHOOSE l \in Lists : e \in reach[l]
              ELSE IF op[e[1]] = "delete" THEN -1 ELSE 0) = SetOf(e)
  <2>1. PICK h \in Lists : h = get_key_hash(key[e])
    BY <1>1, HashInRange DEF TypeOK
  <2>2. \A l \in Lists : e \in reach[l] <=> InL(e) /\ l = h
    BY <1>2, <2>1 DEF Members
  <2> HIDE DEF reach
  <2>3. CASE InL(e)
    <3>1. \E l \in Lists : e \in reach[l]
      BY <2>1, <2>2, <2>3
    <3>2. (CHOOSE l \in Lists : e \in reach[l]) = h
      BY <2>2, <2>3, <3>1
    <3> QED
      BY <2>1, <2>3, <3>1, <3>2 DEF SetOf
  <2>4. CASE ~InL(e)
    <3>1. ~\E l \in Lists : e \in reach[l]
      BY <2>2, <2>4
    <3> QED
      BY <2>4, <3>1 DEF SetOf
  <2> QED
    BY <2>3, <2>4
<1> HIDE DEF reach
<1>4. Where = [e \in Elements |->
         IF sync_type = "n" THEN 0
         ELSE IF \E l \in Lists : e \in reach[l] THEN CHOOSE l \in Lists : e \in reach[l]
         ELSE IF op[e[1]] = "delete" THEN -1 ELSE 0]
  BY DEF Where, reach
<1> QED
  BY <1>3, <1>4 DEF WhereIs

\* A step of main() outside the calls changes nothing about which elements are linked in.
LEMMA MainLinks ==
  ASSUME TypeOK, Phases, Fail \/ GetOpts \/ Create \/ Join \/ CheckList \/ ListChecked \/ Report,
         NEW e \in Elements
  PROVE  (InL(e)' <=> InL(e)) /\ op'[e[1]] = op[e[1]] /\ key' = key
<1>1. e[1] \in Threads /\ e[1] \in Procs /\ MainT \in Procs /\ e[1] # MainT
  BY Domains
<1>2. op' = op /\ key' = key
  BY DEF Fail, GetOpts, Create, Join, CheckList, ListChecked, Report
<1>3. i'[e[1]] = i[e[1]]
  BY <1>1 DEF Fail, GetOpts, Create, Join, CheckList, ListChecked, Report, TypeOK
<1>4. CASE Create /\ i[MainT] <= n_threads /\ e[1] = i[MainT]
  <2>1. pc[e[1]] = "none" /\ pc'[e[1]] = "loop"
    <3>1. e[1] \in Int /\ pc[MainT] = "create"
      BY <1>1, <1>4, OptionsAssumption DEF Create, At, Threads
    <3>2. pc[e[1]] = "none"
      BY <1>1, <1>4, <3>1 DEF Phases
    <3> QED
      BY <1>1, <1>4, <3>2 DEF Create, TypeOK
  <2> QED
    BY <1>2, <1>3, <2>1 DEF InL
<1>5. CASE ~(Create /\ i[MainT] <= n_threads /\ e[1] = i[MainT])
  <2>1. pc'[e[1]] = pc[e[1]]
    BY <1>1, <1>5 DEF Fail, GetOpts, Create, Join, CheckList, ListChecked, Report, Moves, TypeOK
  <2> QED
    BY <1>2, <1>3, <2>1 DEF InL
<1> QED
  BY <1>4, <1>5

\* A step of a call puts its element in at the store of `i_next', takes it out at the
\* store of `d_un6', and otherwise changes nothing about which elements are linked in.
LEMMA CallLinks ==
  ASSUME WInv, WInv', NEW p \in Procs, ListCall(p)
  PROVE  /\ op' = op /\ key' = key
         /\ \/ \A e \in Elements : InL(e)' <=> InL(e)
            \/ /\ Element(p) \in Elements
               /\ \A e \in Elements : e # Element(p) => (InL(e)' <=> InL(e))
               /\ \/ op[p] = "insert" /\ ~InL(Element(p)) /\ InL(Element(p))'
                  \/ op[p] = "delete" /\ InL(Element(p)) /\ ~InL(Element(p))'
<1>1. TypeOK /\ PlacesOK /\ TypeOK' /\ PlacesOK'
  BY DEF WInv
<1>2. OnlyMoves(p) /\ InCall(p) /\ InCall(p)'
  BY <1>1, CallMoves
<1>3. op' = op /\ key' = key /\ i' = i
  BY <1>2 DEF OnlyMoves
<1>4. \A e \in Elements : e # Element(p) => (InL(e)' <=> InL(e))
  BY <1>1, <1>2, OtherElements
<1>5. CASE op[p] = "length"
  <2>1. ASSUME NEW e \in Elements, e = Element(p) PROVE InL(e)' <=> InL(e)
    <3>1. e[1] = p
      BY <2>1 DEF Element
    <3> QED
      BY <1>3, <1>5, <3>1 DEF InL
  <2>2. ASSUME NEW e \in Elements PROVE InL(e)' <=> InL(e)
    BY <1>4, <2>1
  <2> QED
    BY <1>3, <2>2
<1>6. CASE op[p] # "length"
  <2>1. Element(p) \in Elements /\ op[p] \in {"insert", "delete"} /\ i[p] \in Nat
    BY <1>1, <1>2, <1>6, CurrentElement DEF TypeOK
  <2>2. (InL(Element(p)) <=> CurIn(p)) /\ (InL(Element(p))' <=> CurIn(p)')
    BY <1>3, <2>1 DEF InL, CurIn, Element
  <2>3. (CurIn(p)' <=> CurIn(p)) \/ (op[p] = "insert" /\ ~CurIn(p) /\ CurIn(p)')
                                 \/ (op[p] = "delete" /\ CurIn(p) /\ ~CurIn(p)')
    <3>1. CASE op[p] = "insert" /\ CurIn(p)
      <4>1. pc[p] \in {"i_prev", "return"}
        BY <3>1 DEF CurIn
      <4>2. pc'[p] = "return"
        BY <1>1, <4>1 DEF ListCall, SortedList_length, SortedList_insert, SortedList_lookup,
             SortedList_delete, InsertWalk, InsertSelf, LoadA, LoadB, Check, StoreNext, StorePrev,
             At, Moves, TypeOK
      <4> QED
        BY <1>3, <3>1, <4>2 DEF CurIn
    <3>2. CASE op[p] = "insert" /\ ~CurIn(p)
      BY <1>3, <3>2
    <3>3. CASE op[p] = "delete"
      <4>1. pc[p] # "return"
        BY DEF ListCall, SortedList_length, SortedList_insert, SortedList_lookup,
             SortedList_delete, InsertWalk, InsertSelf, LoadA, LoadB, Check, StoreNext, StorePrev, At
      <4> QED
        BY <3>3, <4>1 DEF CurIn
    <3> QED
      BY <2>1, <3>1, <3>2, <3>3
  <2>4. CASE CurIn(p)' <=> CurIn(p)
    <3>1. ASSUME NEW e \in Elements, e = Element(p) PROVE InL(e)' <=> InL(e)
      <4>1. Element(p)' = e
        BY <1>3, <3>1 DEF Element
      <4> QED
        BY <2>2, <2>4, <3>1, <4>1
    <3>2. ASSUME NEW e \in Elements PROVE InL(e)' <=> InL(e)
      BY <1>4, <3>1
    <3> QED
      BY <1>3, <3>2
  <2>5. CASE ~(CurIn(p)' <=> CurIn(p))
    BY <1>3, <1>4, <2>1, <2>2, <2>3, <2>5
  <2> QED
    BY <2>4, <2>5
<1> QED
  BY <1>5, <1>6

\* No step but these has any effect on the sets.
LEMMA SetsSame ==
  ASSUME key' = key, \A e \in Elements : InL(e)' <=> InL(e),
         \A e \in Elements : ~InL(e) => (op'[e[1]] = "delete" <=> op[e[1]] = "delete")
  PROVE  \A e \in Elements : SetOf(e)' = SetOf(e)
<1> SUFFICES ASSUME NEW e \in Elements PROVE SetOf(e)' = SetOf(e)
  OBVIOUS
<1>1. get_key_hash(key[e])' = get_key_hash(key[e])
  BY DEF get_key_hash
<1> QED
  BY <1>1 DEF SetOf

\* Every step of a run maps to a step of the sets, or to none.
LEMMA SetsStep ==
  ASSUME WInv, WInv', Phases, WhereIs, WhereIs', [Next]_vars
  PROVE  [Sets!Next]_<<[e \in Elements |-> get_key_hash(key[e])], Where>>
<1> DEFINE home == [e \in Elements |-> get_key_hash(key[e])]
<1>1. TypeOK /\ PlacesOK
  BY DEF WInv
<1>2. /\ MainT \in Procs /\ MainT \notin Threads /\ Threads \subseteq Procs
      /\ \A e \in Elements : e[1] \in Threads
  BY Domains
<1>3. PICK W, V : /\ W = Where /\ V = Where'
                  /\ W = [e \in Elements |-> SetOf(e)] /\ V = [e \in Elements |-> SetOf(e)']
  BY DEF WhereIs
<1>4. ASSUME key' = key, \A e \in Elements : InL(e)' <=> InL(e),
             \A e \in Elements : ~InL(e) => (op'[e[1]] = "delete" <=> op[e[1]] = "delete")
      PROVE  UNCHANGED <<home, Where>>
  <2>1. \A e \in Elements : SetOf(e)' = SetOf(e)
    BY <1>4, SetsSame
  <2>2. V = W
    BY <1>3, <2>1
  <2>3. home' = home
    BY <1>4 DEF get_key_hash
  <2> QED
    BY <1>3, <2>2, <2>3
<1>5. CASE UNCHANGED vars \/ Ended \/ \E p \in Procs : sig_corrupt(p)
  <2>1. key' = key /\ op' = op /\ i' = i /\ pc' = pc
    BY <1>5 DEF Ended, vars, sig_corrupt
  <2>2. \A e \in Elements : InL(e)' <=> InL(e)
    BY <2>1 DEF InL
  <2> QED
    BY <1>4, <2>1, <2>2
<1>6. CASE Fail \/ GetOpts \/ Create \/ Join \/ CheckList \/ ListChecked \/ Report
  <2>1. \A e \in Elements : (InL(e)' <=> InL(e)) /\ op'[e[1]] = op[e[1]]
    BY <1>1, <1>6, MainLinks
  <2>2. key' = key
    BY <1>6 DEF Fail, GetOpts, Create, Join, CheckList, ListChecked, Report
  <2> QED
    BY <1>4, <2>1, <2>2
<1>7. ASSUME NEW t \in Threads,
             Loop(t) \/ NoLock(t) \/ MutexLock(t) \/ TestAndSet(t) \/ Spin(t) \/ Unlock(t)
      PROVE  UNCHANGED <<home, Where>>
  <2>1. \A e \in Elements : InL(e)' <=> InL(e)
    BY <1>1, <1>7, WorkerLinks
  <2>2. key' = key
    BY <1>7 DEF Loop, NoLock, MutexLock, TestAndSet, Spin, Unlock
  <2>3. ASSUME NEW e \in Elements, ~InL(e) PROVE op'[e[1]] = "delete" <=> op[e[1]] = "delete"
    <3>1. op[e[1]] # "length"
      BY <2>3 DEF InL
    <3>2. e[1] \in Procs /\ t \in Procs
      BY <1>2
    <3> QED
      BY <1>1, <1>7, <3>1, <3>2 DEF Loop, NoLock, MutexLock, TestAndSet, Spin, Unlock, TypeOK
  <2> QED
    BY <1>4, <2>1, <2>2, <2>3
<1>8. ASSUME NEW p \in Procs, ListCall(p) PROVE [Sets!Next]_<<home, Where>>
  <2>1. op' = op /\ key' = key
    BY <1>8, CallLinks
  <2>2. CASE \A e \in Elements : InL(e)' <=> InL(e)
    BY <1>4, <2>1, <2>2
  <2>3. CASE /\ Element(p) \in Elements
             /\ \A e \in Elements : e # Element(p) => (InL(e)' <=> InL(e))
             /\ \/ op[p] = "insert" /\ ~InL(Element(p)) /\ InL(Element(p))'
                \/ op[p] = "delete" /\ InL(Element(p)) /\ ~InL(Element(p))'
    <3>1. PICK x \in Elements : x = Element(p)
      BY <2>3
    <3>2. x[1] = p
      BY <3>1 DEF Element
    <3>3. Element(p)' = x
      BY <1>8, <3>1 DEF Element, ListCall
    <3>4. \/ op[p] = "insert" /\ ~InL(x) /\ InL(x)'
          \/ op[p] = "delete" /\ InL(x) /\ ~InL(x)'
      BY <2>3, <3>1, <3>3
    <3>5. home' = home
      BY <2>1 DEF get_key_hash
    <3>6. ASSUME NEW e \in Elements, e # x PROVE SetOf(e)' = SetOf(e)
      <4>1. (InL(e)' <=> InL(e)) /\ get_key_hash(key[e])' = get_key_hash(key[e])
        BY <2>1, <2>3, <3>1, <3>6 DEF get_key_hash
      <4> QED
        BY <2>1, <4>1 DEF SetOf
    <3>7. V = [W EXCEPT ![x] = SetOf(x)']
      BY <1>3, <3>6
    <3>8. get_key_hash(key[x])' = get_key_hash(key[x]) /\ home[x] = get_key_hash(key[x])
      BY <2>1 DEF get_key_hash
    <3>9. CASE op[p] = "insert" /\ ~InL(x) /\ InL(x)'
      <4>1. W[x] = 0 /\ SetOf(x)' = home[x]
        BY <1>3, <3>2, <3>8, <3>9 DEF SetOf
      <4> HIDE DEF home
      <4>2. Where[x] = 0 /\ Where' = [Where EXCEPT ![x] = home[x]] /\ home' = home
        BY <1>3, <3>5, <3>7, <4>1
      <4>3. Sets!Insert(x)
        BY <4>2 DEF Sets!Insert, Sets!Fresh, home
      <4> QED
        BY <4>3 DEF Sets!Next
    <3>10. CASE op[p] = "delete" /\ InL(x) /\ ~InL(x)'
      <4>1. W[x] = home[x] /\ SetOf(x)' = -1
        BY <1>3, <2>1, <3>2, <3>8, <3>10 DEF SetOf
      <4>2. ASSUME NEW f \in Elements, f[1] = x[1] PROVE W[f] # 0
        <5>1. get_key_hash(key[f]) \in Lists
          BY <1>1, HashInRange DEF TypeOK
        <5>2. SetOf(f) \in Lists \/ SetOf(f) = -1
          BY <3>2, <3>10, <4>2, <5>1 DEF SetOf
        <5>3. 0 \notin Lists
          BY OptionsAssumption DEF Lists
        <5> QED
          BY <1>3, <5>2, <5>3
      <4> HIDE DEF home
      <4>3. Where[x] = home[x] /\ Where' = [Where EXCEPT ![x] = -1] /\ home' = home
        BY <1>3, <3>5, <3>7, <4>1
      <4>4. \A f \in Elements : f[1] = x[1] => Where[f] # 0
        BY <1>3, <4>2
      <4>5. Sets!Delete(x)
        BY <4>3, <4>4 DEF Sets!Delete, Sets!Gone, Sets!Fresh, home
      <4> QED
        BY <4>5 DEF Sets!Next
    <3> QED
      BY <3>4, <3>9, <3>10
  <2> QED
    BY <1>8, <2>2, <2>3, CallLinks
<1> QED
  BY <1>2, <1>5, <1>6, <1>7, <1>8 DEF Next, Main, Worker

\* Before the options are read no worker exists, so that no element is linked in.
LEMMA NothingYet ==
  ASSUME Phases, pc[MainT] = "opts"
  PROVE  \A e \in Elements : SetOf(e) = 0
<1> SUFFICES ASSUME NEW e \in Elements PROVE SetOf(e) = 0
  OBVIOUS
<1>1. e[1] \in Threads /\ e[2] \in 1..n_iterations
  BY Domains
<1>2. op[e[1]] = "insert" /\ i[e[1]] = 1 /\ pc[e[1]] = "none"
  BY <1>1 DEF Phases
<1>3. ~(e[2] < 1)
  BY <1>1, OptionsAssumption
<1> QED
  BY <1>2, <1>3 DEF SetOf, InL

\* The mode is only chosen when the options are read.
LEMMA ModeKept ==
  ASSUME [Next]_vars, ~GetOpts
  PROVE  sync_type' = sync_type
BY DEF Next, Main, Worker, Ended, Fail, Create, Join, CheckList, ListChecked, Report, ListCall,
       sig_corrupt, Loop, NoLock, MutexLock, TestAndSet, Spin, Unlock, vars

\* The same of every mode: a run without locks maps to no step of the sets.
LEMMA ShowingStep ==
  ASSUME WInv, WInv', Phases, Phases', Showing, Showing', [Next]_vars
  PROVE  [Sets!Next]_<<[e \in Elements |-> get_key_hash(key[e])], Where>>
<1>1. key' = key
  BY DEF Next, Main, Worker, Ended, Fail, GetOpts, Create, Join, CheckList, ListChecked, Report,
         ListCall, sig_corrupt, Loop, NoLock, MutexLock, TestAndSet, Spin, Unlock, vars
<1>2. [e \in Elements |-> get_key_hash(key[e])]' = [e \in Elements |-> get_key_hash(key[e])]
  BY <1>1 DEF get_key_hash
<1>3. CASE GetOpts
  <2>1. \A e \in Elements : SetOf(e) = 0
    BY <1>3, NothingYet DEF GetOpts, At
  <2>2. ASSUME NEW e \in Elements PROVE SetOf(e)' = SetOf(e)
    <3>1. (InL(e)' <=> InL(e)) /\ op'[e[1]] = op[e[1]]
      BY <1>3, MainLinks DEF WInv
    <3> QED
      BY <1>1, <3>1 DEF SetOf, get_key_hash
  <2>3. Where = [e \in Elements |-> 0]
    BY <2>1 DEF Showing, WhereIs
  <2>4. Where' = [e \in Elements |-> 0]
    BY <2>1, <2>2 DEF Showing, WhereIs
  <2> QED
    BY <1>2, <2>3, <2>4
<1>4. CASE ~GetOpts /\ sync_type = "n"
  <2>1. Where' = Where
    BY <1>4, ModeKept DEF Showing
  <2> QED
    BY <1>2, <2>1
<1>5. CASE ~GetOpts /\ sync_type # "n"
  <2>1. WhereIs /\ WhereIs'
    BY <1>5, ModeKept DEF Showing
  <2> QED
    BY <2>1, SetsStep
<1> QED
  BY <1>3, <1>4, <1>5

\* In a synchronised run an insertion and a deletion each show to all other threads
\* as one step, however many loads and stores they take, and every element is put
\* into the sublist of its key once and taken out once.
THEOREM ListsAreSets == Spec => ImplementsSets
<1>1. WInv /\ SInv => Showing
  <2>1. CASE sync_type = "n"
    BY <2>1 DEF Showing, Where
  <2>2. CASE sync_type # "n"
    BY <2>2, WhereHolds DEF Showing
  <2> QED
    BY <2>1, <2>2
<1>2. Init /\ Phases /\ Showing => Sets!Init
  <2> SUFFICES ASSUME Init, Phases, Showing PROVE Sets!Init
    OBVIOUS
  <2>1. Where = [e \in Elements |-> 0]
    BY DEF Init, Showing
  <2>2. ASSUME NEW e \in Elements PROVE get_key_hash(key[e]) \in Lists
    <3>1. key[e] \in Keys
      BY KeysAssumption DEF Init
    <3> QED
      BY <3>1, HashInRange
  <2> QED
    BY <2>1, <2>2 DEF Sets!Init, Sets!Fresh
<1>3. WInv /\ WInv' /\ Phases /\ Phases' /\ Showing /\ Showing' /\ [Next]_vars =>
        [Sets!Next]_<<[e \in Elements |-> get_key_hash(key[e])], Where>>
  BY ShowingStep
<1> QED
  BY <1>1, <1>2, <1>3, ListInvHolds, PTL DEF Spec, ImplementsSets, Sets!Spec

-----------------------------------------------------------------------------
\* The waits.
\* A step that is not worker t's leaves its waits alone.
LEMMA WaitsSame ==
  ASSUME NEW t \in Threads, op'[t] = op[t], i'[t] = i[t], InCall(t)' <=> InCall(t)
  PROVE  WaitsOf(t)' = WaitsOf(t)
  BY DEF WaitsOf

\* What a step of worker t may do to the waits.
LEMMA WorkerWaits ==
  ASSUME TypeOK, TypeOK', Phases, Waited, NEW t \in Threads, Worker(t)
  PROVE  /\ \A u \in Threads : thrd_lock_wait'[u] = WaitsOf(u)'
         /\ pc'[MainT] = pc[MainT] /\ i'[MainT] = i[MainT]
         /\ total_lock_wait' = total_lock_wait /\ status' # 0
<1>1. /\ t \in Procs /\ t # MainT /\ MainT \in Procs /\ Threads \subseteq Procs
      /\ n_iterations \in Nat /\ n_lists \in Nat
  BY Domains, OptionsAssumption
<1>2. /\ \A u \in Procs : u # t => pc'[u] = pc[u] /\ op'[u] = op[u] /\ i'[u] = i[u]
      /\ \A u \in Threads : u # t => thrd_lock_wait'[u] = thrd_lock_wait[u]
      /\ total_lock_wait' = total_lock_wait
  <2>1. CASE ListCall(t)
    BY <1>1, <2>1, CallMoves DEF OnlyMoves, stats
  <2>2. CASE sig_corrupt(t)
    BY <2>2 DEF sig_corrupt, stats
  <2>3. CASE Loop(t) \/ NoLock(t) \/ MutexLock(t) \/ TestAndSet(t) \/ Spin(t) \/ Unlock(t)
    BY <1>1, <2>3 DEF Loop, NoLock, MutexLock, TestAndSet, Spin, Unlock, Acquired, Moves, TypeOK,
       stats
  <2> QED
    BY <2>1, <2>2, <2>3 DEF Worker
<1>3. status' # 0
  BY DEF Worker, Running, Loop, NoLock, MutexLock, TestAndSet, Spin, Unlock, ListCall, sig_corrupt
<1>4. ASSUME NEW u \in Threads, u # t PROVE thrd_lock_wait'[u] = WaitsOf(u)'
  <2>1. InCall(u)' <=> InCall(u)
    BY <1>1, <1>2, <1>4 DEF InCall
  <2>2. WaitsOf(u)' = WaitsOf(u)
    BY <1>1, <1>2, <1>4, <2>1, WaitsSame
  <2> QED
    BY <1>2, <1>4, <2>2 DEF Waited
<1>5. thrd_lock_wait'[t] = WaitsOf(t)'
  <2>1. PICK w, k \in Nat : w = thrd_lock_wait[t] /\ k = i[t] /\ w = WaitsOf(t)
    BY <1>1 DEF TypeOK, Waited
  <2> DEFINE base == IF op[t] = "insert" THEN 0
                     ELSE IF op[t] = "length" THEN n_iterations ELSE n_iterations + n_lists
  <2>2. base \in Nat
    BY <1>1
  <2> HIDE DEF base
  <2>3. CASE ListCall(t)
    <3>1. op' = op /\ i' = i /\ InCall(t) /\ InCall(t)' /\ thrd_lock_wait' = thrd_lock_wait
      BY <1>1, <2>3, CallMoves DEF OnlyMoves, stats
    <3> QED
      BY <2>1, <3>1, WaitsSame
  <2>4. CASE sig_corrupt(t) \/ Spin(t) \/ (Loop(t) /\ op' = op /\ i' = i)
    <3>1. op' = op /\ i' = i /\ thrd_lock_wait' = thrd_lock_wait
      BY <2>4 DEF sig_corrupt, Spin, Loop, stats
    <3>2. InCall(t)' <=> InCall(t)
      BY <1>1, <2>4 DEF sig_corrupt, Spin, Loop, At, Moves, InCall, CallPlaces, TypeOK
    <3> QED
      BY <2>1, <3>1, <3>2, WaitsSame
  <2>5. CASE Loop(t) /\ ~(op' = op /\ i' = i)
    <3>1. /\ k > LoopBound(t) /\ k <= LoopBound(t) + 1 /\ i'[t] = 1 /\ thrd_lock_wait' = thrd_lock_wait
          /\ \/ op[t] = "insert" /\ op'[t] = "length"
             \/ op[t] = "length" /\ op'[t] = "delete"
      BY <1>1, <2>1, <2>5 DEF Loop, TypeOK, Phases, stats
    <3>2. ~InCall(t) /\ ~InCall(t)'
      BY <2>5 DEF Loop, At, InCall, CallPlaces
    <3>3. k = LoopBound(t) + 1
      BY <1>1, <3>1 DEF LoopBound
    <3>4. CASE op[t] = "insert" /\ op'[t] = "length"
      <4>1. w = 0 + (k - 1) + 0 /\ k = n_iterations + 1
        BY <2>1, <3>2, <3>3, <3>4 DEF WaitsOf, LoopBound
      <4>2. WaitsOf(t)' = n_iterations + (1 - 1) + 0
        BY <3>1, <3>2, <3>4 DEF WaitsOf
      <4>3. w = n_iterations + (1 - 1) + 0
        BY <1>1, <4>1
      <4> QED
        BY <2>1, <3>1, <4>2, <4>3
    <3>5. CASE op[t] = "length" /\ op'[t] = "delete"
      <4>1. w = n_iterations + (k - 1) + 0 /\ k = n_lists + 1
        BY <2>1, <3>2, <3>3, <3>5 DEF WaitsOf, LoopBound
      <4>2. WaitsOf(t)' = (n_iterations + n_lists) + (1 - 1) + 0
        BY <3>1, <3>2, <3>5 DEF WaitsOf
      <4>3. w = (n_iterations + n_lists) + (1 - 1) + 0
        BY <1>1, <4>1
      <4> QED
        BY <2>1, <3>1, <4>2, <4>3
    <3> QED
      BY <3>1, <3>4, <3>5
  <2>6. CASE NoLock(t) \/ MutexLock(t) \/ TestAndSet(t)
    <3>1. op' = op /\ i' = i /\ ~InCall(t)
      BY <2>6 DEF NoLock, MutexLock, TestAndSet, At, InCall, CallPlaces
    <3>2. Entry(t) \in {"insert", "length", "lookup"}
      BY <1>1 DEF Entry, TypeOK
    <3>3. \/ thrd_lock_wait'[t] = w + 1 /\ InCall(t)'
          \/ thrd_lock_wait'[t] = w /\ ~InCall(t)'
      <4>1. CASE Acquired(t)
        <5>1. thrd_lock_wait'[t] = w + 1 /\ pc'[t] = Entry(t)
          BY <1>1, <2>1, <4>1 DEF Acquired, Moves, TypeOK
        <5> QED
          BY <3>2, <5>1 DEF InCall, CallPlaces
      <4>2. CASE Moves(t, "spin") /\ UNCHANGED thrd_lock_wait
        <5>1. thrd_lock_wait'[t] = w /\ pc'[t] = "spin"
          BY <1>1, <2>1, <4>2 DEF Moves, TypeOK
        <5> QED
          BY <5>1 DEF InCall, CallPlaces
      <4> QED
        BY <2>6, <4>1, <4>2 DEF NoLock, MutexLock, TestAndSet
    <3>4. CASE thrd_lock_wait'[t] = w + 1 /\ InCall(t)'
      <4>1. w = base + (k - 1) + 0
        BY <2>1, <3>1 DEF WaitsOf, base
      <4>2. WaitsOf(t)' = base + (k - 1) + 1
        BY <2>1, <3>1, <3>4 DEF WaitsOf, base
      <4>3. w + 1 = base + (k - 1) + 1
        BY <2>2, <4>1
      <4> QED
        BY <3>4, <4>2, <4>3
    <3>5. CASE thrd_lock_wait'[t] = w /\ ~InCall(t)'
      BY <2>1, <3>1, <3>5 DEF WaitsOf
    <3> QED
      BY <3>3, <3>4, <3>5
  <2>7. CASE Unlock(t)
    <3>1. op' = op /\ i'[t] = k + 1 /\ InCall(t) /\ ~InCall(t)' /\ thrd_lock_wait' = thrd_lock_wait
      BY <1>1, <2>1, <2>7 DEF Unlock, At, Moves, InCall, CallPlaces, TypeOK, stats
    <3>2. w = base + (k - 1) + 1
      BY <2>1, <3>1 DEF WaitsOf, base
    <3>3. WaitsOf(t)' = base + ((k + 1) - 1) + 0
      BY <3>1 DEF WaitsOf, base
    <3>4. w = base + ((k + 1) - 1) + 0
      BY <2>2, <3>2
    <3> QED
      BY <2>1, <3>1, <3>3, <3>4
  <2> QED
    BY <2>3, <2>4, <2>5, <2>6, <2>7 DEF Worker
<1> QED
  BY <1>1, <1>2, <1>3, <1>4, <1>5

\* Every step keeps the books on the waits.
LEMMA WaitedStep == WInv /\ WInv' /\ Phases /\ Waited /\ [Next]_vars => Waited'
<1> SUFFICES ASSUME WInv, WInv', Phases, Waited, [Next]_vars PROVE Waited'
  OBVIOUS
<1>1. TypeOK /\ TypeOK' /\ PlacesOK
  BY DEF WInv
<1>2. /\ MainT \in Procs /\ MainT \notin Threads /\ Threads \subseteq Procs
      /\ n_threads \in Nat /\ n_iterations \in Nat /\ n_lists \in Nat
  BY Domains, OptionsAssumption
<1>3. PICK A, N \in Nat : A = AllWaits /\ N = n_threads * AllWaits /\ N = n_threads * A
  BY <1>2 DEF AllWaits
<1>4. PICK k, T \in Nat : k = i[MainT] /\ T = total_lock_wait /\ k >= 1
  BY <1>1, <1>2 DEF TypeOK
<1>5. ASSUME NEW t \in Threads, Worker(t) PROVE Waited'
  <2>1. /\ \A u \in Threads : thrd_lock_wait'[u] = WaitsOf(u)'
        /\ pc'[MainT] = pc[MainT] /\ i'[MainT] = i[MainT]
        /\ total_lock_wait' = total_lock_wait /\ status' # 0
    BY <1>1, <1>5, WorkerWaits
  <2> QED
    BY <2>1 DEF Waited, AllWaits
<1>6. CASE UNCHANGED vars \/ Ended
  <2>1. UNCHANGED <<pc, op, i, stats, status>>
    BY <1>6 DEF Ended, vars
  <2>2. \A t \in Threads : WaitsOf(t)' = WaitsOf(t)
    BY <2>1 DEF WaitsOf, InCall
  <2> QED
    BY <2>1, <2>2 DEF Waited, stats, AllWaits
<1>7. CASE Main
  <2>1. thrd_lock_wait' = thrd_lock_wait
    BY <1>7 DEF Main, Fail, GetOpts, Create, Join, CheckList, ListChecked, Report, ListCall,
       sig_corrupt, stats
  <2>2. ASSUME NEW t \in Threads PROVE thrd_lock_wait'[t] = WaitsOf(t)'
    <3>1. t \in Procs /\ t # MainT
      BY <1>2
    <3>2. op'[t] = op[t] /\ i'[t] = i[t]
      BY <1>1, <1>2, <1>7, <3>1 DEF Main, Fail, GetOpts, Create, Join, CheckList, ListChecked,
         Report,
           ListCall, sig_corrupt, TypeOK
    <3>3. InCall(t)' <=> InCall(t)
      <4>1. CASE ListCall(MainT)
        BY <1>1, <1>2, <3>1, <4>1, CallMoves DEF OnlyMoves, InCall
      <4>2. CASE Create
        <5>1. CASE k <= n_threads /\ t = k
          <6>1. pc[t] = "none"
            BY <1>4, <4>2, <5>1 DEF Phases, Create, At
          <6>2. pc'[t] = "loop"
            BY <1>1, <1>4, <3>1, <4>2, <5>1 DEF Create, TypeOK
          <6> QED
            BY <6>1, <6>2 DEF InCall, CallPlaces
        <5>2. CASE ~(k <= n_threads /\ t = k)
          <6>1. pc'[t] = pc[t]
            BY <1>1, <1>4, <3>1, <4>2, <5>2 DEF Create, Moves, TypeOK
          <6> QED
            BY <6>1 DEF InCall
        <5> QED
          BY <5>1, <5>2
      <4>3. CASE Fail \/ GetOpts \/ Join \/ CheckList \/ ListChecked \/ Report \/ sig_corrupt(MainT)
        <5>1. pc'[t] = pc[t]
          BY <1>1, <1>2, <3>1, <4>3 DEF Fail, GetOpts, Join, CheckList, ListChecked, Report,
             sig_corrupt, Moves, TypeOK
        <5> QED
          BY <5>1 DEF InCall
      <4> QED
        BY <1>7, <4>1, <4>2, <4>3 DEF Main
    <3> QED
      BY <2>1, <3>2, <3>3, WaitsSame DEF Waited
  <2>3. AllWaits' = AllWaits
    BY DEF AllWaits
  <2>4. CASE Fail \/ sig_corrupt(MainT)
    <3>1. UNCHANGED <<pc, i, stats>> /\ status' # 0
      BY <2>4 DEF Fail, sig_corrupt
    <3> QED
      BY <2>2, <2>3, <3>1 DEF Waited, stats
  <2>5. CASE GetOpts \/ (Create /\ k <= n_threads)
    <3>1. /\ pc[MainT] \in {"opts", "create"} /\ pc'[MainT] = "create" /\ total_lock_wait' = T /\ status' # 0
      BY <1>1, <1>2, <1>4, <1>7, <2>5 DEF Main, GetOpts, Create, At, Moves, TypeOK, stats,
         Running, MainT
    <3>2. T = 0
      BY <1>4, <3>1 DEF Waited
    <3> QED
      BY <2>2, <3>1, <3>2 DEF Waited, CallPlaces
  <2>6. CASE Create /\ ~(k <= n_threads)
    <3>1. /\ pc[MainT] = "create" /\ pc'[MainT] = "join" /\ i'[MainT] = 1 /\ total_lock_wait' = T /\ status' # 0
      BY <1>1, <1>2, <1>4, <1>7, <2>6 DEF Main, Create, At, Moves, TypeOK, stats, Running
    <3>2. T = 0 /\ (1 - 1) * A = 0
      BY <1>3, <1>4, <3>1 DEF Waited
    <3> QED
      BY <1>3, <2>2, <2>3, <3>1, <3>2 DEF Waited, CallPlaces
  <2>7. CASE Join /\ k <= n_threads
    <3>1. /\ pc[MainT] = "join" /\ pc'[MainT] = "join" /\ i'[MainT] = k + 1 /\ status' # 0
          /\ pc[k] = "returned" /\ total_lock_wait' = T + thrd_lock_wait[k]
      BY <1>1, <1>2, <1>4, <1>7, <2>7 DEF Main, Join, At, Moves, TypeOK, Running
    <3>2. k \in Threads
      BY <1>2, <1>4, <2>7 DEF Threads
    <3>3. op[k] = "delete" /\ i[k] = n_iterations + 1 /\ ~InCall(k)
      BY <3>1, <3>2 DEF Phases, InCall, CallPlaces
    <3>4. thrd_lock_wait[k] = A
      BY <1>2, <1>3, <3>2, <3>3 DEF Waited, WaitsOf, AllWaits
    <3>5. T = (k - 1) * A
      BY <1>3, <1>4, <3>1 DEF Waited
    <3>6. T + A = ((k + 1) - 1) * A
      BY <1>3, <1>4, <3>5
    <3> QED
      BY <1>3, <2>2, <2>3, <3>1, <3>4, <3>6 DEF Waited, CallPlaces
  <2>8. CASE Join /\ ~(k <= n_threads)
    <3>1. /\ pc[MainT] = "join" /\ pc'[MainT] = "check" /\ total_lock_wait' = T /\ status' # 0
      BY <1>1, <1>2, <1>4, <1>7, <2>8 DEF Main, Join, At, Moves, TypeOK, Running
    <3>2. k <= n_threads + 1
      BY <1>4, <3>1 DEF Phases
    <3>3. k - 1 = n_threads
      BY <1>2, <1>4, <2>8, <3>2
    <3>4. T = N
      BY <1>3, <1>4, <3>1, <3>3 DEF Waited
    <3> QED
      BY <1>3, <2>2, <2>3, <3>1, <3>4 DEF Waited
  <2>9. CASE CheckList \/ ListChecked \/ ListCall(MainT)
    <3>1. pc[MainT] \in {"check", "report"} \cup CallPlaces /\ total_lock_wait' = T /\ status' # 0
      BY <1>4, <1>7, <2>9 DEF Main, CheckList, ListChecked, ListCall, At, stats, Running, CallPlaces
    <3>2. pc'[MainT] \in {"check", "report"} \cup CallPlaces
      <4>1. CASE ListCall(MainT)
        BY <1>1, <1>2, <4>1, CallMoves DEF InCall
      <4>2. CASE CheckList \/ ListChecked
        BY <1>1, <1>2, <4>2 DEF CheckList, ListChecked, Moves, TypeOK, CallPlaces
      <4> QED
        BY <2>9, <4>1, <4>2
    <3>3. T = N
      BY <1>3, <1>4, <3>1 DEF Waited
    <3>4. pc'[MainT] \notin {"opts", "create", "join"}
      BY <3>2 DEF CallPlaces
    <3> QED
      BY <1>3, <2>2, <2>3, <3>1, <3>3, <3>4 DEF Waited
  <2>10. CASE Report
    <3>1. /\ pc[MainT] = "report" /\ pc' = pc /\ total_lock_wait' = T
          /\ status' = 0 => report' = <<T, 2 * (n_threads * n_iterations) + n_threads>>
      BY <1>4, <2>10 DEF Report, At, SigFpe
    <3>2. T = N
      BY <1>3, <1>4, <3>1 DEF Waited
    <3> QED
      BY <1>3, <2>2, <2>3, <3>1, <3>2 DEF Waited
  <2> QED
    BY <1>7, <2>4, <2>5, <2>6, <2>7, <2>8, <2>9, <2>10 DEF Main
<1> QED
  BY <1>5, <1>6, <1>7 DEF Next

\* A run of lab2_list adds up one wait for every lock its workers took, whatever the
\* number of threads, iterations and sublists and in every mode of synchronisation.
THEOREM LocksAreCounted == Spec => []LocksCounted
<1>1. Init => Waited
  <2> SUFFICES ASSUME Init PROVE Waited
    OBVIOUS
  <2>1. MainT \in Procs /\ pc[MainT] = "opts" /\ total_lock_wait = 0 /\ status # 0
    BY Domains DEF Init, Running
  <2>2. ASSUME NEW t \in Threads PROVE thrd_lock_wait[t] = 0 /\ WaitsOf(t) = 0
    <3>1. t \in Procs /\ t # MainT
      BY Domains
    <3>2. op[t] = "insert" /\ i[t] = 1 /\ pc[t] = "none" /\ thrd_lock_wait[t] = 0
      BY <3>1 DEF Init
    <3> QED
      BY <3>2 DEF WaitsOf, InCall, CallPlaces
  <2> QED
    BY <2>1, <2>2 DEF Waited, CallPlaces
<1>2. Waited => LocksCounted
  BY DEF Waited, LocksCounted, AllWaits
<1> QED
  BY <1>1, <1>2, WaitedStep, ListInvHolds, PTL DEF Spec
=============================================================================
