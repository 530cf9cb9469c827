-------------------------------- MODULE Roster --------------------------------
(***************************************************************************)
(* CS32 project 2: BballRoster.cpp.  A roster is a doubly linked list of   *)
(* players on the heap, kept in the order of last and then first names.    *)
(* The operations are sequential; each is one action.  They are written as *)
(* operators on a store [heap, head, tail], so that one can use another,   *)
(* as joinRosters() uses signPlayer() on a local roster.                   *)
(***************************************************************************)
EXTENDS Integers, FiniteSets, Sequences, SequencesExt

CONSTANTS Rosters,          \* the roster objects
          Names,            \* full names; integers stand for strings and their order
          Values

ASSUME RosterAssumption ==
  /\ Names \subseteq [first : Int, last : Int] /\ IsFiniteSet(Names)
  /\ "temp" \notin Rosters

Firsts == {n.first : n \in Names}
Lasts  == {n.last : n \in Names}
Temp    == "temp"     \* the local roster of swapRoster(), joinRosters(), checkRoster()
Objects == Rosters \cup {Temp}

\* Addresses.  `new' returns any that is free; to keep equal lists equal states it
\* is one named after the roster and the player, or a second one while that is taken.
Nodes   == Objects \X Names \X {1, 2}
nullptr == <<>>

VARIABLES
  store,    \* heap: the nodes allocated; head and tail: the pointers of each roster
  crashed,  \* a null pointer was dereferenced
  answer    \* history: whether the last call did what it promises

vars == <<store, crashed, answer>>

Empty == [heap |-> [n \in {} |-> 0],
          head |-> [r \in Objects |-> nullptr], tail |-> [r \in Objects |-> nullptr]]

Init == store = Empty /\ crashed = FALSE /\ answer = "kept"

-----------------------------------------------------------------------------
\* Walking a list

\* The nodes met from the head on; a list with a cycle gives one too many.
Chain(st, r) ==
  LET bound == Cardinality(DOMAIN st.heap) + 1
      upTo[k \in 0..bound] ==
        IF k = 0 THEN <<>>
        ELSE LET walked == upTo[k - 1]
                 p == IF k = 1 THEN st.head[r] ELSE st.heap[Last(walked)].next
             IN  IF Len(walked) < k - 1 \/ p \notin DOMAIN st.heap THEN walked
                 ELSE Append(walked, p)
  IN  upTo[bound]

Player(st, n) == [first |-> st.heap[n].first, last |-> st.heap[n].last]

\* The position of a player, 0 if not found.
Find(st, nodes, who) == SelectInSeq(nodes, LAMBDA n : Player(st, n) = who)

rosterEmpty(st, r)         == st.head[r] = nullptr
howManyPlayers(st, r)      == Len(Chain(st, r))
playerOnRoster(st, r, who) == Find(st, Chain(st, r), who) # 0

\* choosePlayer() for every position.
Players(st, r) ==
  LET chain == Chain(st, r)
  IN  [j \in DOMAIN chain |-> [who |-> Player(st, chain[j]), value |-> st.heap[chain[j]].value]]

\* For a player on the roster.
lookupPlayer(st, r, who) ==
  LET chain == Chain(st, r) IN st.heap[chain[Find(st, chain, who)]].value

Before(a, b) == a.last < b.last \/ (a.last = b.last /\ a.first < b.first)

-----------------------------------------------------------------------------
\* Linking and unlinking

New(st, r, who) == IF <<r, who, 1>> \in DOMAIN st.heap THEN <<r, who, 2>> ELSE <<r, who, 1>>

Node(who, v, next, previous) ==
  [first |-> who.first, last |-> who.last, value |-> v, next |-> next, previous |-> previous]

SetNext(h, p, n)     == IF p = nullptr THEN h ELSE [h EXCEPT ![p].next = n]
SetPrevious(h, p, n) == IF p = nullptr THEN h ELSE [h EXCEPT ![p].previous = n]
Put(h, n, node)      == [k \in DOMAIN h \cup {n} |-> IF k = n THEN node ELSE h[k]]
Delete(h, S)         == [k \in DOMAIN h \ S |-> h[k]]

\* A new node between p and q, which may be null.
LinkBetween(st, new, who, v, p, q) ==
  [st EXCEPT !.heap = SetPrevious(SetNext(Put(@, new, Node(who, v, q, p)), p, new), q, new)]

insertPlayerToFront(st, r, who, v) ==
  LET new    == New(st, r, who)
      placed == [LinkBetween(st, new, who, v, nullptr, st.head[r]) EXCEPT !.head[r] = new]
  IN  IF howManyPlayers(placed, r) = 1 THEN [placed EXCEPT !.tail[r] = new] ELSE placed

insertPlayerToRear(st, r, who, v) ==
  LET new == New(st, r, who)
  IN  IF rosterEmpty(st, r) THEN insertPlayerToFront(st, r, who, v)
      ELSE [LinkBetween(st, new, who, v, st.tail[r], nullptr) EXCEPT !.tail[r] = new]

\* The walk of signPlayer() for a player that belongs neither first nor last: by
\* first name among those with the same last name, otherwise between two players
\* with a smaller and a greater last name.
InsertInside(st, r, who, v) ==
  LET chain == Chain(st, r)
      new == New(st, r, who)
      last(j) == st.heap[chain[j]].last
      Stops(j) == \/ last(j) = who.last
                  \/ j < Len(chain) /\ last(j) < who.last /\ last(j + 1) > who.last
      stop == {j \in DOMAIN chain : Stops(j)}
      x == CHOOSE j \in stop : \A k \in stop : j <= k
      Skipped(j) == last(j) = who.last /\ st.heap[chain[j]].first < who.first
      y == CHOOSE j \in x..(Len(chain) + 1) :
             /\ j = Len(chain) + 1 \/ ~Skipped(j)
             /\ \A k \in x..(j - 1) : Skipped(k)
  IN  CASE stop = {}            -> st
        [] stop # {} /\ last(x) # who.last
                                -> LinkBetween(st, new, who, v, chain[x], st.heap[chain[x]].next)
        [] stop # {} /\ last(x) = who.last /\ y > Len(chain)
                                -> [LinkBetween(st, new, who, v, chain[y - 1], nullptr)
                                      EXCEPT !.tail[r] = new]
        [] OTHER                -> LinkBetween(st, new, who, v, st.heap[chain[y]].previous, chain[y])

signPlayer(st, r, who, v) ==
  IF rosterEmpty(st, r) THEN insertPlayerToFront(st, r, who, v)
  ELSE IF playerOnRoster(st, r, who) THEN st
  ELSE IF Before(who, Player(st, st.head[r])) THEN insertPlayerToFront(st, r, who, v)
  ELSE IF Before(Player(st, st.tail[r]), who) THEN insertPlayerToRear(st, r, who, v)
  ELSE InsertInside(st, r, who, v)

\* resignPlayer() looks at every player but the last; on an empty roster it
\* dereferences a null pointer (ResignCrashes).
ResignCrashes(st, r) == rosterEmpty(st, r)
Resigned(st, r, who) == Find(st, Front(Chain(st, r)), who)
resignPlayer(st, r, who, v) ==
  IF Resigned(st, r, who) = 0 THEN st
  ELSE [st EXCEPT !.heap[Chain(st, r)[Resigned(st, r, who)]].value = v]

\* Mutant of renouncePlayer: the tail stays at the deleted node.
renouncePlayerKeepsTail(st, r, who) ==
  LET chain == Chain(st, r)
      n == chain[Find(st, chain, who)]
      node == st.heap[n]
      unlinked == [st EXCEPT !.heap = Delete(SetPrevious(SetNext(@, node.previous, node.next),
                                                         node.next, node.previous), {n})]
  IN  IF ~playerOnRoster(st, r, who) THEN st
      ELSE IF Player(st, st.head[r]) = who THEN [unlinked EXCEPT !.head[r] = node.next]
      ELSE unlinked

\* The first player of the roster, the last one, or one in between.  tail is left
\* alone when the first player goes, also when it was the only one.
renouncePlayer(st, r, who) ==
  LET chain == Chain(st, r)
      n == chain[Find(st, chain, who)]
      node == st.heap[n]
      unlinked == [st EXCEPT !.heap = Delete(SetPrevious(SetNext(@, node.previous, node.next),
                                                         node.next, node.previous), {n})]
  IN  IF ~playerOnRoster(st, r, who) THEN st
      ELSE IF Player(st, st.head[r]) = who THEN [unlinked EXCEPT !.head[r] = node.next]
      ELSE IF Player(st, st.tail[r]) = who THEN [unlinked EXCEPT !.tail[r] = node.previous]
      ELSE unlinked

-----------------------------------------------------------------------------
\* Whole rosters

Clear(st, r) == [heap |-> Delete(st.heap, Range(Chain(st, r))),
                 head |-> [st.head EXCEPT ![r] = nullptr], tail |-> [st.tail EXCEPT ![r] = nullptr]]

\* The copy constructor and the loop of operator=, on an empty r.
CopyInto(st, r, q) ==
  FoldLeft(LAMBDA s, p : insertPlayerToRear(s, r, p.who, p.value), st, Players(st, q))

\* operator=: nothing to do if both have the same head, as when both are empty.
Assign(st, r, q) ==
  IF st.head[r] = st.head[q] THEN st ELSE CopyInto(Clear(st, r), r, q)

swapRoster(st, r, q) ==
  LET copied == CopyInto(st, Temp, q)
  IN  Clear(Assign(Assign(copied, q, r), r, Temp), Temp)

\* Signs the players of q whose names are in S into the local roster.
SignAll(st, q, S) ==
  FoldLeft(LAMBDA s, p : IF p.who \in S THEN signPlayer(s, Temp, p.who, p.value) ELSE s,
           st, Players(st, q))

OnRoster(st, q) == {n \in Names : playerOnRoster(st, q, n)}
Conflicts(st, q1, q2) ==
  {n \in OnRoster(st, q1) \cap OnRoster(st, q2) : lookupPlayer(st, q1, n) # lookupPlayer(st, q2, n)}

\* Mutant of joinRosters: the second loop asks the wrong roster.
joinRostersTwice(st, q1, q2, r) ==
  IF q1 = q2 \/ rosterEmpty(st, q1) \/ rosterEmpty(st, q2) THEN Assign(st, r, q1)
  ELSE LET one  == SignAll(st, q1, Names \ Conflicts(st, q1, q2))
           both == SignAll(one, q2, Names \ OnRoster(one, Temp))
       IN  Clear(Assign(both, r, Temp), Temp)

\* A player with different values in the two rosters is left out.  When one of the
\* two rosters is empty the result is a copy of the first.
joinRosters(st, q1, q2, r) ==
  IF q1 = q2 \/ rosterEmpty(st, q1) \/ rosterEmpty(st, q2) THEN Assign(st, r, q1)
  ELSE LET one  == SignAll(st, q1, Names \ Conflicts(st, q1, q2))
           both == SignAll(one, q2, Names \ OnRoster(st, q1))
       IN  Clear(Assign(both, r, Temp), Temp)
JoinAgrees(st, q1, q2) == Conflicts(st, q1, q2) = {}

\* "*" is represented by the set of all names.
checkRoster(st, fs, ls, q, r) ==
  IF fs = Firsts /\ ls = Lasts THEN Assign(st, r, q)
  ELSE Clear(Assign(SignAll(st, q, [first : fs, last : ls]), r, Temp), Temp)

-----------------------------------------------------------------------------
\* What the roster is for its callers: a map from names to values.
Map(st, r) ==
  LET ps == Players(st, r)
  IN  [n \in {ps[j].who : j \in DOMAIN ps} |-> ps[SelectInSeq(ps, LAMBDA p : p.who = n)].value]
With(m, n, v) == [k \in DOMAIN m \cup {n} |-> IF k = n THEN v ELSE m[k]]
Only(m, S)    == [k \in DOMAIN m \cap S |-> m[k]]
Agree(m1, m2) == {k \in DOMAIN m1 \cup DOMAIN m2 :
                    k \in DOMAIN m1 \cap DOMAIN m2 => m1[k] = m2[k]}
Union(m1, m2) == [k \in Agree(m1, m2) |-> IF k \in DOMAIN m1 THEN m1[k] ELSE m2[k]]

Maps(st) == [r \in Rosters |-> Map(st, r)]

\* What BballRoster.h and its comments promise of each operation: the maps before
\* and after it, and what it returns.
IsNow(old, new, r, m) == new = [old EXCEPT ![r] = m]
Knows(old, r, n)      == n \in DOMAIN old[r]
Sets(old, new, r, n, v) == IsNow(old, new, r, With(old[r], n, v))

SignPromise(old, new, ret, r, n, v) ==
  /\ ret = ~Knows(old, r, n)
  /\ IF ret THEN Sets(old, new, r, n, v) ELSE new = old
ResignPromise(old, new, ret, r, n, v) ==
  /\ ret = Knows(old, r, n)
  /\ IF ret THEN Sets(old, new, r, n, v) ELSE new = old
RenouncePromise(old, new, ret, r, n) ==
  /\ ret = Knows(old, r, n)
  /\ IsNow(old, new, r, Only(old[r], Names \ {n}))
JoinPromise(old, new, ret, q1, q2, r) ==
  /\ IsNow(old, new, r, Union(old[q1], old[q2]))
  /\ ret = (Agree(old[q1], old[q2]) = DOMAIN old[q1] \cup DOMAIN old[q2])

-----------------------------------------------------------------------------
\* The operations, with their promises recorded

Kept(p)     == answer' = IF p THEN "kept" ELSE "broken"
Becomes(st) == ~crashed /\ store' = st /\ UNCHANGED crashed
Crashes     == ~crashed /\ crashed' = TRUE /\ answer' = "crash" /\ UNCHANGED store

Sign(r, who, v) ==
  /\ Becomes(signPlayer(store, r, who, v))
  /\ Kept(SignPromise(Maps(store), Maps(store'), store' # store, r, who, v))

\* The last player is not found; anyone else is.
ReSigns(p, r, who) ==
  answer' = IF p THEN "kept"
            ELSE IF Player(store, Last(Chain(store, r))) = who THEN "not re-signed" ELSE "broken"

Resign(r, who, v) ==
  \/ ResignCrashes(store, r) /\ Crashes
  \/ /\ ~ResignCrashes(store, r)
     /\ Becomes(resignPlayer(store, r, who, v))
     /\ ReSigns(ResignPromise(Maps(store), Maps(store'), Resigned(store, r, who) # 0, r, who, v),
                r, who)

signOrResign(r, who, v) ==
  \/ ResignCrashes(store, r) /\ Crashes
  \/ /\ ~ResignCrashes(store, r)
     /\ Becomes(IF Resigned(store, r, who) # 0 THEN resignPlayer(store, r, who, v)
                ELSE signPlayer(store, r, who, v))
     /\ ReSigns(Sets(Maps(store), Maps(store'), r, who, v), r, who)

Renounce(r, who) ==
  /\ Becomes(renouncePlayer(store, r, who))
  /\ Kept(RenouncePromise(Maps(store), Maps(store'), playerOnRoster(store, r, who), r, who))

AssignTo(r, q) ==
  /\ Becomes(Assign(store, r, q))
  /\ Kept(IsNow(Maps(store), Maps(store'), r, Map(store, q)))

Swap(r, q) ==
  /\ Becomes(swapRoster(store, r, q))
  /\ Kept(Maps(store') = [Maps(store) EXCEPT ![r] = Map(store, q), ![q] = Map(store, r)])

Join(q1, q2, r) ==
  /\ Becomes(joinRosters(store, q1, q2, r))
  /\ answer' = IF JoinPromise(Maps(store), Maps(store'), JoinAgrees(store, q1, q2), q1, q2, r)
               THEN "kept"
               ELSE IF rosterEmpty(store, q1) THEN "other roster lost" ELSE "broken"

Check(fs, ls, q, r) ==
  /\ Becomes(checkRoster(store, fs, ls, q, r))
  /\ Kept(IsNow(Maps(store), Maps(store'), r, Only(Map(store, q), [first : fs, last : ls])))

\* One name, or the wildcard.
Patterns(S) == {S} \cup {{n} : n \in S}

Next ==
  \/ \E r \in Rosters, who \in Names :
       \/ Renounce(r, who)
       \/ \E v \in Values : Sign(r, who, v) \/ Resign(r, who, v) \/ signOrResign(r, who, v)
  \/ \E r, q \in Rosters :
       \/ AssignTo(r, q) \/ Swap(r, q)
       \/ \E q2 \in Rosters : Join(q, q2, r)
       \/ \E fs \in Patterns(Firsts), ls \in Patterns(Lasts) : Check(fs, ls, q, r)
  \/ crashed /\ UNCHANGED vars

Spec == Init /\ [][Next]_vars

-----------------------------------------------------------------------------
Pointers == Nodes \cup {nullptr}

\* The values the variables may take.
TypeOK ==
  /\ DOMAIN store.heap \subseteq Nodes
  /\ \A n \in DOMAIN store.heap :
       store.heap[n] \in [first : Firsts, last : Lasts, value : Values,
                          next : Pointers, previous : Pointers]
  /\ store.head \in [Objects -> Pointers] /\ store.tail \in [Objects -> Pointers]
  /\ crashed \in BOOLEAN

\* After every operation the rosters own disjoint lists that between them hold
\* every node allocated (nothing leaks, nothing dangles); next and previous are
\* inverse to each other, and tail is the last node of a list that has one.
WellLinked ==
  LET chain(r) == Chain(store, r)
      node(r, j) == IF j \in DOMAIN chain(r) THEN chain(r)[j] ELSE nullptr
  IN  /\ DOMAIN store.heap = UNION {Range(chain(r)) : r \in Rosters}
      /\ \A r, q \in Rosters : r # q => Range(chain(r)) \cap Range(chain(q)) = {}
      /\ \A r \in Rosters :
           /\ \A j \in DOMAIN chain(r) : store.heap[chain(r)[j]].previous = node(r, j - 1)
           /\ chain(r) # <<>> => store.tail[r] = Last(chain(r))
      /\ store.head[Temp] = nullptr

\* Players are in the order of their last and then their first names, each once,
\* whatever sequence of operations built the roster.
InOrder ==
  \A r \in Rosters : \A j, k \in DOMAIN Chain(store, r) :
    j < k => Before(Player(store, Chain(store, r)[j]), Player(store, Chain(store, r)[k]))

\* Each roster is an intact, sorted list of its own.
ListsIntact == TypeOK /\ WellLinked /\ InOrder

\* Every operation does what BballRoster.h says, to the roster it is called on and
\* to no other, also when its arguments alias.  The calls that do not: re-signing the
\* last player, or anyone on an empty roster, and joining with an empty first roster.
AsPromised == answer # "broken"
=============================================================================
