----------------------------- MODULE ListExerciser -----------------------------
(***************************************************************************)
(* CS111 project 2: lab2_list.c (part 2, with --lists; part 1 is the case  *)
(* of one list).  main() is process 0: it sets up the sublists and the     *)
(* random keys, starts the workers 1..n_threads, joins them, checks that   *)
(* every sublist is empty and reports.  A worker inserts its elements,     *)
(* asks for the length of every sublist, and looks up and deletes its      *)
(* elements, each under the lock of the sublist.                           *)
(***************************************************************************)
EXTENDS Integers, FiniteSets, SortedList

CONSTANTS n_threads, n_iterations, n_lists,   \* the options
          SyncTypes,    \* the values of sync_type considered
          Keys,         \* the keys gen_random() may draw
          KeySum        \* KeySum[k]: the sum of the characters of key k

\* The nodes of the lists: the heads <<0, l>>, and the elements element_pool[i],
\* with i = (t - 1) * n_iterations + (j - 1).
MainT    == 0
Threads  == 1..n_threads
Procs    == 0..n_threads
Lists    == 1..n_lists
Head(l)  == <<0, l>>
Heads    == {Head(l) : l \in Lists}
Elements == Threads \X (1..n_iterations)
Nodes    == Heads \cup Elements

CONSTANT KeyChoices   \* the keys of the elements that gen_random() may draw

ASSUME OptionsAssumption ==
  /\ n_threads \in Nat /\ n_iterations \in Nat /\ n_lists \in Nat \ {0}
  /\ SyncTypes \subseteq {"n", "m", "s"}
  /\ Keys \subseteq Int /\ KeySum \in [Keys -> Nat]

ASSUME KeysAssumption == KeyChoices \subseteq [Elements -> Keys]

NoOwner == 0
Null    == <<0, 0>>
Running == -1
SigFpe  == 136

VARIABLES
  sync_type,
  lock_arr_s,            \* the words of the spin-locks
  mutex_arr,             \* the holder of each mutex, or NoOwner
  op, i,                 \* current loop and loop index of each process
  thrd_lock_wait,        \* the waits each worker has timed
  total_lock_wait,
  report,                \* <<total_lock_wait, n_lock_operations>> as reported
  status                 \* Running, or the exit status

locks  == <<lock_arr_s, mutex_arr>>
stats  == <<thrd_lock_wait, total_lock_wait, report>>
vars   == <<sync_type, key, links, locks, pc, op, i, frame, stats, status>>

\* The places inside a list call, and all places.
CallPlaces ==
  {"insert", "i_walk", "i_self", "i_pred", "i_next", "i_prev",
   "lookup", "l_walk", "length", "n_head", "n_walk", "n_chk", "n_step",
   "d_next", "d_chk1", "d_prev", "d_chk2",
   "d_un1", "d_un2", "d_un3", "d_un4", "d_un5", "d_un6",
   "return", "bad_length", "bad_lookup", "bad_delete"}

Places == CallPlaces \cup {"opts", "create", "join", "check", "report",
                           "none", "loop", "lock", "spin", "returned"}

\* get_key_hash()
get_key_hash(kk) == ((KeySum[kk] \div n_lists) % n_lists) + 1

Element(p) == <<p, i[p]>>

\* The sublist of the operation p is at.
Sublist(p) == IF op[p] = "length" THEN i[p] ELSE get_key_hash(key[Element(p)])

Init ==
  /\ sync_type = "n"
  /\ key \in KeyChoices
  /\ next = [x \in Nodes |-> IF x \in Heads THEN x ELSE Null]
  /\ prev = [x \in Nodes |-> IF x \in Heads THEN x ELSE Null]
  /\ lock_arr_s = [l \in Lists |-> 0]
  /\ mutex_arr = [l \in Lists |-> NoOwner]
  /\ pc = [p \in Procs |-> IF p = MainT THEN "opts" ELSE "none"]
  /\ op = [p \in Procs |-> IF p = MainT THEN "length" ELSE "insert"]
  /\ i = [p \in Procs |-> 1]
  /\ lookup = [p \in Procs |-> Null]
  /\ ra = [p \in Procs |-> Null] /\ rb = [p \in Procs |-> Null]
  /\ count = [p \in Procs |-> 0]
  /\ thrd_lock_wait = [t \in Threads |-> 0]
  /\ total_lock_wait = 0 /\ report = <<0, 0>>
  /\ status = Running

-----------------------------------------------------------------------------
\* main()

\* The exits with status 1: bad options, a failed allocation, a clock that cannot
\* be read before or after the workers' run, and a pthread_create() that fails,
\* whatever the workers already started do.
Fail ==
  /\ \/ At(MainT, "opts")
     \/ At(MainT, "create") /\ (i[MainT] = 1 \/ i[MainT] <= n_threads)
     \/ At(MainT, "check") /\ i[MainT] = 1
  /\ status' = 1
  /\ UNCHANGED <<sync_type, key, links, locks, pc, op, i, frame, stats>>

GetOpts ==
  /\ At(MainT, "opts")
  /\ sync_type' \in SyncTypes
  /\ Moves(MainT, "create")
  /\ UNCHANGED <<key, links, locks, op, i, frame, stats, status>>

Create ==
  /\ At(MainT, "create")
  /\ IF i[MainT] <= n_threads
     THEN /\ pc' = [pc EXCEPT ![i[MainT]] = "loop"]
          /\ i' = [i EXCEPT ![MainT] = @ + 1]
     ELSE Moves(MainT, "join") /\ i' = [i EXCEPT ![MainT] = 1]
  /\ UNCHANGED <<sync_type, key, links, locks, op, frame, stats, status>>

\* Mutant of Join: a worker's wait replaces the total instead of adding to it.
JoinOverwrites ==
  /\ At(MainT, "join")
  /\ IF i[MainT] <= n_threads
     THEN /\ pc[i[MainT]] = "returned"
          /\ total_lock_wait' = thrd_lock_wait[i[MainT]]
          /\ i' = [i EXCEPT ![MainT] = @ + 1]
          /\ UNCHANGED pc
     ELSE /\ Moves(MainT, "check")
          /\ i' = [i EXCEPT ![MainT] = 1]
          /\ UNCHANGED total_lock_wait
  /\ UNCHANGED <<sync_type, key, links, locks, op, frame, thrd_lock_wait, report, status>>

Join ==
  /\ At(MainT, "join")
  /\ IF i[MainT] <= n_threads
     THEN /\ pc[i[MainT]] = "returned"
          /\ total_lock_wait' = total_lock_wait + thrd_lock_wait[i[MainT]]
          /\ i' = [i EXCEPT ![MainT] = @ + 1]
          /\ UNCHANGED pc
     ELSE /\ Moves(MainT, "check")
          /\ i' = [i EXCEPT ![MainT] = 1]
          /\ UNCHANGED total_lock_wait
  /\ UNCHANGED <<sync_type, key, links, locks, op, frame, thrd_lock_wait, report, status>>

\* The final loop over the sublists: the length of each is asked for, and any
\* length but 0 is reported as corruption.
CheckList ==
  /\ At(MainT, "check")
  /\ Moves(MainT, IF i[MainT] <= n_lists THEN "length" ELSE "report")
  /\ UNCHANGED <<sync_type, key, links, locks, op, i, frame, stats, status>>

ListChecked ==
  /\ At(MainT, "return")
  /\ IF count[MainT] = 0
     THEN /\ Moves(MainT, "check")
          /\ i' = [i EXCEPT ![MainT] = @ + 1]
          /\ lookup' = [lookup EXCEPT ![MainT] = Null]
     ELSE Moves(MainT, "bad_length") /\ UNCHANGED <<i, lookup>>
  /\ UNCHANGED <<sync_type, key, links, locks, op, ra, rb, count, stats, status>>

\* The averages divide by the number of operations, 3 for every element.
Report ==
  /\ At(MainT, "report")
  /\ IF n_threads * n_iterations * 3 = 0
     THEN status' = SigFpe /\ UNCHANGED report
     ELSE /\ status' = 0
          /\ report' = <<total_lock_wait, 2 * (n_threads * n_iterations) + n_threads>>
  /\ UNCHANGED <<sync_type, key, links, locks, pc, op, i, frame,
                 thrd_lock_wait, total_lock_wait>>

-----------------------------------------------------------------------------
\* list_thrd(), worker t

\* Where the operation of each of the three loops begins.
Entry(t) == CASE op[t] = "insert" -> "insert"
              [] op[t] = "length" -> "length"
              [] op[t] = "delete" -> "lookup"

LoopBound(t) == IF op[t] = "length" THEN n_lists ELSE n_iterations

\* A loop test: the next iteration, the next loop, or the end of list_thrd().
Loop(t) ==
  /\ At(t, "loop")
  /\ \/ /\ i[t] <= LoopBound(t)
        /\ Moves(t, "lock")
        /\ UNCHANGED <<op, i>>
     \/ /\ i[t] > LoopBound(t) /\ op[t] # "delete"
        /\ op' = [op EXCEPT ![t] = IF @ = "insert" THEN "length" ELSE "delete"]
        /\ i' = [i EXCEPT ![t] = 1]
        /\ UNCHANGED pc
     \/ /\ i[t] > LoopBound(t) /\ op[t] = "delete"
        /\ Moves(t, "returned")
        /\ UNCHANGED <<op, i>>
  /\ UNCHANGED <<sync_type, key, links, locks, frame, stats, status>>

\* Mutant of Acquired: the two clock readings are subtracted the wrong way round.
AcquiredSwapped(t) ==
  /\ Moves(t, Entry(t))
  /\ thrd_lock_wait' = [thrd_lock_wait EXCEPT ![t] = @ - 1]

\* Acquiring the lock of the sublist ends a timed wait, whether or not there
\* was a lock to wait for.
Acquired(t) ==
  /\ Moves(t, Entry(t))
  /\ thrd_lock_wait' = [thrd_lock_wait EXCEPT ![t] = @ + 1]

NoLock(t) ==
  /\ At(t, "lock") /\ sync_type = "n"
  /\ Acquired(t)
  /\ UNCHANGED <<sync_type, key, links, locks, op, i, frame, total_lock_wait, report, status>>

\* Mutant of MutexLock: the worker goes on whoever holds the mutex.
MutexUnchecked(t) ==
  /\ At(t, "lock") /\ sync_type = "m"
  /\ mutex_arr' = [mutex_arr EXCEPT ![Sublist(t)] = t]
  /\ Acquired(t)
  /\ UNCHANGED <<sync_type, key, links, lock_arr_s, op, i, frame, total_lock_wait, report, status>>

MutexLock(t) ==
  /\ At(t, "lock") /\ sync_type = "m"
  /\ mutex_arr[Sublist(t)] = NoOwner
  /\ mutex_arr' = [mutex_arr EXCEPT ![Sublist(t)] = t]
  /\ Acquired(t)
  /\ UNCHANGED <<sync_type, key, links, lock_arr_s, op, i, frame, total_lock_wait, report, status>>

\* Mutant of TestAndSet: the old word is not looked at.
TestAndSetUnchecked(t) ==
  /\ At(t, "lock") /\ sync_type = "s"
  /\ lock_arr_s' = [lock_arr_s EXCEPT ![Sublist(t)] = 1]
  /\ Acquired(t)
  /\ UNCHANGED <<sync_type, key, links, mutex_arr, op, i, frame, total_lock_wait, report, status>>

TestAndSet(t) ==
  /\ At(t, "lock") /\ sync_type = "s"
  /\ lock_arr_s' = [lock_arr_s EXCEPT ![Sublist(t)] = 1]
  /\ IF lock_arr_s[Sublist(t)] = 0
     THEN Acquired(t)
     ELSE Moves(t, "spin") /\ UNCHANGED thrd_lock_wait
  /\ UNCHANGED <<sync_type, key, links, mutex_arr, op, i, frame, total_lock_wait, report, status>>

Spin(t) ==
  /\ At(t, "spin")
  /\ lock_arr_s[Sublist(t)] = 0
  /\ Moves(t, "lock")
  /\ UNCHANGED <<sync_type, key, links, locks, op, i, frame, stats, status>>

\* Mutant of Unlock: the lock is not given back.
UnlockForgotten(t) ==
  /\ At(t, "return")
  /\ i' = [i EXCEPT ![t] = @ + 1]
  /\ lookup' = [lookup EXCEPT ![t] = Null]
  /\ ra' = [ra EXCEPT ![t] = Null] /\ rb' = [rb EXCEPT ![t] = Null]
  /\ count' = [count EXCEPT ![t] = 0]
  /\ Moves(t, "loop")
  /\ UNCHANGED <<sync_type, key, links, locks, op, stats, status>>

\* The call's frame is gone when the lock is given back.
Unlock(t) ==
  /\ At(t, "return")
  /\ mutex_arr' = IF sync_type = "m"
                  THEN [mutex_arr EXCEPT ![Sublist(t)] = NoOwner] ELSE mutex_arr
  /\ lock_arr_s' = IF sync_type = "s"
                   THEN [lock_arr_s EXCEPT ![Sublist(t)] = 0] ELSE lock_arr_s
  /\ i' = [i EXCEPT ![t] = @ + 1]
  /\ lookup' = [lookup EXCEPT ![t] = Null]
  /\ ra' = [ra EXCEPT ![t] = Null] /\ rb' = [rb EXCEPT ![t] = Null]
  /\ count' = [count EXCEPT ![t] = 0]
  /\ Moves(t, "loop")
  /\ UNCHANGED <<sync_type, key, links, op, stats, status>>

-----------------------------------------------------------------------------
\* The accesses of a list call; main() only asks for lengths.
ListCall(p) ==
  /\ pc[p] \in CallPlaces
  /\ \/ SortedList_length(p, Head(Sublist(p)))
     \/ /\ p # MainT
        /\ \/ SortedList_insert(p, Head(Sublist(p)), Element(p))
           \/ SortedList_lookup(p, Head(Sublist(p)), Element(p))
           \/ SortedList_delete(p, Element(p))
  /\ UNCHANGED <<sync_type, key, locks, op, i, stats, status>>

\* sig_corrupt() ends the process, whoever calls it.
sig_corrupt(p) ==
  /\ pc[p] \in {"bad_length", "bad_lookup", "bad_delete"}
  /\ status' = 2
  /\ UNCHANGED <<sync_type, key, links, locks, pc, op, i, frame, stats>>

Main ==
  /\ status = Running
  /\ \/ Fail \/ GetOpts \/ Create \/ Join \/ CheckList \/ ListChecked \/ Report
     \/ ListCall(MainT) \/ sig_corrupt(MainT)

Worker(t) ==
  /\ status = Running
  /\ \/ Loop(t) \/ NoLock(t) \/ MutexLock(t) \/ TestAndSet(t) \/ Spin(t)
     \/ ListCall(t) \/ sig_corrupt(t) \/ Unlock(t)

Ended == status # Running /\ UNCHANGED vars

Next == Main \/ (\E t \in Threads : Worker(t)) \/ Ended

\* Every thread that can take a step keeps being scheduled.
Fairness == WF_vars(Main) /\ \A t \in Threads : WF_vars(Worker(t))

Spec == Init /\ [][Next]_vars /\ Fairness

-----------------------------------------------------------------------------
\* The values the variables may take.
TypeOK ==
  /\ sync_type \in {"n", "m", "s"} /\ key \in [Elements -> Keys]
  /\ next \in [Nodes -> Nodes \cup {Null}] /\ prev \in [Nodes -> Nodes \cup {Null}]
  /\ lock_arr_s \in [Lists -> {0, 1}] /\ mutex_arr \in [Lists -> Procs]
  /\ pc \in [Procs -> Places] /\ i \in [Procs -> Nat \ {0}]
  /\ op \in [Procs -> {"insert", "length", "delete"}]
  /\ lookup \in [Procs -> Nodes \cup {Null}]
  /\ ra \in [Procs -> Nodes \cup {Null}] /\ rb \in [Procs -> Nodes \cup {Null}]
  /\ count \in [Procs -> Nat]
  /\ thrd_lock_wait \in [Threads -> Nat] /\ total_lock_wait \in Nat
  /\ report \in Nat \X Nat /\ status \in {Running, 0, 1, 2, SigFpe}

\* Worker t is between taking and giving back the lock of a sublist.
InCall(t) == pc[t] \in CallPlaces

IsFree(l) == \A t \in Threads : InCall(t) => Sublist(t) # l

\* The elements the links lead to from the head of sublist l.
Reach(l) ==
  LET node[n \in Nat] == IF n = 0 THEN Head(l) ELSE next[node[n - 1]]
  IN  {node[n] : n \in 1..(n_threads * n_iterations)} \ {Head(l)}

\* Worker e[1] is past the insertion and before the deletion of element e.
InPool(e) ==
  CASE op[e[1]] = "insert" -> e[2] < i[e[1]]
    [] op[e[1]] = "length" -> TRUE
    [] op[e[1]] = "delete" -> e[2] >= i[e[1]]

\* Two workers are never inside the operations of one sublist at the same time.
MutualExclusion ==
  sync_type # "n" =>
    \A t, u \in Threads : InCall(t) /\ InCall(u) /\ Sublist(t) = Sublist(u) => t = u

\* Whenever nobody holds a sublist, it holds exactly the elements inserted and
\* not yet deleted, its links are inverse to each other, and its keys are sorted,
\* the largest first, as the loop of SortedList_insert() sorts them (its header
\* promises the opposite order: see Ascending).
FreeListsIntact ==
  sync_type # "n" => \A l \in Lists : IsFree(l) =>
    /\ Reach(l) = {e \in Elements : InPool(e) /\ get_key_hash(key[e]) = l}
    /\ \A x \in Reach(l) \cup {Head(l)} : prev[next[x]] = x /\ next[prev[x]] = x
    /\ \A x \in Reach(l) : next[x] \in Reach(l) => key[x] >= key[next[x]]

\* What SortedList.h:35 promises of SortedList_insert(), whoever calls it: a list
\* nobody is changing is sorted in ascending order of its keys.
Ascending ==
  sync_type # "n" => \A l \in Lists : IsFree(l) =>
    \A x \in Reach(l) : next[x] \in Reach(l) => key[x] <= key[next[x]]

\* A synchronised run never reports corruption (sig_corrupt(), exit status 2).
NeverCorrupt ==
  sync_type # "n" => status # 2 /\ \A p \in Procs :
                                   pc[p] \notin {"bad_length", "bad_lookup", "bad_delete"}

\* The length a worker is given is the number of elements of the sublist, also
\* when other workers insert into and delete from other sublists meanwhile.
LengthIsExact ==
  sync_type # "n" => \A t \in Threads :
    At(t, "return") /\ op[t] = "length" => count[t] = Cardinality(Reach(Sublist(t)))

\* The sublist an element can be reached in, or which side of that it is on; a
\* run without locks has no such sets.
Where ==
  LET reach == [l \in Lists |-> Reach(l)]
  IN  [e \in Elements |->
         IF sync_type = "n" THEN 0
         ELSE IF \E l \in Lists : e \in reach[l]
         THEN CHOOSE l \in Lists : e \in reach[l]
         ELSE IF op[e[1]] = "delete" THEN -1 ELSE 0]

Sets == INSTANCE ListSets WITH
          Owner <- [e \in Elements |-> e[1]],
          home  <- [e \in Elements |-> get_key_hash(key[e])],
          where <- Where

\* Every synchronised run is a run of the sets: an insertion or deletion shows
\* to every other worker as one step.
ImplementsSets == Sets!Spec

\* Even without synchronisation no pointer is followed before it was set, so the
\* SIGSEGV handler never has anything to do: an element is only linked in once
\* its own links are set, and no link is ever reset.
NoWildPointers ==
  \A p \in Procs :
    /\ pc[p] \in {"i_walk", "i_self", "i_pred", "i_next", "i_prev", "l_walk",
                  "n_head", "n_walk", "n_chk", "n_step"} => lookup[p] \in Nodes
    /\ pc[p] \in {"i_next", "n_chk", "d_chk1", "d_chk2",
                  "d_un2", "d_un3", "d_un5", "d_un6"} => ra[p] \in Nodes
    /\ pc[p] \in {"d_un3", "d_un6"} => rb[p] \in Nodes

\* Every run ends: no lock is left held, and no walk goes round a cycle of links
\* for ever, even when unsynchronised workers corrupt the list.
Termination == <>(status # Running)

\* Every lock is timed once, whichever thread waited for whom, and main() adds up
\* all that the workers timed: two locks for each element and one for each
\* sublist in every worker.
LocksCounted == status = 0 => report[1] = n_threads * (2 * n_iterations + n_lists)
=============================================================================
