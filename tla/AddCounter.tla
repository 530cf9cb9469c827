------------------------------ MODULE AddCounter ------------------------------
(***************************************************************************)
(* CS111 project 2, part 1: lab2_add.c.  main() parses the options, starts *)
(* n_threads workers running add_thrd(), joins them and reports the shared *)
(* counter.  Every access a worker makes to a shared location (counter,    *)
(* lock_s, mymutex) is a step of its own; sched_yield() only invites the   *)
(* interleavings that are all present here, so opt_yield is not kept.      *)
(***************************************************************************)
EXTENDS Integers

CONSTANTS MaxThreads,   \* bound: the largest --threads value considered
          MaxIters,     \* bound: the largest --iterations value considered
          SyncTypes     \* the values of sync_type considered

ASSUME BoundsAssumption == MaxThreads \in Nat \ {0} /\ MaxIters \in Nat \ {0}
ASSUME SyncAssumption   == SyncTypes \subseteq {"n", "m", "s", "c"}

Threads == 1..MaxThreads
NoOwner == 0

\* How the process stands: still running, or its exit status; a process killed
\* by SIGFPE is 128 + 8, as a shell reports it.
Running == -1
SigFpe  == 136

VARIABLES
  sync_type, n_threads, n_iterations,   \* the options
  counter,        \* the shared long long
  lock_s,         \* the word of the spin-lock
  mymutex,        \* the worker that holds the mutex, or NoOwner
  pc,             \* where each worker is in add_thrd() and add()
  done,           \* add() calls that have returned, over both loops of add_thrd()
  oldVal,         \* the counter as the worker last read it (sum is oldVal + value)
  mpc, k,         \* where main() is, and the index t of its loops
  report,         \* the counter main() printed
  status          \* Running or the exit status

options == <<sync_type, n_threads, n_iterations>>
shared  == <<counter, lock_s, mymutex>>
local   == <<pc, done, oldVal>>
mainv   == <<mpc, k, report>>
vars    == <<options, shared, local, mainv, status>>

Init ==
  /\ sync_type = "n" /\ n_threads = 1 /\ n_iterations = 1
  /\ counter = 0 /\ lock_s = 0 /\ mymutex = NoOwner
  /\ pc     = [t \in Threads |-> "none"]
  /\ done   = [t \in Threads |-> 0]
  /\ oldVal = [t \in Threads |-> 0]
  /\ mpc = "opts" /\ k = 1 /\ report = 0
  /\ status = Running

-----------------------------------------------------------------------------
\* main()

\* The exits before the report: a malformed --sync argument (2) or an unknown
\* option (1), a clock that cannot be read before or after the workers' run,
\* and a pthread_create() that fails, whatever the workers already started do.
Fail ==
  /\ \/ mpc = "opts" /\ status' \in {1, 2}
     \/ mpc = "create" /\ (k = 1 \/ k <= n_threads) /\ status' = 1
     \/ mpc = "join" /\ k > n_threads /\ status' = 1
  /\ UNCHANGED <<options, shared, local, mainv>>

GetOpts ==
  /\ mpc = "opts"
  /\ sync_type' \in SyncTypes
  /\ n_threads' \in 0..MaxThreads
  /\ n_iterations' \in 0..MaxIters
  /\ mpc' = "create"
  /\ UNCHANGED <<shared, local, k, report, status>>

Create ==
  /\ mpc = "create" /\ k <= n_threads
  /\ pc' = [pc EXCEPT ![k] = "loop"]
  /\ k' = k + 1
  /\ UNCHANGED <<options, shared, done, oldVal, mpc, report, status>>

\* The end of the loop that creates the workers, or of the one that joins them.
LoopEnds ==
  /\ k > n_threads
  /\ \/ mpc = "create" /\ mpc' = "join" /\ k' = 1
     \/ mpc = "join" /\ mpc' = "report" /\ k' = k
  /\ UNCHANGED <<options, shared, local, report, status>>

Join ==
  /\ mpc = "join" /\ k <= n_threads
  /\ pc[k] = "returned"
  /\ k' = k + 1
  /\ UNCHANGED <<options, shared, local, mpc, report, status>>

\* The average divides by n_threads * n_iterations * 2 before anything is
\* printed; the process ends with 0 when main() was its last thread.
n_operations == n_threads * n_iterations * 2

Report ==
  /\ mpc = "report"
  /\ IF n_operations = 0
     THEN status' = SigFpe /\ UNCHANGED report
     ELSE status' = 0 /\ report' = counter
  /\ UNCHANGED <<options, shared, local, mpc, k>>

-----------------------------------------------------------------------------
\* add_thrd() and add(), worker t

At(t, l) == pc[t] = l
Moves(t, l) == pc' = [pc EXCEPT ![t] = l]

\* The second argument of the call: +1 in the first loop, -1 in the second.
Value(t) == IF done[t] < n_iterations THEN 1 ELSE -1

\* The loop tests of add_thrd() and the switch of add().
Call(t) ==
  /\ At(t, "loop")
  /\ Moves(t, IF done[t] = 2 * n_iterations THEN "returned"
              ELSE IF sync_type \in {"m", "s"} THEN "lock" ELSE "load")
  /\ UNCHANGED <<options, shared, done, oldVal, mainv, status>>

MutexLock(t) ==
  /\ At(t, "lock") /\ sync_type = "m"
  /\ mymutex = NoOwner
  /\ mymutex' = t
  /\ Moves(t, "load")
  /\ UNCHANGED <<options, counter, lock_s, done, oldVal, mainv, status>>

\* Mutant of TestAndSet: the word is incremented instead of set.
FetchAndAdd(t) ==
  /\ At(t, "lock") /\ sync_type = "s"
  /\ lock_s' = lock_s + 1
  /\ Moves(t, IF lock_s = 0 THEN "load" ELSE "spin")
  /\ UNCHANGED <<options, counter, mymutex, done, oldVal, mainv, status>>

\* Mutant of TestAndSet: the old word is not looked at.
TestAndSetUnchecked(t) ==
  /\ At(t, "lock") /\ sync_type = "s"
  /\ lock_s' = 1
  /\ Moves(t, "load")
  /\ UNCHANGED <<options, counter, mymutex, done, oldVal, mainv, status>>

\* __sync_lock_test_and_set returns the old word and leaves 1 in it.
TestAndSet(t) ==
  /\ At(t, "lock") /\ sync_type = "s"
  /\ lock_s' = 1
  /\ Moves(t, IF lock_s = 0 THEN "load" ELSE "spin")
  /\ UNCHANGED <<options, counter, mymutex, done, oldVal, mainv, status>>

\* The inner loop ends when it reads 0.
Spin(t) ==
  /\ At(t, "spin")
  /\ lock_s = 0
  /\ Moves(t, "lock")
  /\ UNCHANGED <<options, shared, done, oldVal, mainv, status>>

Load(t) ==
  /\ At(t, "load")
  /\ oldVal' = [oldVal EXCEPT ![t] = counter]
  /\ Moves(t, IF sync_type = "c" THEN "cas" ELSE "store")
  /\ UNCHANGED <<options, shared, done, mainv, status>>

\* *pointer = sum
Store(t) ==
  /\ At(t, "store")
  /\ counter' = oldVal[t] + Value(t)
  /\ IF sync_type = "n"
     THEN done' = [done EXCEPT ![t] = @ + 1] /\ Moves(t, "loop")
     ELSE UNCHANGED done /\ Moves(t, "unlock")
  /\ UNCHANGED <<options, lock_s, mymutex, oldVal, mainv, status>>

\* Mutant of CompareAndSwap: a swap without the comparison.
SwapOnly(t) ==
  /\ At(t, "cas")
  /\ counter' = oldVal[t] + Value(t)
  /\ done' = [done EXCEPT ![t] = @ + 1]
  /\ Moves(t, "loop")
  /\ UNCHANGED <<options, lock_s, mymutex, oldVal, mainv, status>>

\* Mutant of CompareAndSwap: a failed attempt is not repeated.
CompareAndSwapOnce(t) ==
  /\ At(t, "cas")
  /\ counter' = IF counter = oldVal[t] THEN oldVal[t] + Value(t) ELSE counter
  /\ done' = [done EXCEPT ![t] = @ + 1]
  /\ Moves(t, "loop")
  /\ UNCHANGED <<options, lock_s, mymutex, oldVal, mainv, status>>

CompareAndSwap(t) ==
  /\ At(t, "cas")
  /\ IF counter = oldVal[t]
     THEN /\ counter' = oldVal[t] + Value(t)
          /\ done' = [done EXCEPT ![t] = @ + 1]
          /\ Moves(t, "loop")
     ELSE UNCHANGED <<counter, done>> /\ Moves(t, "load")
  /\ UNCHANGED <<options, lock_s, mymutex, oldVal, mainv, status>>

\* Mutant of Unlock: the lock is not given back.
UnlockForgotten(t) ==
  /\ At(t, "unlock")
  /\ done' = [done EXCEPT ![t] = @ + 1]
  /\ Moves(t, "loop")
  /\ UNCHANGED <<options, shared, oldVal, mainv, status>>

Unlock(t) ==
  /\ At(t, "unlock")
  /\ IF sync_type = "m"
     THEN mymutex' = NoOwner /\ UNCHANGED lock_s
     ELSE lock_s' = 0 /\ UNCHANGED mymutex
  /\ done' = [done EXCEPT ![t] = @ + 1]
  /\ Moves(t, "loop")
  /\ UNCHANGED <<options, counter, oldVal, mainv, status>>

-----------------------------------------------------------------------------
Main == status = Running /\ (GetOpts \/ Create \/ LoopEnds \/ Join \/ Report \/ Fail)

Worker(t) ==
  /\ status = Running
  /\ \/ Call(t) \/ MutexLock(t) \/ TestAndSet(t) \/ Spin(t)
     \/ Load(t) \/ Store(t) \/ CompareAndSwap(t) \/ Unlock(t)

\* exit() ends every thread of the process.
Ended == status # Running /\ UNCHANGED vars

Next == Main \/ (\E t \in Threads : Worker(t)) \/ Ended

\* Every thread that can take a step keeps being scheduled.
Fairness == WF_vars(Main) /\ \A t \in Threads : WF_vars(Worker(t))

Spec == Init /\ [][Next]_vars /\ Fairness

-----------------------------------------------------------------------------
\* The values the variables may take.
TypeOK ==
  /\ sync_type \in {"n", "m", "s", "c"}
  /\ n_threads \in 0..MaxThreads /\ n_iterations \in 0..MaxIters
  /\ counter \in Int /\ lock_s \in {0, 1} /\ mymutex \in Threads \cup {NoOwner}
  /\ pc \in [Threads -> {"none", "loop", "lock", "spin", "load", "store",
                         "cas", "unlock", "returned"}]
  /\ done \in [Threads -> Nat] /\ oldVal \in [Threads -> Int]
  /\ mpc \in {"opts", "create", "join", "report"} /\ k \in 1..(MaxThreads + 1)
  /\ report \in Int /\ status \in {Running, 0, 1, 2, SigFpe}

\* Worker t is between taking a lock and giving it back.
Locked(t) == sync_type \in {"m", "s"} /\ pc[t] \in {"load", "store", "unlock"}

\* With --sync=m or s two workers are never both between lock and unlock in
\* add(), and the counter a worker is about to add to is still the one it read.
MutualExclusion ==
  /\ \A t, u \in Threads : Locked(t) /\ Locked(u) => t = u
  /\ \A t \in Threads : Locked(t) /\ pc[t] = "store" => oldVal[t] = counter

Atomic == INSTANCE AtomicCounter WITH
            synced    <- sync_type # "n",
            value     <- counter,
            iters     <- n_iterations,
            completed <- [t \in Threads |->
                            IF pc[t] = "unlock" THEN done[t] + 1 ELSE done[t]]

\* Every run is a run of the atomic counter: the three ways add() protects its
\* read-modify-write all make it one indivisible addition.
AddsAreAtomic == Atomic!Spec

\* No addition is lost or counted twice, at any moment of a synchronised run.
NoLostUpdate == Atomic!CounterIsSum

\* A synchronised run that reports, reports 0 (lab2_add.c:273).
ReportsZero == status = 0 /\ sync_type # "n" => report = 0

\* Without synchronisation the counter may end anywhere, but updates can only
\* be lost: it never leaves what all the additions of one sign could reach.
UnsyncedBounded ==
  counter \in -(n_threads * n_iterations)..(n_threads * n_iterations)

\* The counter at every moment: exact if the additions are synchronised, and so 0 in
\* the report; within the bounds of the additions made so far in any case.
CounterRight == NoLostUpdate /\ ReportsZero /\ UnsyncedBounded

\* Every run ends: no lock is left held, no spin or compare-and-swap loop goes
\* round for ever, and join() always returns.
Termination == <>(status # Running)
=============================================================================
