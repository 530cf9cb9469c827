--------------------------- MODULE AddCounterProofs ---------------------------
(***************************************************************************)
(* Proofs about AddCounter, for any number of threads and iterations: its  *)
(* type invariant, mutual exclusion of the locking modes, that every mode  *)
(* implements AtomicCounter, and what the counter is worth at every moment *)
(* and when main() reports it.                                             *)
(***************************************************************************)
EXTENDS AddCounter, WellFoundedInduction, TLAPS

\* A worker main() has not created yet has done nothing, and a worker is only
\* ever at a place of add() that its mode of synchronisation has.
PlacesOK ==
  /\ mpc = "opts" => k = 1
  /\ mpc \in {"opts", "create"} =>
       \A t \in Threads : t >= k => pc[t] = "none" /\ done[t] = 0
  /\ mpc # "opts" => sync_type \in SyncTypes
  /\ \A t \in Threads :
       /\ pc[t] \in {"lock", "spin", "unlock"} => sync_type \in {"m", "s"}
       /\ pc[t] = "cas" => sync_type = "c"
       /\ pc[t] = "store" => sync_type # "c"
       /\ pc[t] \in {"none", "loop", "returned"} => done[t] <= 2 * n_iterations
       /\ pc[t] \in {"lock", "spin", "load", "store", "cas", "unlock"}
            => done[t] < 2 * n_iterations

\* The lock word or the mutex says that somebody is in the critical section.
LockWordOK ==
  \A t \in Threads : Locked(t) =>
    IF sync_type = "m" THEN mymutex = t ELSE lock_s = 1

\* Only the workers main() was told to create ever run, and join() waits for each of them.
JoinsOK ==
  /\ mpc # "opts" => /\ k <= n_threads + 1
                     /\ \A t \in Threads : t > n_threads => pc[t] = "none" /\ done[t] = 0
  /\ \A t \in Threads : pc[t] = "returned" => done[t] = 2 * n_iterations
  /\ mpc = "join" => \A t \in Threads : t < k => pc[t] = "returned"
  /\ mpc = "report" => \A t \in Threads : t <= n_threads => pc[t] = "returned"

IInv == TypeOK /\ PlacesOK /\ JoinsOK /\ LockWordOK /\ MutualExclusion

-----------------------------------------------------------------------------
\* The additions a worker has made, and how many of them were of each sign.
Made     == [t \in Threads |-> IF pc[t] = "unlock" THEN done[t] + 1 ELSE done[t]]
Ups(n)   == IF n < n_iterations THEN n ELSE n_iterations
Downs(n) == IF n < n_iterations THEN 0 ELSE n - n_iterations

UpParts   == [t \in Threads |-> Ups(Made[t])]
DownParts == [t \in Threads |-> Downs(Made[t])]
NetParts  == [t \in Threads |-> Atomic!Net(Made[t])]

UpSum   == Atomic!Sum(UpParts)
DownSum == Atomic!Sum(DownParts)
NetSum  == Atomic!Sum(NetParts)

\* Whatever is lost, the counter and every reading of it lie between what the additions
\* of -1 and those of +1 made so far could have made of it.
Within ==
  /\ -DownSum <= counter /\ counter <= UpSum
  /\ \A t \in Threads : pc[t] \in {"store", "cas"} =>
       -DownSum <= oldVal[t] /\ oldVal[t] <= UpSum

-----------------------------------------------------------------------------
\* Sums over the workers, by induction over the number of workers added up.

\* A nonempty set of natural numbers has a least one.
LEMMA Least ==
  ASSUME NEW S \in SUBSET Nat, S # {}
  PROVE  \E n \in S : \A m \in S : n <= m
<1>1. PICK n \in S : \A m \in S : ~(<<m, n>> \in OpToRel(<, Nat))
  BY WFMin, NatLessThanWellFounded
<1>2. \A m \in S : ~(m < n)
  BY <1>1 DEF OpToRel
<1> QED
  BY <1>2

\* The sums of the first n workers exist, each the one before it and a worker more.
LEMMA SumDef ==
  ASSUME NEW h
  PROVE  \E f : /\ Atomic!Sum(h) = f[MaxThreads] /\ f[0] = 0
                /\ \A n \in 1..MaxThreads : f[n] = f[n - 1] + h[n]
<1> DEFINE Body(f, n) == IF n = 0 THEN 0 ELSE f[n - 1] + h[n]
           P(m) == \E f : f = [n \in 0..m |-> Body(f, n)]
           T == {m \in Nat : ~P(m)}
           F == CHOOSE f : f = [n \in 0..MaxThreads |-> Body(f, n)]
<1>1. MaxThreads \in Nat
  BY BoundsAssumption
<1>2. P(0)
  <2> DEFINE f == [n \in 0..0 |-> 0]
  <2>1. f = [n \in 0..0 |-> Body(f, n)]
    OBVIOUS
  <2> QED
    BY <2>1
<1>3. ASSUME NEW m \in Nat, P(m) PROVE P(m + 1)
  <2>1. PICK f : f = [n \in 0..m |-> Body(f, n)]
    BY <1>3
  <2> DEFINE g == [n \in 0..(m + 1) |-> IF n = m + 1 THEN Body(f, n) ELSE f[n]]
  <2>2. ASSUME NEW n \in 0..(m + 1) PROVE g[n] = Body(g, n)
    <3>1. CASE n = 0
      <4>1. f[0] = Body(f, 0)
        BY <2>1
      <4> QED
        BY <3>1, <4>1
    <3>2. CASE n # 0
      <4>1. n - 1 \in 0..m /\ n - 1 # m + 1 /\ n - 1 \in 0..(m + 1)
        BY <3>2
      <4>2. g[n - 1] = f[n - 1]
        BY <4>1
      <4>3. Body(g, n) = Body(f, n)
        <5> HIDE DEF g
        <5> QED
          BY <3>2, <4>2
      <4>4. n # m + 1 => f[n] = Body(f, n)
        <5> SUFFICES ASSUME n # m + 1 PROVE f[n] = Body(f, n)
          OBVIOUS
        <5>1. n \in 0..m
          OBVIOUS
        <5> HIDE DEF Body
        <5> QED
          BY <5>1, <2>1
      <4> QED
        BY <4>3, <4>4
    <3> QED
      BY <3>1, <3>2
  <2> HIDE DEF Body
  <2>3. g = [n \in 0..(m + 1) |-> Body(g, n)]
    BY <2>2
  <2> QED
    BY <2>3
<1>4. T = {}
  <2> HIDE DEF P
  <2>1. SUFFICES ASSUME T # {} PROVE FALSE
    OBVIOUS
  <2>2. PICK x \in T : \A y \in T : x <= y
    BY <2>1, Least
  <2>3. x \in Nat /\ ~P(x) /\ x # 0
    BY <1>2
  <2>4. x - 1 \in Nat /\ x - 1 \notin T /\ (x - 1) + 1 = x
    BY <2>2, <2>3
  <2>5. P(x - 1)
    BY <2>4
  <2> QED
    BY <2>3, <2>4, <2>5, <1>3
<1>5. P(MaxThreads)
  <2> HIDE DEF P
  <2> QED
    BY <1>1, <1>4
<1>6. F = [n \in 0..MaxThreads |-> Body(F, n)]
  <2> HIDE DEF Body
  <2> QED
    BY <1>5
<1>7. Atomic!Sum(h) = F[MaxThreads]
  BY DEF Atomic!Sum
<1>8. ASSUME NEW n \in 0..MaxThreads PROVE F[n] = Body(F, n)
  <2> HIDE DEF F, Body
  <2> QED
    BY <1>6
<1>9. F[0] = 0 /\ \A n \in 1..MaxThreads : F[n] = F[n - 1] + h[n]
  <2> HIDE DEF F
  <2> QED
    BY <1>1, <1>8
<1> QED
  BY <1>7, <1>9

\* What holds of the sum of no worker and passes from each partial sum to the next holds
\* of the whole sum; here for sums of integers, and for how one differing worker shows.
LEMMA SumChange ==
  ASSUME NEW f \in [Threads -> Int], NEW g \in [Threads -> Int], NEW t \in Threads,
         NEW d \in Int, g[t] = f[t] + d, \A u \in Threads : u # t => g[u] = f[u]
  PROVE  /\ Atomic!Sum(f) \in Int
         /\ Atomic!Sum(g) = Atomic!Sum(f) + d
<1>1. PICK F : /\ Atomic!Sum(f) = F[MaxThreads] /\ F[0] = 0
               /\ \A n \in 1..MaxThreads : F[n] = F[n - 1] + f[n]
  BY SumDef
<1>2. PICK G : /\ Atomic!Sum(g) = G[MaxThreads] /\ G[0] = 0
               /\ \A n \in 1..MaxThreads : G[n] = G[n - 1] + g[n]
  BY SumDef
<1> DEFINE P(n) == F[n] \in Int /\ G[n] = F[n] + (IF t <= n THEN d ELSE 0)
           T == {n \in 0..MaxThreads : ~P(n)}
<1>3. MaxThreads \in Nat /\ t \in 1..MaxThreads
  BY BoundsAssumption DEF Threads
<1>4. P(0)
  BY <1>1, <1>2, <1>3
<1>5. ASSUME NEW n \in 1..MaxThreads, P(n - 1) PROVE P(n)
  <2>1. f[n] \in Int /\ g[n] = f[n] + (IF n = t THEN d ELSE 0)
    BY DEF Threads
  <2>2. F[n] = F[n - 1] + f[n] /\ G[n] = G[n - 1] + g[n]
    BY <1>1, <1>2
  <2> QED
    BY <1>3, <1>5, <2>1, <2>2
<1>6. T = {}
  <2> HIDE DEF P
  <2> SUFFICES ASSUME T # {} PROVE FALSE
    OBVIOUS
  <2>1. T \in SUBSET Nat
    BY <1>3
  <2>2. PICK x \in T : \A y \in T : x <= y
    BY <2>1, Least
  <2>3. x \in 1..MaxThreads /\ x - 1 \in 0..MaxThreads /\ x - 1 \notin T
    BY <1>3, <1>4, <2>2
  <2> QED
    BY <1>5, <2>2, <2>3
<1>7. P(MaxThreads)
  <2> HIDE DEF P
  <2> QED
    BY <1>3, <1>6
<1> QED
  BY <1>1, <1>2, <1>3, <1>7

\* The sum over the first m workers of what is at most b for each of them.
LEMMA SumBound ==
  ASSUME NEW f \in [Threads -> Int], NEW m \in 0..MaxThreads, NEW b \in Nat,
         \A t \in Threads : 0 <= f[t] /\ f[t] <= b /\ (t > m => f[t] = 0)
  PROVE  Atomic!Sum(f) \in Int /\ 0 <= Atomic!Sum(f) /\ Atomic!Sum(f) <= m * b
<1>1. PICK F : /\ Atomic!Sum(f) = F[MaxThreads] /\ F[0] = 0
               /\ \A n \in 1..MaxThreads : F[n] = F[n - 1] + f[n]
  BY SumDef
<1> DEFINE P(n) == F[n] \in Int /\ 0 <= F[n] /\ F[n] <= (IF n <= m THEN n ELSE m) * b
           T == {n \in 0..MaxThreads : ~P(n)}
<1>3. MaxThreads \in Nat
  BY BoundsAssumption
<1>4. P(0)
  BY <1>1, <1>3
<1>5. ASSUME NEW n \in 1..MaxThreads, P(n - 1) PROVE P(n)
  <2>1. f[n] \in Int /\ 0 <= f[n] /\ f[n] <= b /\ (n > m => f[n] = 0)
    BY DEF Threads
  <2>2. F[n] = F[n - 1] + f[n]
    BY <1>1
  <2>3. CASE n <= m
    <3>1. F[n - 1] \in Int /\ 0 <= F[n - 1] /\ F[n - 1] <= (n - 1) * b
      BY <1>3, <1>5, <2>3
    <3>2. (n - 1) * b = n * b - b
      BY <1>3
    <3> QED
      BY <1>3, <2>1, <2>2, <2>3, <3>1, <3>2
  <2>4. CASE n > m
    <3>1. F[n - 1] \in Int /\ 0 <= F[n - 1] /\ F[n - 1] <= m * b
      <4>1. n - 1 <= m => n - 1 = m
        BY <1>3, <2>4
      <4> QED
        BY <1>3, <1>5, <4>1
    <3> QED
      BY <1>3, <2>1, <2>2, <2>4, <3>1
  <2> QED
    BY <1>3, <2>3, <2>4
<1>6. T = {}
  <2> HIDE DEF P
  <2> SUFFICES ASSUME T # {} PROVE FALSE
    OBVIOUS
  <2>1. T \in SUBSET Nat
    BY <1>3
  <2>2. PICK x \in T : \A y \in T : x <= y
    BY <2>1, Least
  <2>3. x \in 1..MaxThreads /\ x - 1 \in 0..MaxThreads /\ x - 1 \notin T
    BY <1>3, <1>4, <2>2
  <2> QED
    BY <1>5, <2>2, <2>3
<1>7. P(MaxThreads)
  <2> HIDE DEF P
  <2> QED
    BY <1>3, <1>6
<1>8. (IF MaxThreads <= m THEN MaxThreads ELSE m) = m
  BY <1>3
<1> QED
  BY <1>1, <1>7, <1>8

-----------------------------------------------------------------------------
\* The type invariant: every variable keeps its type in every run of lab2_add.
THEOREM TypeCorrect == Spec => []TypeOK
<1> USE BoundsAssumption, SyncAssumption DEF Running, SigFpe
<1>0. NoOwner \notin Threads /\ \A j : j \in Threads <=> j \in 1..MaxThreads
  BY DEF NoOwner, Threads
<1>1. Init => TypeOK
  BY DEF Init, TypeOK
<1>2. TypeOK /\ [Next]_vars => TypeOK'
  <2> SUFFICES ASSUME TypeOK, [Next]_vars PROVE TypeOK'
    OBVIOUS
  <2> USE DEF TypeOK, options, shared, local, mainv
  <2>1. CASE GetOpts
    BY <1>0, <2>1 DEF GetOpts
  <2>2. CASE Create
    BY <1>0, <2>2 DEF Create
  <2>3. CASE Join
    BY <2>3 DEF Join
  <2>7. CASE LoopEnds
    BY <2>7 DEF LoopEnds
  <2>8. CASE Fail
    BY <2>8 DEF Fail
  <2>4. CASE Report
    BY <2>4 DEF Report
  <2>5. ASSUME NEW t \in Threads, Worker(t) PROVE TypeOK'
    <3> USE DEF At, Moves
    <3>1. CASE Call(t)
      BY <3>1 DEF Call
    <3>2. CASE MutexLock(t)
      BY <1>0, <3>2 DEF MutexLock
    <3>3. CASE TestAndSet(t)
      BY <3>3 DEF TestAndSet
    <3>4. CASE Spin(t)
      BY <3>4 DEF Spin
    <3>5. CASE Load(t)
      BY <3>5 DEF Load
    <3>6. CASE Store(t)
      <4>0. oldVal[t] + Value(t) \in Int
        BY DEF Value
      <4>1. CASE sync_type = "n"
        BY <3>6, <4>0, <4>1 DEF Store
      <4>2. CASE sync_type # "n"
        BY <3>6, <4>0, <4>2 DEF Store
      <4> QED
        BY <4>1, <4>2
    <3>7. CASE CompareAndSwap(t)
      <4>0. oldVal[t] + Value(t) \in Int
        BY DEF Value
      <4>1. CASE counter = oldVal[t]
        BY <3>7, <4>0, <4>1 DEF CompareAndSwap
      <4>2. CASE counter # oldVal[t]
        BY <3>7, <4>2 DEF CompareAndSwap
      <4> QED
        BY <4>1, <4>2
    <3>8. CASE Unlock(t)
      <4>1. CASE sync_type = "m"
        BY <3>8, <4>1 DEF Unlock
      <4>2. CASE sync_type # "m"
        BY <3>8, <4>2 DEF Unlock
      <4> QED
        BY <4>1, <4>2
    <3> QED
      BY <2>5, <3>1, <3>2, <3>3, <3>4, <3>5, <3>6, <3>7, <3>8 DEF Worker
  <2>6. CASE UNCHANGED vars
    BY <2>6 DEF vars
  <2> QED
    BY <2>1, <2>2, <2>3, <2>4, <2>5, <2>6, <2>7, <2>8 DEF Next, Main, Ended
<1> QED
  BY <1>1, <1>2, PTL DEF Spec

\* Every step keeps the inductive invariant.
LEMMA Inductive == Spec => []IInv
<1> USE BoundsAssumption, SyncAssumption DEF Running, SigFpe
<1>0. NoOwner \notin Threads /\ \A j : j \in Threads <=> j \in 1..MaxThreads
  BY DEF NoOwner, Threads
<1>1. Init => IInv
  BY DEF Init, IInv, TypeOK, PlacesOK, JoinsOK, LockWordOK, MutualExclusion, Locked
<1>2. IInv /\ TypeOK' /\ [Next]_vars => IInv'
  <2> SUFFICES ASSUME IInv, TypeOK', [Next]_vars PROVE IInv'
    OBVIOUS
  <2> USE DEF IInv, TypeOK, PlacesOK, JoinsOK, LockWordOK, MutualExclusion, Locked,
              options, shared, local, mainv
  <2>0. \A t \in Threads : t \in Nat /\ t >= 1
    BY <1>0
  <2>1. CASE GetOpts
    <3>1. mpc = "opts" /\ mpc' = "create" /\ k' = 1 /\ pc' = pc /\ done' = done
      BY <2>1 DEF GetOpts
    <3>2. \A t \in Threads : pc[t] = "none" /\ done[t] = 0
      BY <2>0, <3>1
    <3>3. JoinsOK'
      <4>1. n_threads' \in Nat
        BY BoundsAssumption
      <4>2. \A t \in Threads : pc'[t] = "none" /\ done'[t] = 0
        BY <3>1, <3>2
      <4> HIDE DEF IInv, TypeOK, PlacesOK, LockWordOK, MutualExclusion
      <4>3. mpc' # "opts" /\ mpc' # "join" /\ mpc' # "report"
        BY <3>1
      <4>4. k' <= n_threads' + 1
        <5>0. \A n \in Nat : 1 <= n + 1
          OBVIOUS
        <5>1. 1 <= n_threads' + 1
          BY <4>1, <5>0
        <5>2. k' = 1
          BY <3>1
        <5> QED
          BY <5>1, <5>2
      <4> QED
        BY <4>2, <4>3, <4>4
    <3>4. PlacesOK' /\ LockWordOK' /\ MutualExclusion'
      BY <2>1, <3>1, <3>2 DEF GetOpts
    <3> QED
      BY <3>3, <3>4
  <2>2. CASE Create
    <3>1. k \in Threads
      BY <1>0, <2>2 DEF Create
    <3>2. JoinsOK'
      BY <2>0, <2>2, <3>1 DEF Create
    <3>3. PlacesOK'
      BY <2>0, <2>2, <3>1 DEF Create
    <3>4. LockWordOK' /\ MutualExclusion'
      BY <2>2, <3>1 DEF Create
    <3> QED
      BY <3>2, <3>3, <3>4
  <2>3. CASE Join
    <3>1. k' = k + 1 /\ mpc' = "join" /\ pc[k] = "returned" /\ UNCHANGED <<options, local, shared>>
      BY <2>3 DEF Join
    <3>2. JoinsOK'
      BY <2>0, <2>3, <3>1 DEF Join
    <3>3. PlacesOK' /\ LockWordOK' /\ MutualExclusion'
      BY <2>3, <3>1 DEF Join
    <3> QED
      BY <3>2, <3>3
  <2>7. CASE LoopEnds
    <3>1. k > n_threads /\ UNCHANGED <<options, local, shared>>
      BY <2>7 DEF LoopEnds
    <3>2. CASE mpc = "create" /\ mpc' = "join" /\ k' = 1
      BY <2>0, <3>1, <3>2
    <3>3. CASE mpc = "join" /\ mpc' = "report" /\ k' = k
      <4>1. \A t \in Threads : t <= n_threads => t < k
        BY <2>0, <3>1
      <4> QED
        BY <2>0, <3>1, <3>3, <4>1
    <3> QED
      BY <2>7, <3>2, <3>3 DEF LoopEnds
  <2>8. CASE Fail
    BY <2>8 DEF Fail
  <2>4. CASE Report
    BY <2>4 DEF Report
  <2>5. ASSUME NEW t \in Threads, Worker(t) PROVE IInv'
    <3> USE DEF At, Moves
    <3>1. CASE Call(t)
      BY <3>1 DEF Call
    <3>2. CASE MutexLock(t)
      BY <1>0, <3>2 DEF MutexLock
    <3>3. CASE TestAndSet(t)
      BY <3>3 DEF TestAndSet
    <3>4. CASE Spin(t)
      BY <3>4 DEF Spin
    <3>5. CASE Load(t)
      BY <3>5 DEF Load
    <3>6. CASE Store(t)
      <4>0. oldVal[t] + Value(t) \in Int
        BY DEF Value
      <4>1. CASE sync_type = "n"
        BY <3>6, <4>0, <4>1 DEF Store
      <4>2. CASE sync_type # "n"
        BY <3>6, <4>0, <4>2 DEF Store
      <4> QED
        BY <4>1, <4>2
    <3>7. CASE CompareAndSwap(t)
      <4>0. oldVal[t] + Value(t) \in Int
        BY DEF Value
      <4>1. CASE counter = oldVal[t]
        BY <3>7, <4>0, <4>1 DEF CompareAndSwap
      <4>2. CASE counter # oldVal[t]
        BY <3>7, <4>2 DEF CompareAndSwap
      <4> QED
        BY <4>1, <4>2
    <3>8. CASE Unlock(t)
      <4>1. CASE sync_type = "m"
        BY <3>8, <4>1 DEF Unlock
      <4>2. CASE sync_type # "m"
        BY <3>8, <4>2 DEF Unlock
      <4> QED
        BY <4>1, <4>2
    <3> QED
      BY <2>5, <3>1, <3>2, <3>3, <3>4, <3>5, <3>6, <3>7, <3>8 DEF Worker
  <2>6. CASE UNCHANGED vars
    BY <2>6 DEF vars
  <2> QED
    BY <2>1, <2>2, <2>3, <2>4, <2>5, <2>6, <2>7, <2>8 DEF Next, Main, Ended
<1> QED
  BY <1>1, <1>2, TypeCorrect, PTL DEF Spec

\* With --sync=m or s, two workers are never both in the critical section of
\* add(), and nobody changes the counter between a worker's read and its write.
THEOREM MutexHolds == Spec => []MutualExclusion
  BY Inductive, PTL DEF IInv

\* Every way of protecting the addition - the mutex, the spin-lock and the
\* compare-and-swap loop - implements the indivisible addition, for any number
\* of threads and iterations; a run without protection makes as many additions,
\* of which nothing is promised.
THEOREM ImplementsAtomic == Spec => AddsAreAtomic
<1> USE BoundsAssumption DEF IInv, TypeOK
<1> DEFINE Completed == [t \in Threads |->
                           IF pc[t] = "unlock" THEN done[t] + 1 ELSE done[t]]
<1>0. Atomic!Threads = Threads
  BY DEF Threads, Atomic!Threads
<1>1. Init => Atomic!Init
  BY <1>0 DEF Init, Atomic!Init
<1>2. IInv /\ [Next]_vars => [Atomic!Next]_Atomic!vars
  <2> SUFFICES ASSUME IInv, [Next]_vars
               PROVE  Atomic!Next \/ UNCHANGED <<sync_type, counter, n_iterations, Completed>>
    BY DEF Atomic!vars
  <2> USE DEF options, shared, local, mainv, At, Moves
  <2>1. CASE GetOpts
    <3>1. Atomic!Configure(sync_type' # "n", n_iterations')
      BY <1>0, <2>1 DEF GetOpts, Atomic!Configure, PlacesOK, Threads
    <3> QED
      BY <2>1, <3>1 DEF GetOpts, Atomic!Next
  <2>2. CASE Main /\ ~GetOpts
    <3>1. /\ n_iterations' = n_iterations /\ sync_type' = sync_type
          /\ counter' = counter /\ done' = done
      BY <2>2 DEF Main, Create, LoopEnds, Join, Report, Fail
    <3>2. \A t \in Threads : pc'[t] = "unlock" <=> pc[t] = "unlock"
      <4>1. CASE Create
        <5>1. k \in Threads
          BY <4>1 DEF Create, Threads
        <5> QED
          BY <4>1, <5>1 DEF Create, PlacesOK
      <4>2. CASE ~Create
        BY <2>2, <4>2 DEF Main, LoopEnds, Join, Report, Fail
      <4> QED
        BY <4>1, <4>2
    <3> QED
      BY <3>1, <3>2
  <2>3. ASSUME NEW t \in Threads, Worker(t)
        PROVE  Atomic!Next \/ UNCHANGED <<sync_type, counter, n_iterations, Completed>>
    <3>0. mpc # "opts" /\ sync_type' = sync_type
      BY <2>3 DEF Worker, Call, MutexLock, TestAndSet, Spin, Load, Store,
                  CompareAndSwap, Unlock, PlacesOK, Threads
    <3>1. CASE Store(t)
      <4>0. counter' \in Int
        BY <3>1 DEF Store, Value
      <4>1. sync_type # "n" => counter' = counter + Value(t)
        BY <3>0, <3>1 DEF Store, MutualExclusion, Locked, PlacesOK
      <4>2. Completed[t] = done[t] /\ Completed' = [Completed EXCEPT ![t] = @ + 1]
        BY <3>0, <3>1 DEF Store
      <4>3. Atomic!Add(t)
        BY <3>0, <3>1, <4>0, <4>1, <4>2 DEF Store, Value, PlacesOK, Atomic!Add, Atomic!Delta
      <4> QED
        BY <1>0, <4>3 DEF Atomic!Next
    <3>2. CASE CompareAndSwap(t)
      <4>1. CASE counter = oldVal[t]
        <5>1. Completed[t] = done[t] /\ Completed' = [Completed EXCEPT ![t] = @ + 1]
          BY <3>2, <4>1 DEF CompareAndSwap
        <5>2. Atomic!Add(t)
          BY <3>0, <3>2, <4>1, <5>1
             DEF CompareAndSwap, Value, PlacesOK, Atomic!Add, Atomic!Delta
        <5> QED
          BY <1>0, <5>2 DEF Atomic!Next
      <4>2. CASE counter # oldVal[t]
        BY <3>2, <4>2 DEF CompareAndSwap
      <4> QED
        BY <4>1, <4>2
    <3>3. CASE Unlock(t)
      BY <3>3 DEF Unlock
    <3>4. CASE Call(t) \/ MutexLock(t) \/ TestAndSet(t) \/ Spin(t) \/ Load(t)
      BY <3>4 DEF Call, MutexLock, TestAndSet, Spin, Load
    <3> QED
      BY <2>3, <3>1, <3>2, <3>3, <3>4 DEF Worker
  <2>4. CASE UNCHANGED vars
    BY <2>4 DEF vars
  <2> QED
    BY <2>1, <2>2, <2>3, <2>4 DEF Next, Main, Ended
<1> QED
  BY <1>1, <1>2, Inductive, PTL DEF Spec, AddsAreAtomic, Atomic!Spec

-----------------------------------------------------------------------------
\* The counter

\* What every worker has added, of each sign and in all, is a number of the right size.
LEMMA PartsTyped ==
  ASSUME IInv
  PROVE  /\ Made \in [Threads -> Nat]
         /\ UpParts \in [Threads -> Int] /\ DownParts \in [Threads -> Int]
         /\ NetParts \in [Threads -> Int]
         /\ \A t \in Threads : Made[t] <= 2 * n_iterations
         /\ \A t \in Threads : t > n_threads /\ mpc # "opts" => Made[t] = 0
         /\ mpc = "opts" => \A t \in Threads : Made[t] = 0
<1>1. n_iterations \in Nat /\ done \in [Threads -> Nat] /\ \A t \in Threads : t >= 1
  BY BoundsAssumption DEF IInv, TypeOK, Threads
<1>2. Made \in [Threads -> Nat]
  BY <1>1 DEF Made
<1>3. \A t \in Threads : Made[t] <= 2 * n_iterations
  BY <1>1 DEF Made, IInv, PlacesOK, TypeOK
<1>4. \A t \in Threads : t > n_threads /\ mpc # "opts" => Made[t] = 0
  BY <1>1 DEF Made, IInv, JoinsOK
<1>5. mpc = "opts" => \A t \in Threads : Made[t] = 0
  BY <1>1 DEF Made, IInv, PlacesOK
<1>6. \A n \in Nat : Ups(n) \in Int /\ Downs(n) \in Int /\ Atomic!Net(n) \in Int
  BY <1>1 DEF Ups, Downs, Atomic!Net
<1>7. UpParts \in [Threads -> Int] /\ DownParts \in [Threads -> Int] /\ NetParts \in [Threads -> Int]
  BY <1>2, <1>6 DEF UpParts, DownParts, NetParts
<1> QED
  BY <1>2, <1>3, <1>4, <1>5, <1>7

\* A worker's addition: what it read and its amount are the new counter, and in a
\* synchronised run it read the counter as it is.
Adds(t) ==
  /\ UNCHANGED <<options, oldVal, report, status>> /\ status = Running
  /\ pc[t] \in {"store", "cas"} /\ Made[t] < 2 * n_iterations
  /\ counter' = oldVal[t] + Atomic!Delta(Made[t])
  /\ sync_type # "n" => oldVal[t] = counter
  /\ Made' = [Made EXCEPT ![t] = @ + 1]
  /\ \A u \in Threads : pc'[u] \in {"store", "cas"} => pc[u] \in {"store", "cas"}

\* Any other step: the counter stays, and what a worker holds of it was read from it.
Stays ==
  /\ counter' = counter
  /\ \/ UNCHANGED <<options, Made>>
     \/ (\A t \in Threads : Made[t] = 0 /\ Made'[t] = 0)
  /\ \A u \in Threads : pc'[u] \in {"store", "cas"} =>
       \/ oldVal'[u] = counter
       \/ pc[u] \in {"store", "cas"} /\ oldVal'[u] = oldVal[u]
  /\ \/ UNCHANGED <<sync_type, report, status>>
     \/ status' # 0
     \/ mpc = "report" /\ report' = counter /\ sync_type' = sync_type

\* Every step of the program is an addition or leaves the counter alone.
LEMMA StepAdds ==
  ASSUME IInv, IInv', [Next]_vars
  PROVE  (\E t \in Threads : Adds(t)) \/ Stays
<1> USE BoundsAssumption DEF IInv, TypeOK, options, shared, local, mainv, At, Moves, Running, SigFpe
<1>1. CASE status = Running /\ GetOpts
  <2>1. mpc = "opts" /\ pc' = pc /\ done' = done
    BY <1>1 DEF GetOpts
  <2>2. \A t \in Threads : pc[t] = "none" /\ done[t] = 0
    BY <2>1 DEF PlacesOK, Threads
  <2>3. \A t \in Threads : Made[t] = 0 /\ Made'[t] = 0
    BY <2>1, <2>2 DEF Made
  <2>4. status' # 0 \/ UNCHANGED <<sync_type, report, status>>
    BY <1>1 DEF GetOpts
  <2> QED
    BY <1>1, <2>1, <2>2, <2>3, <2>4 DEF GetOpts, Stays
<1>2. CASE Create \/ LoopEnds \/ Join \/ Fail \/ Report
  <2>1. options' = options /\ counter' = counter /\ done' = done /\ oldVal' = oldVal
    BY <1>2 DEF Create, LoopEnds, Join, Report, Fail
  <2>2. \A t \in Threads : pc'[t] # pc[t] => pc[t] = "none" /\ pc'[t] = "loop"
    <3>1. CASE Create
      <4>1. k \in Threads
        BY <3>1 DEF Create, Threads
      <4> QED
        BY <3>1, <4>1 DEF Create, PlacesOK
    <3>2. CASE LoopEnds \/ Join \/ Fail \/ Report
      BY <3>2 DEF LoopEnds, Join, Report, Fail
    <3> QED
      BY <1>2, <3>1, <3>2
  <2>3. Made' = Made
    BY <2>1, <2>2 DEF Made
  <2>4. \/ UNCHANGED <<sync_type, report, status>>
        \/ status' # 0
        \/ mpc = "report" /\ report' = counter /\ sync_type' = sync_type
    BY <1>2 DEF Create, LoopEnds, Join, Report, Fail
  <2> QED
    BY <2>1, <2>2, <2>3, <2>4 DEF Stays
<1>3. ASSUME NEW t \in Threads, Worker(t) PROVE Adds(t) \/ Stays
  <2>1. CASE Store(t)
    <3>1. sync_type # "n" => oldVal[t] = counter
      BY <2>1 DEF Store, MutualExclusion, Locked, PlacesOK
    <3>2. Made[t] = done[t] /\ Made' = [Made EXCEPT ![t] = @ + 1]
      <4>1. Made[t] = done[t] /\ Made'[t] = done[t] + 1
        BY <2>1 DEF Store, Made
      <4>2. \A u \in Threads : u # t => Made'[u] = Made[u]
        BY <2>1 DEF Store, Made
      <4>3. Made' \in [Threads -> Nat] /\ Made \in [Threads -> Nat]
        BY PartsTyped DEF Made
      <4> HIDE DEF IInv, TypeOK
      <4> QED
        BY <4>1, <4>2, <4>3
    <3>3. counter' = oldVal[t] + Atomic!Delta(Made[t])
      BY <2>1, <3>2 DEF Store, Value, Atomic!Delta
    <3>4. Made[t] < 2 * n_iterations
      BY <2>1, <3>2 DEF Store, PlacesOK
    <3> QED
      BY <1>3, <2>1, <3>1, <3>2, <3>3, <3>4 DEF Store, Adds, Worker
  <2>2. CASE CompareAndSwap(t) /\ counter = oldVal[t]
    <3>2. Made[t] = done[t] /\ Made' = [Made EXCEPT ![t] = @ + 1]
      <4>1. Made[t] = done[t] /\ Made'[t] = done[t] + 1
        BY <2>2 DEF CompareAndSwap, Made
      <4>2. \A u \in Threads : u # t => Made'[u] = Made[u]
        BY <2>2 DEF CompareAndSwap, Made
      <4>3. Made' \in [Threads -> Nat] /\ Made \in [Threads -> Nat]
        BY PartsTyped DEF Made
      <4> HIDE DEF IInv, TypeOK
      <4> QED
        BY <4>1, <4>2, <4>3
    <3>3. counter' = oldVal[t] + Atomic!Delta(Made[t])
      BY <2>2, <3>2 DEF CompareAndSwap, Value, Atomic!Delta
    <3>4. Made[t] < 2 * n_iterations
      BY <2>2, <3>2 DEF CompareAndSwap, PlacesOK
    <3> QED
      BY <1>3, <2>2, <3>2, <3>3, <3>4 DEF CompareAndSwap, Adds, Worker
  <2>3. CASE CompareAndSwap(t) /\ counter # oldVal[t]
    <3>1. Made' = Made
      BY <2>3 DEF CompareAndSwap, Made
    <3> QED
      BY <2>3, <3>1 DEF CompareAndSwap, Stays
  <2>4. CASE Unlock(t)
    <3>1. Made' = Made
      BY <2>4 DEF Unlock, Made
    <3> QED
      BY <2>4, <3>1 DEF Unlock, Stays
  <2>5. CASE Call(t) \/ MutexLock(t) \/ TestAndSet(t) \/ Spin(t) \/ Load(t)
    <3>1. Made' = Made
      BY <2>5 DEF Call, MutexLock, TestAndSet, Spin, Load, Made
    <3>2. options' = options /\ counter' = counter /\ UNCHANGED <<report, status>>
      BY <2>5 DEF Call, MutexLock, TestAndSet, Spin, Load
    <3>3. CASE Load(t)
      BY <3>1, <3>2, <3>3 DEF Load, Stays
    <3>4. CASE Call(t) \/ MutexLock(t) \/ TestAndSet(t) \/ Spin(t)
      BY <3>1, <3>2, <3>4 DEF Call, MutexLock, TestAndSet, Spin, Stays
    <3> QED
      BY <2>5, <3>3, <3>4
  <2> QED
    BY <1>3, <2>1, <2>2, <2>3, <2>4, <2>5 DEF Worker
<1>4. CASE UNCHANGED vars
  <2>1. Made' = Made
    BY <1>4 DEF vars, Made
  <2> QED
    BY <1>4, <2>1 DEF vars, Stays
<1> QED
  BY <1>1, <1>2, <1>3, <1>4 DEF Next, Main, Ended

\* An addition is one more of its sign, and of nothing else.
LEMMA AddsOne ==
  ASSUME IInv, IInv', NEW t \in Threads, Adds(t)
  PROVE  /\ UpSum \in Int /\ DownSum \in Int /\ NetSum \in Int
         /\ UpSum' = UpSum + (IF Made[t] < n_iterations THEN 1 ELSE 0)
         /\ DownSum' = DownSum + (IF Made[t] < n_iterations THEN 0 ELSE 1)
         /\ NetSum' = NetSum + Atomic!Delta(Made[t])
<1>1. /\ Made \in [Threads -> Nat] /\ Made[t] < 2 * n_iterations
      /\ Made' = [Made EXCEPT ![t] = @ + 1] /\ n_iterations' = n_iterations
      /\ n_iterations \in Nat
  BY PartsTyped, BoundsAssumption DEF Adds, options, IInv, TypeOK
<1>2. /\ UpParts \in [Threads -> Int] /\ UpParts' \in [Threads -> Int]
      /\ DownParts \in [Threads -> Int] /\ DownParts' \in [Threads -> Int]
      /\ NetParts \in [Threads -> Int] /\ NetParts' \in [Threads -> Int]
  <2>1. Made' \in [Threads -> Nat] /\ n_iterations' \in Nat
    BY <1>1
  <2>2. /\ UpParts' \in [Threads -> Int] /\ DownParts' \in [Threads -> Int]
        /\ NetParts' \in [Threads -> Int]
    BY <2>1 DEF UpParts, DownParts, NetParts, Ups, Downs, Atomic!Net
  <2> QED
    BY PartsTyped, <2>2
<1>3. \A u \in Threads : u # t => /\ UpParts'[u] = UpParts[u] /\ DownParts'[u] = DownParts[u]
                                  /\ NetParts'[u] = NetParts[u]
  BY <1>1 DEF UpParts, DownParts, NetParts, Ups, Downs, Atomic!Net
<1>4. UpParts'[t] = UpParts[t] + (IF Made[t] < n_iterations THEN 1 ELSE 0)
  BY <1>1 DEF UpParts, Ups
<1>5. DownParts'[t] = DownParts[t] + (IF Made[t] < n_iterations THEN 0 ELSE 1)
  BY <1>1 DEF DownParts, Downs
<1>6. NetParts'[t] = NetParts[t] + Atomic!Delta(Made[t]) /\ Atomic!Delta(Made[t]) \in Int
  BY <1>1 DEF NetParts, Atomic!Net, Atomic!Delta
<1> DEFINE u == IF Made[t] < n_iterations THEN 1 ELSE 0
           d == IF Made[t] < n_iterations THEN 0 ELSE 1
           e == Atomic!Delta(Made[t])
<1>7. u \in Int /\ UpParts'[t] = UpParts[t] + u
  BY <1>4
<1>8. d \in Int /\ DownParts'[t] = DownParts[t] + d
  BY <1>5
<1>12. e \in Int /\ NetParts'[t] = NetParts[t] + e
  BY <1>6
<1> HIDE DEF u, d, e
<1>9. Atomic!Sum(UpParts) \in Int
      /\ Atomic!Sum(UpParts') = Atomic!Sum(UpParts) + u
  BY <1>2, <1>3, <1>7, SumChange
<1>10. Atomic!Sum(DownParts) \in Int
       /\ Atomic!Sum(DownParts') = Atomic!Sum(DownParts) + d
  BY <1>2, <1>3, <1>8, SumChange
<1>11. Atomic!Sum(NetParts) \in Int
       /\ Atomic!Sum(NetParts') = Atomic!Sum(NetParts) + e
  BY <1>2, <1>3, <1>12, SumChange
<1> QED
  BY <1>9, <1>10, <1>11 DEF UpSum, DownSum, NetSum, u, d, e

\* Where the additions of every worker cancel out, the sums are zero.
LEMMA ZeroSum ==
  ASSUME NEW f \in [Threads -> Int], \A t \in Threads : f[t] = 0
  PROVE  Atomic!Sum(f) = 0
<1>1. 0 \in 0..MaxThreads /\ 0 \in Nat /\ 0 * 0 = 0
  BY BoundsAssumption
<1>2. \A t \in Threads : 0 <= f[t] /\ f[t] <= 0 /\ (t > 0 => f[t] = 0)
  OBVIOUS
<1>3. Atomic!Sum(f) \in Int /\ 0 <= Atomic!Sum(f) /\ Atomic!Sum(f) <= 0 * 0
  BY <1>1, <1>2, SumBound
<1> QED
  BY <1>1, <1>3

\* What a run that is synchronised keeps of its counter, and what any run does.
CounterOK == (sync_type # "n" => counter = NetSum) /\ ReportsZero /\ Within

\* Before the first addition every sum is zero.
LEMMA NothingAdded ==
  ASSUME IInv, \A t \in Threads : Made[t] = 0
  PROVE  UpSum = 0 /\ DownSum = 0 /\ NetSum = 0
<1>1. n_iterations \in Nat
  BY BoundsAssumption DEF IInv, TypeOK
<1>2. \A t \in Threads : UpParts[t] = 0 /\ DownParts[t] = 0 /\ NetParts[t] = 0
  BY <1>1 DEF UpParts, DownParts, NetParts, Ups, Downs, Atomic!Net
<1> QED
  BY <1>2, PartsTyped, ZeroSum DEF UpSum, DownSum, NetSum

\* Once every worker has been joined, what each has added cancels out.
LEMMA AllJoined ==
  ASSUME IInv, mpc = "report"
  PROVE  NetSum = 0
<1>1. n_iterations \in Nat /\ n_threads \in Nat /\ \A t \in Threads : t \in Nat
  BY BoundsAssumption DEF IInv, TypeOK, Threads
<1>2. \A t \in Threads : Made[t] = 0 \/ Made[t] = 2 * n_iterations
  BY <1>1 DEF Made, IInv, JoinsOK
<1>3. \A t \in Threads : NetParts[t] = 0
  BY <1>1, <1>2 DEF NetParts, Atomic!Net
<1> QED
  BY <1>3, PartsTyped, ZeroSum DEF NetSum

\* Every step keeps the counter right.
LEMMA CounterKept ==
  ASSUME IInv, IInv', CounterOK, [Next]_vars
  PROVE  CounterOK'
<1>0. /\ counter \in Int /\ oldVal \in [Threads -> Int] /\ n_iterations \in Nat
      /\ Made \in [Threads -> Nat]
  BY PartsTyped, BoundsAssumption DEF IInv, TypeOK
<1>1. ASSUME NEW t \in Threads, Adds(t) PROVE CounterOK'
  <2> DEFINE d == Atomic!Delta(Made[t])
             u == IF Made[t] < n_iterations THEN 1 ELSE 0
             v == IF Made[t] < n_iterations THEN 0 ELSE 1
  <2>1. /\ UpSum \in Int /\ DownSum \in Int /\ NetSum \in Int
        /\ UpSum' = UpSum + u /\ DownSum' = DownSum + v /\ NetSum' = NetSum + d
    BY <1>1, AddsOne
  <2>2. d \in Int /\ u \in Int /\ v \in Int /\ u >= 0 /\ v >= 0 /\ -v <= d /\ d <= u
    BY DEF Atomic!Delta
  <2>3. counter' = oldVal[t] + d /\ oldVal' = oldVal /\ sync_type' = sync_type
    BY <1>1 DEF Adds, options
  <2>4. /\ sync_type # "n" => oldVal[t] = counter
        /\ pc[t] \in {"store", "cas"} /\ status' = status /\ status = Running
        /\ \A w \in Threads : pc'[w] \in {"store", "cas"} => pc[w] \in {"store", "cas"}
    BY <1>1 DEF Adds
  <2> HIDE DEF d, u, v
  <2>5. sync_type' # "n" => counter' = NetSum'
    BY <2>1, <2>3, <2>4 DEF CounterOK
  <2>6. ReportsZero'
    BY <2>4 DEF ReportsZero, Running
  <2>7. -DownSum <= oldVal[t] /\ oldVal[t] <= UpSum
    BY <2>4 DEF CounterOK, Within
  <2>8. -DownSum' <= counter' /\ counter' <= UpSum'
    BY <1>0, <2>1, <2>2, <2>3, <2>7
  <2>9. ASSUME NEW w \in Threads, pc'[w] \in {"store", "cas"}
        PROVE  -DownSum' <= oldVal'[w] /\ oldVal'[w] <= UpSum'
    <3>1. -DownSum <= oldVal[w] /\ oldVal[w] <= UpSum /\ oldVal[w] \in Int
      BY <1>0, <2>4, <2>9 DEF CounterOK, Within
    <3> QED
      BY <2>1, <2>2, <2>3, <3>1
  <2> QED
    BY <2>5, <2>6, <2>8, <2>9 DEF CounterOK, Within
<1>2. CASE Stays
  <2>1. UpSum' = UpSum /\ DownSum' = DownSum /\ NetSum' = NetSum
    <3>1. CASE UNCHANGED <<options, Made>>
      BY <3>1 DEF UpSum, DownSum, NetSum, UpParts, DownParts, NetParts, Ups, Downs, Atomic!Net,
                  options
    <3>2. CASE \A t \in Threads : Made[t] = 0 /\ Made'[t] = 0
      <4>1. UpSum = 0 /\ DownSum = 0 /\ NetSum = 0
        BY <3>2, NothingAdded
      <4>2. UpSum' = 0 /\ DownSum' = 0 /\ NetSum' = 0
        <5>1. n_iterations' \in Nat
          BY BoundsAssumption DEF IInv, TypeOK
        <5>2. \A t \in Threads : UpParts'[t] = 0 /\ DownParts'[t] = 0 /\ NetParts'[t] = 0
          BY <3>2, <5>1 DEF UpParts, DownParts, NetParts, Ups, Downs, Atomic!Net
        <5>3. /\ UpParts' \in [Threads -> Int] /\ DownParts' \in [Threads -> Int]
              /\ NetParts' \in [Threads -> Int]
          BY <3>2, <5>1 DEF UpParts, DownParts, NetParts, Ups, Downs, Atomic!Net
        <5>4. /\ Atomic!Sum(UpParts') = 0 /\ Atomic!Sum(DownParts') = 0
              /\ Atomic!Sum(NetParts') = 0
          BY <5>2, <5>3, ZeroSum
        <5> QED
          BY <5>4 DEF UpSum, DownSum, NetSum
      <4> QED
        BY <4>1, <4>2
    <3> QED
      BY <1>2, <3>1, <3>2 DEF Stays
  <2>2. Within'
    BY <1>2, <2>1 DEF Stays, CounterOK, Within
  <2>3. sync_type' # "n" => counter' = NetSum'
    <3>1. CASE sync_type' = sync_type
      BY <1>2, <2>1, <3>1 DEF Stays, CounterOK
    <3>2. CASE sync_type' # sync_type
      <4>1. \A t \in Threads : Made[t] = 0
        BY <1>2, <3>2 DEF Stays, options
      <4>2. UpSum = 0 /\ DownSum = 0 /\ NetSum = 0
        BY <4>1, NothingAdded
      <4>3. counter = 0
        BY <1>0, <4>2 DEF CounterOK, Within
      <4> QED
        BY <1>2, <2>1, <4>2, <4>3 DEF Stays
    <3> QED
      BY <3>1, <3>2
  <2>4. ReportsZero'
    <3>1. CASE UNCHANGED <<sync_type, report, status>>
      BY <3>1 DEF CounterOK, ReportsZero
    <3>2. CASE status' # 0
      BY <3>2 DEF ReportsZero
    <3>3. CASE mpc = "report" /\ report' = counter /\ sync_type' = sync_type
      BY <3>3, AllJoined DEF CounterOK, ReportsZero
    <3> QED
      BY <1>2, <3>1, <3>2, <3>3 DEF Stays
  <2> QED
    BY <2>2, <2>3, <2>4 DEF CounterOK
<1> QED
  BY <1>1, <1>2, StepAdds

\* No addition of a synchronised run is ever lost, so main() reports 0; and without
\* synchronisation the counter stays within what the additions of one sign could reach:
\* whatever the threads' interleaving, for any number of threads and iterations.
THEOREM CounterIsRight == Spec => []CounterRight
<1>1. Init /\ IInv => CounterOK
  <2> SUFFICES ASSUME Init, IInv PROVE CounterOK
    OBVIOUS
  <2>1. \A t \in Threads : Made[t] = 0 /\ pc[t] = "none"
    BY DEF Init, Made
  <2>2. UpSum = 0 /\ DownSum = 0 /\ NetSum = 0
    BY <2>1, NothingAdded
  <2> QED
    BY <2>1, <2>2 DEF Init, CounterOK, Within, ReportsZero
<1>2. IInv /\ IInv' /\ CounterOK /\ [Next]_vars => CounterOK'
  BY CounterKept
<1>3. IInv /\ CounterOK => CounterRight
  <2> SUFFICES ASSUME IInv, CounterOK PROVE CounterRight
    OBVIOUS
  <2>1. NoLostUpdate
    <3>1. Atomic!Threads = Threads
      BY DEF Threads, Atomic!Threads
    <3> QED
      BY <3>1 DEF NoLostUpdate, Atomic!CounterIsSum, CounterOK, NetSum, NetParts, Made
  <2>2. UnsyncedBounded
    <3>0. /\ counter \in Int /\ n_iterations \in Nat /\ n_threads \in 0..MaxThreads
          /\ MaxThreads \in Nat
      BY BoundsAssumption DEF IInv, TypeOK
    <3>1. \A t \in Threads : t > n_threads => Made[t] = 0
      BY PartsTyped
    <3>2. \A t \in Threads : Made[t] \in Nat /\ Made[t] <= 2 * n_iterations
      BY PartsTyped
    <3>3. \A t \in Threads : 0 <= UpParts[t] /\ UpParts[t] <= n_iterations
                             /\ (t > n_threads => UpParts[t] = 0)
      BY <3>0, <3>1, <3>2 DEF UpParts, Ups
    <3>4. \A t \in Threads : 0 <= DownParts[t] /\ DownParts[t] <= n_iterations
                             /\ (t > n_threads => DownParts[t] = 0)
      BY <3>0, <3>1, <3>2 DEF DownParts, Downs
    <3>5. UpSum \in Int /\ UpSum <= n_threads * n_iterations
      BY <3>0, <3>3, PartsTyped, SumBound DEF UpSum
    <3>6. DownSum \in Int /\ DownSum <= n_threads * n_iterations
      BY <3>0, <3>4, PartsTyped, SumBound DEF DownSum
    <3>7. n_threads * n_iterations \in Int
      BY <3>0
    <3>8. -DownSum <= counter /\ counter <= UpSum
      BY DEF CounterOK, Within
    <3> DEFINE b == n_threads * n_iterations
    <3>9. b \in Int /\ DownSum \in Int /\ DownSum <= b /\ UpSum \in Int /\ UpSum <= b
      BY <3>5, <3>6, <3>7
    <3> HIDE DEF b
    <3>10. -b <= counter /\ counter <= b
      BY <3>0, <3>8, <3>9
    <3>11. counter \in -b..b
      BY <3>0, <3>9, <3>10
    <3> QED
      BY <3>11 DEF b, UnsyncedBounded
  <2> QED
    BY <2>1, <2>2 DEF CounterRight, CounterOK
<1> QED
  BY <1>1, <1>2, <1>3, Inductive, PTL DEF Spec
=============================================================================
