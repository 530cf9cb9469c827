----------------------------- MODULE AtomicCounter -----------------------------
(***************************************************************************)
(* What a run of lab2_add promises: a shared counter that every worker     *)
(* changes as often as configured in each of its two loops and, in a       *)
(* synchronised run, only by whole, indivisible additions: first of +1,    *)
(* then of -1.                                                             *)
(***************************************************************************)
EXTENDS Integers

CONSTANTS MaxThreads,   \* the largest --threads value considered
          MaxIters      \* the largest --iterations value considered

Threads == 1..MaxThreads   \* identities of the workers

VARIABLES synced,     \* the additions are synchronised
          value,      \* the shared counter
          iters,      \* additions of each sign a worker makes
          completed   \* completed[t]: the additions worker t has made

vars == <<synced, value, iters, completed>>

\* The amount of a worker's next addition once it has made n of them.
Delta(n) == IF n < iters THEN 1 ELSE -1

Init ==
  /\ synced \in BOOLEAN /\ value = 0 /\ iters \in 0..MaxIters
  /\ completed = [t \in Threads |-> 0]

Configure(b, n) ==
  /\ \A t \in Threads : completed[t] = 0
  /\ synced' = b /\ iters' = n
  /\ UNCHANGED <<value, completed>>

Add(t) ==
  /\ completed[t] < 2 * iters
  /\ value' \in Int
  /\ synced => value' = value + Delta(completed[t])
  /\ completed' = [completed EXCEPT ![t] = @ + 1]
  /\ UNCHANGED <<synced, iters>>

Next ==
  \/ \E b \in BOOLEAN, n \in 0..MaxIters : Configure(b, n)
  \/ \E t \in Threads : Add(t)

Spec == Init /\ [][Next]_vars

-----------------------------------------------------------------------------
\* The sum of f over the workers.
Sum(f) == LET upTo[n \in 0..MaxThreads] == IF n = 0 THEN 0 ELSE upTo[n - 1] + f[n]
          IN  upTo[MaxThreads]

\* What a worker has contributed to the counter after n additions.
Net(n) == IF n < iters THEN n ELSE 2 * iters - n

\* The counter of a synchronised run is exactly the sum of the workers'
\* contributions, so it is back at zero when they have made all their additions.
CounterIsSum ==
  synced => value = Sum([t \in Threads |-> Net(completed[t])])
=============================================================================
