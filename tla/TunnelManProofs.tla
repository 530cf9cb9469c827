--------------------------- MODULE TunnelManProofs ---------------------------
(***************************************************************************)
(* Proofs about TunnelMan, for any numbers of actors and any settings of   *)
(* the boulders' clock, hit points, lives and levels.                      *)
(***************************************************************************)
EXTENDS TunnelMan, FiniteSetTheorems, SequenceTheorems, TLAPS

Kinds  == {"boulder", "barrel", "nugget", "protester", "squirt", "bribe", "kit", "pool"}
States == {"stable", "waiting", "falling", "alive", "permanent", "searching", "temporary", "dead"}
ActorSet == [kind : Kinds, state : States, clock : Int, n : Int]

-----------------------------------------------------------------------------
\* Counting actors

\* The actors that live are finitely many.
LEMMA LivingFinite ==
  ASSUME NEW s \in Seq(ActorSet), NEW kind
  PROVE  IsFiniteSet(Living(s, kind)) /\ Cardinality(Living(s, kind)) \in Nat
<1>1. DOMAIN s = 1..Len(s) /\ Len(s) \in Nat
  OBVIOUS
<1>2. IsFiniteSet(DOMAIN s)
  BY <1>1, FS_Interval
<1>3. Living(s, kind) \subseteq DOMAIN s
  BY DEF Living
<1> QED
  BY <1>2, <1>3, FS_Subset, FS_CardinalityType

\* An actor that changes and lives on changes no count.
LEMMA CountSame ==
  ASSUME NEW s \in Seq(ActorSet), NEW i \in DOMAIN s, s[i].state # "dead", NEW a \in ActorSet,
         a.kind = s[i].kind, NEW kind, a.state # "dead" \/ a.kind # kind
  PROVE  Living([s EXCEPT ![i] = a], kind) = Living(s, kind)
  BY DEF Living

\* An actor that dies is one less of its kind.
LEMMA CountLess ==
  ASSUME NEW s \in Seq(ActorSet), NEW i \in DOMAIN s, s[i].state # "dead", NEW a \in ActorSet,
         a.kind = s[i].kind, a.state = "dead"
  PROVE  Cardinality(Living([s EXCEPT ![i] = a], a.kind)) = Cardinality(Living(s, a.kind)) - 1
<1>1. Living([s EXCEPT ![i] = a], a.kind) = Living(s, a.kind) \ {i}
  BY DEF Living
<1>2. i \in Living(s, a.kind)
  BY DEF Living
<1> QED
  BY <1>1, <1>2, LivingFinite, FS_RemoveElement

\* A living actor that is added is one more of its kind.
LEMMA CountMore ==
  ASSUME NEW s \in Seq(ActorSet), NEW a \in ActorSet, NEW kind
  PROVE  /\ a.kind # kind \/ a.state = "dead" => Living(Append(s, a), kind) = Living(s, kind)
         /\ a.kind = kind /\ a.state # "dead" =>
              /\ Living(Append(s, a), kind) = Living(s, kind) \cup {Len(s) + 1}
              /\ Cardinality(Living(Append(s, a), kind)) = Cardinality(Living(s, kind)) + 1
<1> DEFINE r == Append(s, a)
<1>1. /\ Len(s) \in Nat /\ DOMAIN s = 1..Len(s) /\ DOMAIN r = 1..(Len(s) + 1)
      /\ r[Len(s) + 1] = a /\ \A k \in 1..Len(s) : r[k] = s[k]
  BY AppendProperties
<1> HIDE DEF r
<1>2. \A k \in DOMAIN r : k \in DOMAIN s \/ k = Len(s) + 1
  BY <1>1
<1>3. Len(s) + 1 \notin Living(s, kind)
  BY <1>1 DEF Living
<1>4. a.kind # kind \/ a.state = "dead" => Living(r, kind) = Living(s, kind)
  BY <1>1, <1>2 DEF Living
<1>5. a.kind = kind /\ a.state # "dead" => Living(r, kind) = Living(s, kind) \cup {Len(s) + 1}
  BY <1>1, <1>2 DEF Living
<1>6. a.kind = kind /\ a.state # "dead" => Cardinality(Living(r, kind)) = Cardinality(Living(s, kind)) + 1
  BY <1>3, <1>5, LivingFinite, FS_AddElement
<1> QED
  BY <1>4, <1>5, <1>6 DEF r

-----------------------------------------------------------------------------
\* Erasing an actor

\* What is behind the actor that is erased moves up by one.
LEMMA Erased ==
  ASSUME NEW s \in Seq(ActorSet), NEW i \in DOMAIN s
  PROVE  LET r == RemoveAt(s, i) IN
         /\ r \in Seq(ActorSet) /\ Len(r) = Len(s) - 1 /\ Len(r) \in Nat /\ DOMAIN r = 1..Len(r)
         /\ \A k \in 1..Len(r) : r[k] = IF k < i THEN s[k] ELSE s[k + 1]
<1> DEFINE a == SubSeq(s, 1, i - 1)
           b == SubSeq(s, i + 1, Len(s))
           r == RemoveAt(s, i)
<1>1. Len(s) \in Nat /\ DOMAIN s = 1..Len(s) /\ i \in 1..Len(s) /\ \A k \in 1..Len(s) : s[k] \in ActorSet
  OBVIOUS
<1>2. a \in Seq(ActorSet) /\ Len(a) = i - 1 /\ \A k \in 1..(i - 1) : a[k] = s[k]
  <2>1. /\ a \in Seq(ActorSet) /\ Len(a) = IF 1 <= i - 1 THEN (i - 1) - 1 + 1 ELSE 0
        /\ \A k \in 1..((i - 1) - 1 + 1) : a[k] = s[1 + k - 1]
    BY <1>1, SubSeqProperties
  <2> HIDE DEF a
  <2> QED
    BY <1>1, <2>1
<1>3. b \in Seq(ActorSet) /\ Len(b) = Len(s) - i /\ \A k \in 1..(Len(s) - i) : b[k] = s[i + k]
  <2>1. /\ b \in Seq(ActorSet) /\ Len(b) = IF i + 1 <= Len(s) THEN Len(s) - (i + 1) + 1 ELSE 0
        /\ \A k \in 1..(Len(s) - (i + 1) + 1) : b[k] = s[(i + 1) + k - 1]
    BY <1>1, SubSeqProperties
  <2> HIDE DEF b
  <2>2. Len(b) = Len(s) - i /\ Len(s) - (i + 1) + 1 = Len(s) - i
    BY <1>1, <2>1
  <2>3. ASSUME NEW k \in 1..(Len(s) - i) PROVE b[k] = s[i + k]
    <3>1. (i + 1) + k - 1 = i + k
      BY <1>1
    <3> QED
      BY <2>1, <2>2, <3>1
  <2> QED
    BY <2>1, <2>2, <2>3
<1>4. r = a \o b
  BY DEF RemoveAt
<1> HIDE DEF a, b
<1>5. /\ a \o b \in Seq(ActorSet) /\ Len(a \o b) = Len(a) + Len(b)
      /\ \A k \in 1..(Len(a) + Len(b)) : (a \o b)[k] = IF k <= Len(a) THEN a[k] ELSE b[k - Len(a)]
  BY <1>2, <1>3, ConcatProperties
<1> HIDE DEF r
<1>6. r \in Seq(ActorSet) /\ Len(r) = Len(s) - 1 /\ Len(r) \in Nat /\ DOMAIN r = 1..Len(r)
  BY <1>1, <1>2, <1>3, <1>4, <1>5
<1>7. ASSUME NEW k \in 1..Len(r) PROVE r[k] = IF k < i THEN s[k] ELSE s[k + 1]
  <2>1. k \in 1..(Len(a) + Len(b)) /\ k \in Int
    BY <1>1, <1>2, <1>3, <1>6, <1>7
  <2>2. r[k] = IF k <= i - 1 THEN a[k] ELSE b[k - (i - 1)]
    BY <1>2, <1>4, <1>5, <2>1
  <2>3. CASE k < i
    BY <1>1, <1>2, <2>1, <2>2, <2>3
  <2>4. CASE ~(k < i)
    <3>1. k - (i - 1) \in 1..(Len(s) - i) /\ i + (k - (i - 1)) = k + 1 /\ ~(k <= i - 1)
      BY <1>1, <1>6, <2>1, <2>4
    <3> QED
      BY <1>3, <2>2, <2>4, <3>1
  <2> QED
    BY <2>3, <2>4
<1> QED
  BY <1>6, <1>7 DEF r

\* Erasing a dead actor changes no count.
LEMMA CountErased ==
  ASSUME NEW s \in Seq(ActorSet), NEW i \in DOMAIN s, s[i].state = "dead", NEW kind
  PROVE  Cardinality(Living(RemoveAt(s, i), kind)) = Cardinality(Living(s, kind))
<1> DEFINE r == RemoveAt(s, i)
           S == Living(s, kind)
           T == Living(r, kind)
           f == [j \in S |-> IF j < i THEN j ELSE j - 1]
<1>1. /\ Len(r) = Len(s) - 1 /\ Len(r) \in Nat /\ DOMAIN r = 1..Len(r)
      /\ \A k \in 1..Len(r) : r[k] = IF k < i THEN s[k] ELSE s[k + 1]
  BY Erased
<1>2. Len(s) \in Nat /\ DOMAIN s = 1..Len(s) /\ i \in 1..Len(s)
  OBVIOUS
<1> HIDE DEF r
<1>3. \A j \in S : j \in 1..Len(s) /\ j # i /\ s[j].kind = kind /\ s[j].state # "dead"
  BY <1>2 DEF Living
<1>4. \A t \in T : t \in 1..Len(r) /\ r[t].kind = kind /\ r[t].state # "dead"
  BY <1>1 DEF Living
<1>5. \A t \in 1..Len(r) : r[t].kind = kind /\ r[t].state # "dead" => t \in T
  BY <1>1 DEF Living
<1>6. \A j \in 1..Len(s) : s[j].kind = kind /\ s[j].state # "dead" => j \in S
  BY <1>2 DEF Living
<1>7. IsFiniteSet(S)
  BY LivingFinite
<1> HIDE DEF S, T
<1>8. f \in [S -> T]
  <2> SUFFICES ASSUME NEW j \in S PROVE (IF j < i THEN j ELSE j - 1) \in T
    OBVIOUS
  <2>1. j \in 1..Len(s) /\ j # i /\ s[j].kind = kind /\ s[j].state # "dead"
    BY <1>3
  <2>2. CASE j < i
    <3>1. j \in 1..Len(r) /\ r[j] = s[j]
      BY <1>1, <1>2, <2>1, <2>2
    <3> QED
      BY <1>5, <2>1, <2>2, <3>1
  <2>3. CASE ~(j < i)
    <3>1. j - 1 \in 1..Len(r) /\ ~(j - 1 < i) /\ (j - 1) + 1 = j
      BY <1>1, <1>2, <2>1, <2>3
    <3>2. r[j - 1] = s[j]
      BY <1>1, <3>1
    <3> QED
      BY <1>5, <2>1, <2>3, <3>1, <3>2
  <2> QED
    BY <2>2, <2>3
<1>9. \A a, b \in S : f[a] = f[b] => a = b
  BY <1>2, <1>3
<1>10. \A t \in T : \E j \in S : f[j] = t
  <2> SUFFICES ASSUME NEW t \in T PROVE \E j \in S : f[j] = t
    OBVIOUS
  <2>1. t \in 1..Len(r) /\ r[t].kind = kind /\ r[t].state # "dead"
    BY <1>4
  <2>2. CASE t < i
    <3>1. t \in 1..Len(s) /\ r[t] = s[t]
      BY <1>1, <1>2, <2>1, <2>2
    <3>2. t \in S
      BY <1>6, <2>1, <3>1
    <3> QED
      BY <2>2, <3>2
  <2>3. CASE ~(t < i)
    <3>1. t + 1 \in 1..Len(s) /\ r[t] = s[t + 1] /\ ~(t + 1 < i) /\ (t + 1) - 1 = t
      BY <1>1, <1>2, <2>1, <2>3
    <3>2. t + 1 \in S
      BY <1>6, <2>1, <3>1
    <3> QED
      BY <3>1, <3>2
  <2> QED
    BY <2>2, <2>3
<1>11. ExistsBijection(S, T)
  <2>1. f \in Injection(S, T)
    BY <1>8, <1>9 DEF Injection, IsInjective
  <2>2. f \in Surjection(S, T)
    BY <1>8, <1>10 DEF Surjection
  <2> QED
    BY <2>1, <2>2 DEF ExistsBijection, Bijection
<1> QED
  BY <1>7, <1>11, FS_Bijection DEF S, T, r

-----------------------------------------------------------------------------
\* The inductive invariant, part by part.

\* What an actor of each kind may be.
Proper(a) ==
  /\ a \in ActorSet
  /\ a.kind = "boulder" => /\ a.state \in {"stable", "waiting", "falling", "dead"}
                           /\ a.clock \in 0..WAIT /\ a.n \in 0..HEIGHT
  /\ a.kind = "protester" => a.state = "searching"

Troop(s) == s \in Seq(ActorSet) /\ \A k \in DOMAIN s : Proper(s[k])
ActorsOK == Troop(m_actors)

PlayerOK ==
  /\ m_TunnelMan \in [state : {"alive", "dead"}, m_Dead : BOOLEAN, hp : Int, squirts : Nat,
                      kits : Nat, nuggets : Nat]
  /\ m_TunnelMan.hp \in -1..HP

GameOK ==
  /\ phase \in {"player", "finished", "actors", "sweep", "over"} /\ ActorItr \in Nat \ {0}
  /\ lives \in 0..LIVES /\ level \in 0..LEVELS /\ dropped \in Nat
  /\ phase # "over" => lives > 0 /\ level < LEVELS

\* move() goes on to the next level only with a player who lives and has every barrel.
Finishing == phase = "finished" => m_TunnelMan.state # "dead" /\ m_barrelsLeft = 0

\* The sweep has left no dead actor behind it.
CleanBehind == phase = "sweep" => \A k \in DOMAIN m_actors : k < ActorItr => m_actors[k].state # "dead"

\* The protester neither dies nor leaves: nothing annoys what is not marked as animate.
OneProtester == Count("protester") = 1

\* The protester that took the last hit points has had its turn in this tick.
Killed ==
  m_TunnelMan.hp <= 0 =>
    /\ m_TunnelMan.state = "dead"
    /\ phase = "actors" => \A k \in DOMAIN m_actors : m_actors[k].kind = "protester" => k < ActorItr

IInv == /\ ActorsOK /\ PlayerOK /\ GameOK /\ Finishing /\ CleanBehind /\ OneProtester /\ Killed
        /\ BarrelsCounted /\ GoldAccounted /\ NoDeadKept

-----------------------------------------------------------------------------
\* A new level

\* The actors of a new level, one by one.
LEMMA NewOnes ==
  LET s == NewActors IN
         /\ DOMAIN s = 1..(Boulders + Barrels + Nuggets + 1) /\ s = [k \in DOMAIN s |-> s[k]]
         /\ \A k \in 1..Boulders : s[k] = Actor("boulder", "stable", HEIGHT)
         /\ \A k \in (Boulders + 1)..(Boulders + Barrels) : s[k] = Actor("barrel", "alive", Hidden)
         /\ \A k \in (Boulders + Barrels + 1)..(Boulders + Barrels + Nuggets) :
              s[k] = Actor("nugget", "permanent", 0)
         /\ s[Boulders + Barrels + Nuggets + 1] = Actor("protester", "searching", PROTESTERHP)
<1> DEFINE b == Actor("boulder", "stable", HEIGHT)
           l == Actor("barrel", "alive", Hidden)
           g == Actor("nugget", "permanent", 0)
           r == Actor("protester", "searching", PROTESTERHP)
           A == [k \in 1..Boulders |-> b]
           B == [k \in 1..Barrels |-> l]
           C == [k \in 1..Nuggets |-> g]
           X == {b, l, g, r}
<1>1. Boulders \in Nat /\ Barrels \in Nat /\ Nuggets \in Nat
  BY CountsAssumption
<1> HIDE DEF b, l, g, r
<1>2. A \in Seq(X) /\ B \in Seq(X) /\ C \in Seq(X) /\ <<r>> \in Seq(X)
  BY <1>1
<1>3. Len(A) = Boulders /\ Len(B) = Barrels /\ Len(C) = Nuggets /\ Len(<<r>>) = 1 /\ <<r>>[1] = r
  BY <1>1
<1>4. /\ A \o B \in Seq(X) /\ Len(A \o B) = Boulders + Barrels
      /\ \A k \in 1..(Boulders + Barrels) : (A \o B)[k] = IF k <= Boulders THEN A[k] ELSE B[k - Boulders]
  <2> HIDE DEF A, B, X
  <2>1. /\ A \o B \in Seq(X) /\ Len(A \o B) = Len(A) + Len(B)
        /\ \A k \in 1..(Len(A) + Len(B)) : (A \o B)[k] = IF k <= Len(A) THEN A[k] ELSE B[k - Len(A)]
    BY <1>2, ConcatProperties
  <2> QED
    BY <1>3, <2>1
<1> DEFINE D == A \o B
<1>5. D \in Seq(X) /\ Len(D) = Boulders + Barrels
  BY <1>4
<1>6. /\ \A k \in 1..Boulders : D[k] = b
      /\ \A k \in (Boulders + 1)..(Boulders + Barrels) : D[k] = l
  BY <1>1, <1>4
<1> HIDE DEF D
<1>7. /\ D \o C \in Seq(X) /\ Len(D \o C) = Boulders + Barrels + Nuggets
      /\ \A k \in 1..(Boulders + Barrels + Nuggets) :
           (D \o C)[k] = IF k <= Boulders + Barrels THEN D[k] ELSE C[k - (Boulders + Barrels)]
  <2> DEFINE M == Boulders + Barrels
  <2>1. M \in Nat /\ Len(D) = M /\ D \in Seq(X) /\ C \in Seq(X) /\ Len(C) = Nuggets
    BY <1>1, <1>2, <1>3, <1>5
  <2> HIDE DEF X, C, M
  <2>2. /\ D \o C \in Seq(X) /\ Len(D \o C) = Len(D) + Len(C)
        /\ \A k \in 1..(Len(D) + Len(C)) :
             (D \o C)[k] = IF k <= Len(D) THEN D[k] ELSE C[k - Len(D)]
    BY <2>1, ConcatProperties
  <2> QED
    BY <2>1, <2>2 DEF M
<1> DEFINE E == D \o C
<1>8. E \in Seq(X) /\ Len(E) = Boulders + Barrels + Nuggets
  BY <1>7
<1>9. /\ \A k \in 1..(Boulders + Barrels) : E[k] = D[k]
      /\ \A k \in (Boulders + Barrels + 1)..(Boulders + Barrels + Nuggets) : E[k] = g
  BY <1>1, <1>7
<1> HIDE DEF E
<1>10. /\ E \o <<r>> \in Seq(X) /\ Len(E \o <<r>>) = Boulders + Barrels + Nuggets + 1
       /\ \A k \in 1..(Boulders + Barrels + Nuggets + 1) :
            (E \o <<r>>)[k] = IF k <= Boulders + Barrels + Nuggets THEN E[k]
                              ELSE <<r>>[k - (Boulders + Barrels + Nuggets)]
  BY <1>1, <1>2, <1>3, <1>8, ConcatProperties
<1> DEFINE F == E \o <<r>>
<1>11. /\ DOMAIN F = 1..(Boulders + Barrels + Nuggets + 1) /\ F = [k \in DOMAIN F |-> F[k]]
       /\ \A k \in 1..(Boulders + Barrels + Nuggets) : F[k] = E[k]
       /\ F[Boulders + Barrels + Nuggets + 1] = r
  BY <1>1, <1>3, <1>10
<1>12. NewActors = F
  BY DEF NewActors, F, E, D, b, l, g, r
<1> HIDE DEF F
<1>13. /\ \A k \in 1..Boulders : F[k] = b
       /\ \A k \in (Boulders + 1)..(Boulders + Barrels) : F[k] = l
       /\ \A k \in (Boulders + Barrels + 1)..(Boulders + Barrels + Nuggets) : F[k] = g
  BY <1>1, <1>6, <1>9, <1>11
<1> QED
  BY <1>11, <1>12, <1>13 DEF b, l, g, r

\* The actors of a new level are proper, alive and as many as the level is to have.
LEMMA NewLevel ==
  LET s == NewActors IN
         /\ Troop(s) /\ \A k \in DOMAIN s : s[k].state # "dead"
         /\ Cardinality(Living(s, "barrel")) = Barrels
         /\ Cardinality(Living(s, "nugget")) = Nuggets
         /\ Cardinality(Living(s, "protester")) = 1
<1> DEFINE s == NewActors
           P1 == Boulders
           P2 == Boulders + Barrels
           P3 == Boulders + Barrels + Nuggets
<1>1. /\ P1 \in Nat /\ P2 \in Nat /\ P3 \in Nat /\ P1 <= P2 /\ P2 <= P3
      /\ HEIGHT \in Nat /\ PROTESTERHP \in Nat /\ WAIT \in Nat
      /\ P2 - P1 = Barrels /\ P3 - P2 = Nuggets
  BY CountsAssumption
<1>2. /\ DOMAIN s = 1..(P3 + 1) /\ s = [k \in DOMAIN s |-> s[k]]
      /\ \A k \in 1..P1 : s[k] = Actor("boulder", "stable", HEIGHT)
      /\ \A k \in (P1 + 1)..P2 : s[k] = Actor("barrel", "alive", Hidden)
      /\ \A k \in (P2 + 1)..P3 : s[k] = Actor("nugget", "permanent", 0)
      /\ s[P3 + 1] = Actor("protester", "searching", PROTESTERHP)
  BY NewOnes
<1>3. /\ Proper(Actor("boulder", "stable", HEIGHT))
      /\ Proper(Actor("barrel", "alive", Hidden))
      /\ Proper(Actor("nugget", "permanent", 0))
      /\ Proper(Actor("protester", "searching", PROTESTERHP))
  BY <1>1 DEF Proper, Actor, ActorSet, Kinds, States, Hidden
<1> HIDE DEF s, P1, P2, P3
<1>4. \A k \in DOMAIN s : k \in 1..P1 \/ k \in (P1 + 1)..P2 \/ k \in (P2 + 1)..P3 \/ k = P3 + 1
  BY <1>1, <1>2
<1>5. \A k \in DOMAIN s : Proper(s[k])
  BY <1>2, <1>3, <1>4
<1>6. s \in Seq(ActorSet)
  <2>1. \A k \in 1..(P3 + 1) : s[k] \in ActorSet
    BY <1>2, <1>5 DEF Proper
  <2>2. s = [k \in 1..(P3 + 1) |-> s[k]]
    BY <1>2
  <2> QED
    BY <1>1, <2>1, <2>2
<1>7. \A k \in DOMAIN s :
        /\ s[k].state # "dead"
        /\ s[k].kind = "barrel" <=> k \in (P1 + 1)..P2
        /\ s[k].kind = "nugget" <=> k \in (P2 + 1)..P3
        /\ s[k].kind = "protester" <=> k = P3 + 1
  BY <1>1, <1>2, <1>4 DEF Actor
<1>8. Living(s, "barrel") = (P1 + 1)..P2 /\ Living(s, "nugget") = (P2 + 1)..P3
      /\ Living(s, "protester") = {P3 + 1}
  BY <1>1, <1>2, <1>7 DEF Living
<1>9. Cardinality((P1 + 1)..P2) = Barrels
  BY <1>1, FS_Interval DEF P1, P2
<1>10. Cardinality((P2 + 1)..P3) = Nuggets
  <2>1. P2 + 1 \in Int /\ P3 \in Int
    BY <1>1
  <2>2. Cardinality((P2 + 1)..P3) = IF P2 + 1 > P3 THEN 0 ELSE P3 - (P2 + 1) + 1
    BY <2>1, FS_Interval
  <2> QED
    BY <1>1, <2>2
<1>11. Cardinality({P3 + 1}) = 1
  BY FS_Singleton
<1> QED
  BY <1>5, <1>6, <1>7, <1>8, <1>9, <1>10, <1>11 DEF s, Troop

-----------------------------------------------------------------------------
\* The steps

PlayerSet == [state : {"alive", "dead"}, m_Dead : BOOLEAN, hp : Int, squirts : Nat,
              kits : Nat, nuggets : Nat]

\* Appending an actor is joining the sequence of it.
LEMMA OneAdded ==
  ASSUME NEW s \in Seq(ActorSet), NEW a \in ActorSet
  PROVE  s \o <<a>> = Append(s, a)
  OBVIOUS

\* A proper actor that is added leaves the others as they are.
LEMMA TroopGrows ==
  ASSUME NEW s, Troop(s), NEW a, Proper(a)
  PROVE  /\ Troop(Append(s, a))
         /\ a.state # "dead" /\ (\A k \in DOMAIN s : s[k].state # "dead") =>
              \A k \in DOMAIN Append(s, a) : Append(s, a)[k].state # "dead"
<1> DEFINE r == Append(s, a)
<1>1. s \in Seq(ActorSet) /\ a \in ActorSet
  BY DEF Troop, Proper
<1>2. /\ r \in Seq(ActorSet) /\ Len(s) \in Nat /\ DOMAIN s = 1..Len(s) /\ DOMAIN r = 1..(Len(s) + 1)
      /\ r[Len(s) + 1] = a /\ \A k \in 1..Len(s) : r[k] = s[k]
  BY <1>1, AppendProperties
<1> HIDE DEF r
<1>3. \A k \in DOMAIN r : k \in DOMAIN s \/ k = Len(s) + 1
  BY <1>2
<1> QED
  BY <1>2, <1>3 DEF Troop, r

\* A new level begins with its books in order.
LEMMA StartKeeps ==
  ASSUME StartLevel, lives' \in 1..LIVES, level' \in 0..LEVELS, level' < LEVELS
  PROVE  IInv'
<1>1. m_actors' = NewActors
  BY DEF StartLevel
<1>2. /\ Troop(m_actors') /\ \A k \in DOMAIN m_actors' : m_actors'[k].state # "dead"
      /\ Cardinality(Living(m_actors', "barrel")) = Barrels
      /\ Cardinality(Living(m_actors', "nugget")) = Nuggets
      /\ Cardinality(Living(m_actors', "protester")) = 1
  BY <1>1, NewLevel
<1>3. /\ m_TunnelMan' = NewPlayer /\ m_barrelsLeft' = Barrels /\ phase' = "player" /\ ActorItr' = 1
      /\ dropped' = 0
  BY DEF StartLevel
<1>4. /\ HP \in Nat /\ HP > 0 /\ SQUIRTS \in Nat /\ LIVES \in Nat /\ LEVELS \in Nat /\ Nuggets \in Nat
  BY CountsAssumption
<1>5. ActorsOK'
  BY <1>2 DEF ActorsOK
<1>6. PlayerOK'
  <2>1. NewPlayer \in PlayerSet
    BY <1>4 DEF NewPlayer, PlayerSet
  <2>2. NewPlayer.hp = HP
    BY DEF NewPlayer
  <2> QED
    BY <1>3, <1>4, <2>1, <2>2 DEF PlayerOK, PlayerSet
<1>7. GameOK' /\ Finishing' /\ CleanBehind'
  BY <1>3, <1>4 DEF GameOK, Finishing, CleanBehind
<1>8. OneProtester' /\ BarrelsCounted' /\ NoDeadKept'
  BY <1>2, <1>3 DEF OneProtester, BarrelsCounted, NoDeadKept, Count
<1>9. GoldAccounted'
  <2>1. m_TunnelMan'.nuggets = 0
    BY <1>3 DEF NewPlayer
  <2> QED
    BY <1>2, <1>3, <1>4, <2>1 DEF GoldAccounted, Count
<1>10. Killed'
  <2>1. m_TunnelMan'.hp = HP
    BY <1>3 DEF NewPlayer
  <2> QED
    BY <1>4, <2>1 DEF Killed
<1> QED
  BY <1>5, <1>6, <1>7, <1>8, <1>9, <1>10 DEF IInv

\* A turn after which the actor is a keeps the invariant, if the player and the barrels
\* left change with it as they should.
LEMMA TurnKeeps ==
  ASSUME IInv, phase = "actors", ActorItr \in DOMAIN m_actors, Me.state # "dead",
         NEW a, Proper(a), a.kind = Me.kind, m_actors' = [m_actors EXCEPT ![ActorItr] = a],
         ActorItr' = ActorItr + 1, UNCHANGED <<lives, level, phase, made, dropped>>, PlayerOK',
         m_barrelsLeft' = m_barrelsLeft - (IF a.state = "dead" /\ a.kind = "barrel" THEN 1 ELSE 0),
         m_TunnelMan'.nuggets = m_TunnelMan.nuggets
                                + (IF a.state = "dead" /\ a.kind = "nugget" THEN 1 ELSE 0),
         m_TunnelMan'.hp <= 0 => /\ m_TunnelMan'.state = "dead"
                                 /\ a.kind = "protester" \/ m_TunnelMan.hp <= 0
  PROVE  IInv'
<1>1. /\ m_actors \in Seq(ActorSet) /\ \A k \in DOMAIN m_actors : Proper(m_actors[k])
  BY DEF IInv, ActorsOK, Troop
<1>2. a \in ActorSet
  BY DEF Proper
<1>3. m_actors' \in Seq(ActorSet) /\ DOMAIN m_actors' = DOMAIN m_actors
  BY <1>1, <1>2
<1>4. \A k \in DOMAIN m_actors : m_actors'[k] = IF k = ActorItr THEN a ELSE m_actors[k]
  BY <1>1
<1>5. ActorsOK'
  BY <1>1, <1>3, <1>4 DEF ActorsOK, Troop
<1>6. ASSUME NEW kind, a.state # "dead" \/ a.kind # kind
      PROVE  Cardinality(Living(m_actors', kind)) = Cardinality(Living(m_actors, kind))
  <2>1. Living(m_actors', kind) = Living(m_actors, kind)
    BY <1>1, <1>2, <1>6, CountSame DEF Me
  <2> QED
    BY <2>1
<1>7. a.state = "dead" =>
        Cardinality(Living(m_actors', a.kind)) = Cardinality(Living(m_actors, a.kind)) - 1
  BY <1>1, <1>2, CountLess DEF Me
<1>8. a.kind = "protester" => a.state # "dead"
  BY DEF Proper
<1>9. /\ Cardinality(Living(m_actors, "barrel")) \in Nat
      /\ Cardinality(Living(m_actors, "nugget")) \in Nat
  BY <1>1, LivingFinite
<1>10. OneProtester'
  <2>1. Cardinality(Living(m_actors', "protester")) = Cardinality(Living(m_actors, "protester"))
    BY <1>6, <1>8
  <2> QED
    BY <2>1 DEF IInv, OneProtester, Count
<1>11. BarrelsCounted'
  <2>1. m_barrelsLeft = Cardinality(Living(m_actors, "barrel"))
    BY DEF IInv, BarrelsCounted, Count
  <2>2. m_barrelsLeft' = Cardinality(Living(m_actors', "barrel"))
    <3>1. CASE a.state = "dead" /\ a.kind = "barrel"
      BY <1>7, <2>1, <3>1
    <3>2. CASE ~(a.state = "dead" /\ a.kind = "barrel")
      <4>1. Cardinality(Living(m_actors', "barrel")) = Cardinality(Living(m_actors, "barrel"))
        BY <1>6, <3>2
      <4>2. m_barrelsLeft' = m_barrelsLeft - 0
        BY <3>2
      <4> QED
        BY <1>9, <2>1, <4>1, <4>2
    <3> QED
      BY <3>1, <3>2
  <2> QED
    BY <2>2 DEF BarrelsCounted, Count
<1>12. GoldAccounted'
  <2>1. Cardinality(Living(m_actors, "nugget")) + m_TunnelMan.nuggets + dropped = Nuggets
    BY DEF IInv, GoldAccounted, Count
  <2>2. m_TunnelMan.nuggets \in Nat /\ dropped \in Nat /\ dropped' = dropped
    BY DEF IInv, PlayerOK, GameOK
  <2>3. Cardinality(Living(m_actors', "nugget")) + m_TunnelMan'.nuggets + dropped' = Nuggets
    <3>1. CASE a.state = "dead" /\ a.kind = "nugget"
      BY <1>7, <1>9, <2>1, <2>2, <3>1
    <3>2. CASE ~(a.state = "dead" /\ a.kind = "nugget")
      <4>1. Cardinality(Living(m_actors', "nugget")) = Cardinality(Living(m_actors, "nugget"))
        BY <1>6, <3>2
      <4>2. m_TunnelMan'.nuggets = m_TunnelMan.nuggets + 0
        BY <3>2
      <4> QED
        BY <1>9, <2>1, <2>2, <4>1, <4>2
    <3> QED
      BY <3>1, <3>2
  <2> QED
    BY <2>3 DEF GoldAccounted, Count
<1>13. GameOK' /\ Finishing' /\ NoDeadKept' /\ CleanBehind'
  BY DEF IInv, GameOK, Finishing, NoDeadKept, CleanBehind
<1>14. Killed'
  <2> SUFFICES ASSUME m_TunnelMan'.hp <= 0, NEW k \in DOMAIN m_actors, m_actors'[k].kind = "protester"
               PROVE  k < ActorItr + 1
    BY <1>3 DEF Killed
  <2>1. m_actors[k].kind = "protester" /\ ActorItr \in Nat /\ k \in Nat
    BY <1>1, <1>4 DEF Me, IInv, GameOK
  <2>2. CASE m_TunnelMan.hp <= 0
    BY <2>1, <2>2 DEF IInv, Killed
  <2>3. CASE a.kind = "protester"
    <3>1. k \in Living(m_actors, "protester") /\ ActorItr \in Living(m_actors, "protester")
      BY <1>1, <2>1, <2>3 DEF Living, Me, Proper
    <3>2. Cardinality(Living(m_actors, "protester")) = 1 /\ IsFiniteSet(Living(m_actors, "protester"))
      BY <1>1, LivingFinite DEF IInv, OneProtester, Count
    <3>3. k = ActorItr
      BY <3>1, <3>2, FS_Singleton
    <3> QED
      BY <2>1, <3>3
  <2> QED
    BY <2>2, <2>3
<1> QED
  BY <1>5, <1>10, <1>11, <1>12, <1>13, <1>14 DEF IInv

\* The player's turn keeps the invariant, if it adds at most one actor, of none of the kinds
\* that are counted, and gold only goes from the player to the ground.
LEMMA ActedKeeps ==
  ASSUME IInv, Alive, NEW p, NEW new, Acted(p, new), PlayerOK',
         new = <<>> \/ \E a : /\ new = <<a>> /\ Proper(a)
                              /\ a.kind \notin {"barrel", "nugget", "protester"},
         p.hp = m_TunnelMan.hp, p.state = m_TunnelMan.state, dropped' \in Nat,
         p.nuggets + dropped' = m_TunnelMan.nuggets + dropped
  PROVE  IInv'
<1>1. /\ m_TunnelMan' = p /\ m_actors' = m_actors \o new /\ ActorItr' = 1
      /\ phase' = (IF m_barrelsLeft = 0 THEN "finished" ELSE "actors")
      /\ UNCHANGED <<m_barrelsLeft, lives, level>>
  BY DEF Acted
<1>2. phase = "player" /\ m_TunnelMan.state # "dead"
  BY DEF Alive
<1>3. Troop(m_actors) /\ m_actors \in Seq(ActorSet)
  BY DEF IInv, ActorsOK, Troop
<1>4. /\ Troop(m_actors')
      /\ \A kind \in {"barrel", "nugget", "protester"} :
           Cardinality(Living(m_actors', kind)) = Cardinality(Living(m_actors, kind))
  <2>1. CASE new = <<>>
    <3>1. m_actors' = m_actors
      BY <1>1, <1>3, <2>1, ConcatEmptySeq
    <3> QED
      BY <1>3, <3>1
  <2>2. CASE new # <<>>
    <3>1. PICK a : new = <<a>> /\ Proper(a) /\ a.kind \notin {"barrel", "nugget", "protester"}
      BY <2>2
    <3>2. a \in ActorSet
      BY <3>1 DEF Proper
    <3>3. m_actors' = Append(m_actors, a)
      BY <1>1, <1>3, <3>1, <3>2, OneAdded
    <3>4. \A kind \in {"barrel", "nugget", "protester"} : Living(m_actors', kind) = Living(m_actors, kind)
      BY <1>3, <3>1, <3>2, <3>3, CountMore
    <3>5. Troop(Append(m_actors, a))
      BY <1>3, <3>1, <3>2, TroopGrows
    <3> QED
      BY <3>3, <3>4, <3>5
  <2> QED
    BY <2>1, <2>2
<1>5. ActorsOK'
  BY <1>4 DEF ActorsOK
<1>6. OneProtester' /\ BarrelsCounted'
  BY <1>1, <1>4 DEF IInv, OneProtester, BarrelsCounted, Count
<1>7. GoldAccounted'
  <2>1. Cardinality(Living(m_actors, "nugget")) + m_TunnelMan.nuggets + dropped = Nuggets
    BY DEF IInv, GoldAccounted, Count
  <2>2. Cardinality(Living(m_actors, "nugget")) \in Nat
    BY <1>3, LivingFinite
  <2>3. m_TunnelMan.nuggets \in Nat /\ dropped \in Nat
    BY DEF IInv, PlayerOK, GameOK
  <2>4. p.nuggets \in Nat
    BY <1>1 DEF PlayerOK
  <2>5. Cardinality(Living(m_actors, "nugget")) + p.nuggets + dropped' = Nuggets
    <3>1. PICK a \in Nat : a = Cardinality(Living(m_actors, "nugget"))
      BY <2>2
    <3>2. PICK b \in Nat, c \in Nat : b = m_TunnelMan.nuggets /\ c = dropped
      BY <2>3
    <3>3. PICK d \in Nat, e \in Nat : d = p.nuggets /\ e = dropped'
      BY <2>4
    <3>4. a + b + c = Nuggets /\ d + e = b + c
      BY <2>1, <3>1, <3>2, <3>3
    <3>5. a + d + e = Nuggets
      BY <3>4
    <3> QED
      BY <3>1, <3>3, <3>5
  <2>6. Cardinality(Living(m_actors', "nugget")) = Cardinality(Living(m_actors, "nugget"))
    BY <1>4
  <2> QED
    BY <1>1, <2>5, <2>6 DEF GoldAccounted, Count
<1>8. GameOK' /\ Finishing' /\ NoDeadKept' /\ CleanBehind'
  BY <1>1, <1>2 DEF IInv, GameOK, Finishing, NoDeadKept, CleanBehind
<1>9. Killed'
  BY <1>1, <1>2 DEF IInv, Killed
<1> QED
  BY <1>5, <1>6, <1>7, <1>8, <1>9 DEF IInv

\* unveil() changes what can be seen of the barrels, and no count.
LEMMA SonarKeeps ==
  ASSUME IInv, Sonar
  PROVE  IInv'
<1>1. PICK seen \in SUBSET {k \in DOMAIN m_actors : m_actors[k].kind = "barrel"} :
        m_actors' = [k \in DOMAIN m_actors |->
                       IF k \in seen THEN [m_actors[k] EXCEPT !.n = Visible] ELSE m_actors[k]]
  BY DEF Sonar
<1>2. m_actors \in Seq(ActorSet) /\ \A k \in DOMAIN m_actors : Proper(m_actors[k])
  BY DEF IInv, ActorsOK, Troop
<1>3. \A a \in ActorSet : a.kind = "barrel" =>
        /\ Proper([a EXCEPT !.n = Visible]) /\ [a EXCEPT !.n = Visible].kind = a.kind
        /\ [a EXCEPT !.n = Visible].state = a.state
  BY DEF Proper, ActorSet, Visible
<1>4. \A k \in DOMAIN m_actors : /\ Proper(m_actors'[k]) /\ m_actors'[k].kind = m_actors[k].kind
                                 /\ m_actors'[k].state = m_actors[k].state
  <2> TAKE k \in DOMAIN m_actors
  <2>1. m_actors[k] \in ActorSet /\ Proper(m_actors[k])
    BY <1>2
  <2>2. CASE k \in seen
    <3>1. m_actors'[k] = [m_actors[k] EXCEPT !.n = Visible] /\ m_actors[k].kind = "barrel"
      BY <1>1, <2>2
    <3> QED
      BY <1>3, <2>1, <3>1
  <2>3. CASE k \notin seen
    <3>1. m_actors'[k] = m_actors[k]
      BY <1>1, <2>3
    <3> QED
      BY <2>1, <3>1
  <2> QED
    BY <2>2, <2>3
<1>5. DOMAIN m_actors' = DOMAIN m_actors /\ DOMAIN m_actors = 1..Len(m_actors) /\ Len(m_actors) \in Nat
  BY <1>1, <1>2
<1>6. m_actors' \in Seq(ActorSet)
  <2>1. \A k \in 1..Len(m_actors) : m_actors'[k] \in ActorSet
    BY <1>4, <1>5 DEF Proper
  <2>2. m_actors' = [k \in 1..Len(m_actors) |-> m_actors'[k]]
    BY <1>1, <1>5
  <2> QED
    BY <1>5, <2>1, <2>2
<1>7. ActorsOK'
  BY <1>4, <1>5, <1>6 DEF ActorsOK, Troop
<1>8. \A kind : Living(m_actors', kind) = Living(m_actors, kind)
  BY <1>4, <1>5 DEF Living
<1>9. /\ m_TunnelMan' = [m_TunnelMan EXCEPT !.kits = @ - 1] /\ m_TunnelMan.kits > 0
      /\ phase' = (IF m_barrelsLeft = 0 THEN "finished" ELSE "actors") /\ ActorItr' = 1
      /\ UNCHANGED <<m_barrelsLeft, lives, level, made, dropped>>
      /\ phase = "player" /\ m_TunnelMan.state # "dead"
  BY DEF Sonar, Alive
<1>10. m_TunnelMan \in PlayerSet /\ m_TunnelMan.hp \in -1..HP
  BY DEF IInv, PlayerOK, PlayerSet
<1>11. /\ m_TunnelMan' \in PlayerSet /\ m_TunnelMan'.hp = m_TunnelMan.hp
       /\ m_TunnelMan'.nuggets = m_TunnelMan.nuggets /\ m_TunnelMan'.state = m_TunnelMan.state
  BY <1>9, <1>10 DEF PlayerSet
<1>12. PlayerOK'
  BY <1>10, <1>11 DEF PlayerOK, PlayerSet
<1>13. OneProtester' /\ BarrelsCounted' /\ GoldAccounted'
  BY <1>8, <1>9, <1>11 DEF IInv, OneProtester, BarrelsCounted, GoldAccounted, Count
<1>14. GameOK' /\ Finishing' /\ NoDeadKept' /\ CleanBehind'
  BY <1>9, <1>11 DEF IInv, GameOK, Finishing, NoDeadKept, CleanBehind
<1>15. Killed'
  BY <1>9, <1>11 DEF IInv, Killed
<1> QED
  BY <1>7, <1>12, <1>13, <1>14, <1>15 DEF IInv

\* The sweep erases a dead actor and keeps all others.
LEMMA EraseKeeps ==
  ASSUME IInv, Erase
  PROVE  IInv'
<1>1. /\ phase = "sweep" /\ ActorItr <= Len(m_actors) /\ m_actors[ActorItr].state = "dead"
      /\ m_actors' = RemoveAt(m_actors, ActorItr)
      /\ UNCHANGED <<m_TunnelMan, m_barrelsLeft, lives, level, phase, made, dropped>>
  BY DEF Erase, Swept, Me
<1>2. /\ m_actors \in Seq(ActorSet) /\ \A k \in DOMAIN m_actors : Proper(m_actors[k])
      /\ ActorItr \in Nat \ {0}
  BY DEF IInv, ActorsOK, Troop, GameOK
<1>3. ActorItr \in DOMAIN m_actors /\ ActorItr' = ActorItr
  BY <1>1, <1>2 DEF Erase
<1>4. /\ m_actors' \in Seq(ActorSet) /\ Len(m_actors') = Len(m_actors) - 1
      /\ Len(m_actors') \in Nat /\ DOMAIN m_actors' = 1..Len(m_actors')
      /\ \A k \in 1..Len(m_actors') :
           m_actors'[k] = IF k < ActorItr THEN m_actors[k] ELSE m_actors[k + 1]
  BY <1>1, <1>2, <1>3, Erased
<1>5. \A kind : Cardinality(Living(m_actors', kind)) = Cardinality(Living(m_actors, kind))
  BY <1>1, <1>2, <1>3, CountErased
<1>6. ASSUME NEW k \in DOMAIN m_actors'
      PROVE  Proper(m_actors'[k]) /\ (k < ActorItr => m_actors'[k].state # "dead")
  <2>1. k \in DOMAIN m_actors /\ k + 1 \in DOMAIN m_actors /\ k \in 1..Len(m_actors')
    BY <1>2, <1>4
  <2>2. CASE k < ActorItr
    <3>1. m_actors'[k] = m_actors[k]
      BY <1>4, <2>1, <2>2
    <3>2. m_actors[k].state # "dead"
      BY <1>1, <2>1, <2>2 DEF IInv, CleanBehind
    <3> QED
      BY <1>2, <2>1, <3>1, <3>2
  <2>3. CASE ~(k < ActorItr)
    <3>1. m_actors'[k] = m_actors[k + 1]
      BY <1>4, <2>1, <2>3
    <3> QED
      BY <1>2, <2>1, <2>3, <3>1
  <2> QED
    BY <2>2, <2>3
<1>7. ActorsOK' /\ CleanBehind'
  BY <1>3, <1>4, <1>6 DEF ActorsOK, Troop, CleanBehind
<1>8. OneProtester' /\ BarrelsCounted' /\ GoldAccounted'
  BY <1>1, <1>5 DEF IInv, OneProtester, BarrelsCounted, GoldAccounted, Count
<1>9. GameOK' /\ Finishing' /\ Killed' /\ PlayerOK' /\ NoDeadKept'
  BY <1>1, <1>3 DEF IInv, GameOK, Finishing, Killed, PlayerOK, NoDeadKept
<1> QED
  BY <1>7, <1>8, <1>9 DEF IInv

\* At the end of a tick nobody is dead, and a goodie may be added.
LEMMA EndTickKeeps ==
  ASSUME IInv, EndTick
  PROVE  IInv'
<1>1. PICK new \in addGoodies : m_actors' = m_actors \o new
  BY DEF EndTick
<1>2. /\ phase = "sweep" /\ phase' = "player" /\ ActorItr > Len(m_actors)
      /\ UNCHANGED <<m_TunnelMan, m_barrelsLeft, lives, level, ActorItr, dropped>>
  BY DEF EndTick
<1>3. Troop(m_actors) /\ m_actors \in Seq(ActorSet) /\ ActorItr \in Nat
  BY DEF IInv, ActorsOK, Troop, GameOK
<1>4. \A k \in DOMAIN m_actors : m_actors[k].state # "dead"
  <2>1. \A k \in DOMAIN m_actors : k < ActorItr
    BY <1>2, <1>3
  <2> QED
    BY <1>2, <2>1 DEF IInv, CleanBehind
<1>5. /\ Troop(m_actors') /\ \A k \in DOMAIN m_actors' : m_actors'[k].state # "dead"
      /\ \A kind \in {"barrel", "nugget", "protester"} :
           Cardinality(Living(m_actors', kind)) = Cardinality(Living(m_actors, kind))
  <2>1. CASE new = <<>>
    <3>1. m_actors' = m_actors
      BY <1>1, <1>3, <2>1, ConcatEmptySeq
    <3> QED
      BY <1>3, <1>4, <3>1
  <2>2. CASE new # <<>>
    <3>1. PICK kind \in {"kit", "pool"} : new = <<Actor(kind, "temporary", 0)>>
      BY <1>1, <2>2 DEF addGoodies
    <3> DEFINE a == Actor(kind, "temporary", 0)
    <3>2. /\ Proper(a) /\ a \in ActorSet /\ a.state # "dead"
          /\ a.kind \notin {"barrel", "nugget", "protester"}
      BY <3>1, CountsAssumption DEF Actor, Proper, ActorSet, Kinds, States
    <3>3. new = <<a>>
      BY <3>1
    <3> HIDE DEF a
    <3>4. m_actors' = Append(m_actors, a)
      BY <1>1, <1>3, <3>2, <3>3, OneAdded
    <3>5. \A x \in {"barrel", "nugget", "protester"} : Living(Append(m_actors, a), x) = Living(m_actors, x)
      BY <1>3, <3>2, CountMore
    <3>6. /\ Troop(Append(m_actors, a))
          /\ \A k \in DOMAIN Append(m_actors, a) : Append(m_actors, a)[k].state # "dead"
      BY <1>3, <1>4, <3>2, TroopGrows
    <3> QED
      BY <3>4, <3>5, <3>6
  <2> QED
    BY <2>1, <2>2
<1>6. ActorsOK' /\ NoDeadKept'
  BY <1>5 DEF ActorsOK, NoDeadKept
<1>7. OneProtester' /\ BarrelsCounted' /\ GoldAccounted'
  BY <1>2, <1>5 DEF IInv, OneProtester, BarrelsCounted, GoldAccounted, Count
<1>8. GameOK' /\ Finishing' /\ CleanBehind' /\ Killed' /\ PlayerOK'
  BY <1>2 DEF IInv, GameOK, Finishing, CleanBehind, Killed, PlayerOK
<1> QED
  BY <1>6, <1>7, <1>8 DEF IInv

\* What is known of an actor at its turn, and of the player.
LEMMA AtTurn ==
  ASSUME IInv, NEW kind, Turn(kind)
  PROVE  /\ ActorItr \in DOMAIN m_actors /\ phase = "actors" /\ Me.state # "dead" /\ Me.kind = kind
         /\ Proper(Me) /\ Me \in ActorSet
         /\ PlayerOK /\ m_TunnelMan.nuggets \in Nat /\ m_TunnelMan.hp \in Int
         /\ m_barrelsLeft \in Nat /\ (m_TunnelMan.hp <= 0 => m_TunnelMan.state = "dead")
<1>1. Troop(m_actors) /\ ActorItr \in Nat \ {0} /\ PlayerOK
  BY DEF IInv, ActorsOK, GameOK
<1>2. phase = "actors" /\ ActorItr <= Len(m_actors) /\ Me.kind = kind /\ Me.state # "dead"
  BY DEF Turn, Me
<1>3. ActorItr \in DOMAIN m_actors
  BY <1>1, <1>2 DEF Troop
<1>4. Proper(Me) /\ Me \in ActorSet
  BY <1>1, <1>3 DEF Troop, Me, Proper
<1>5. m_barrelsLeft \in Nat
  BY <1>1, LivingFinite DEF IInv, BarrelsCounted, Count, Troop
<1>6. m_TunnelMan.nuggets \in Nat /\ m_TunnelMan.hp \in Int
  BY <1>1 DEF PlayerOK
<1>7. m_TunnelMan.hp <= 0 => m_TunnelMan.state = "dead"
  BY DEF IInv, Killed
<1> QED
  BY <1>1, <1>2, <1>3, <1>4, <1>5, <1>6, <1>7

\* A turn that touches neither the player nor the barrels left.
LEMMA QuietTurn ==
  ASSUME IInv, NEW kind, Turn(kind), NEW a, Becomes(a), Proper(a), a.kind = kind,
         UNCHANGED <<m_TunnelMan, m_barrelsLeft>>,
         a.state = "dead" => a.kind \notin {"barrel", "nugget"}
  PROVE  IInv'
<1>1. /\ m_actors' = [m_actors EXCEPT ![ActorItr] = a] /\ ActorItr' = ActorItr + 1
      /\ UNCHANGED <<lives, level, phase, made, dropped>>
  BY DEF Becomes
<1>2. PlayerOK'
  BY AtTurn DEF PlayerOK
<1>3. /\ ActorItr \in DOMAIN m_actors /\ phase = "actors" /\ Me.state # "dead" /\ Me.kind = kind
      /\ m_TunnelMan.nuggets \in Nat /\ m_barrelsLeft \in Nat
      /\ (m_TunnelMan.hp <= 0 => m_TunnelMan.state = "dead")
  BY AtTurn
<1>4. /\ m_barrelsLeft' = m_barrelsLeft - (IF a.state = "dead" /\ a.kind = "barrel" THEN 1 ELSE 0)
      /\ m_TunnelMan'.nuggets = m_TunnelMan.nuggets
                                + (IF a.state = "dead" /\ a.kind = "nugget" THEN 1 ELSE 0)
  <2>1. m_barrelsLeft' = m_barrelsLeft - 0 /\ m_TunnelMan'.nuggets = m_TunnelMan.nuggets + 0
    BY <1>3
  <2>2. ~(a.state = "dead" /\ a.kind = "barrel") /\ ~(a.state = "dead" /\ a.kind = "nugget")
    OBVIOUS
  <2> QED
    BY <2>1, <2>2
<1> QED
  BY <1>1, <1>2, <1>3, <1>4, TurnKeeps

\* Nobody in m_actors can be annoyed, so nothing is struck.
LEMMA NobodyStruck ==
  ASSUME IInv
  PROVE  Strikes \subseteq {FALSE}
<1>1. \A k \in DOMAIN m_actors : ~isAnimate(m_actors[k])
  BY DEF IInv, ActorsOK, Troop, Proper, ActorSet, Kinds, isAnimate
<1> QED
  BY <1>1, Zenon DEF Strikes

\* A boulder that waits.
LEMMA BoulderWaitsKeeps ==
  ASSUME IInv, BoulderWaits
  PROVE  IInv'
<1>1. Turn("boulder") /\ UNCHANGED <<m_TunnelMan, m_barrelsLeft>>
  BY DEF BoulderWaits
<1>2. Proper(Me) /\ Me \in ActorSet /\ Me.kind = "boulder" /\ Me.state # "dead"
  BY <1>1, AtTurn
<1> DEFINE b == [Me EXCEPT !.state = "waiting", !.clock = WAIT - 1]
           c == [Me EXCEPT !.clock = @ - 1]
<1>3. Proper(b) /\ b.kind = "boulder" /\ b.state = "waiting"
  <2>1. b \in ActorSet /\ b.kind = "boulder" /\ b.state = "waiting" /\ b.clock = WAIT - 1 /\ b.n = Me.n
    <3>1. "waiting" \in States /\ WAIT - 1 \in Int
      BY CountsAssumption DEF States
    <3>2. b = [Me EXCEPT !.state = "waiting", !.clock = WAIT - 1]
      OBVIOUS
    <3> HIDE DEF b
    <3> QED
      BY <1>2, <3>1, <3>2 DEF ActorSet
  <2>2. Me.n \in 0..HEIGHT /\ WAIT - 1 \in 0..WAIT
    BY <1>2, CountsAssumption DEF Proper
  <2> HIDE DEF b
  <2> QED
    BY <2>1, <2>2 DEF Proper
<1>4. Me.clock > 0 => Proper(c) /\ c.kind = "boulder" /\ c.state # "dead"
  BY <1>2, CountsAssumption DEF Proper, ActorSet, States
<1>5. Becomes(Me) \/ Becomes(b) \/ (Me.clock > 0 /\ Becomes(c))
  BY DEF BoulderWaits
<1> HIDE DEF b, c
<1> QED
  BY <1>1, <1>2, <1>3, <1>4, <1>5, QuietTurn

\* A boulder that lands.
LEMMA BoulderLandsKeeps ==
  ASSUME IInv, BoulderLands
  PROVE  IInv'
<1>1. Turn("boulder") /\ Becomes(Dead(Me)) /\ UNCHANGED <<m_TunnelMan, m_barrelsLeft>>
  BY DEF BoulderLands, Falls
<1>2. Proper(Dead(Me)) /\ Dead(Me).kind = "boulder"
  BY <1>1, AtTurn DEF Dead, Proper, ActorSet, States
<1> QED
  BY <1>1, <1>2, QuietTurn

\* A boulder that falls, and may fall on the player.
LEMMA BoulderFallsKeeps ==
  ASSUME IInv, BoulderFalls
  PROVE  IInv'
<1>1. Turn("boulder") /\ Me.n > 0 /\ ActorItr' = ActorItr + 1
      /\ UNCHANGED <<m_barrelsLeft, lives, level, phase, made, dropped>>
  BY DEF BoulderFalls, Falls
<1>2. /\ Proper(Me) /\ Me \in ActorSet /\ Me.kind = "boulder" /\ Me.state # "dead" /\ phase = "actors"
      /\ ActorItr \in DOMAIN m_actors /\ PlayerOK /\ m_TunnelMan.nuggets \in Nat
      /\ m_barrelsLeft \in Nat /\ (m_TunnelMan.hp <= 0 => m_TunnelMan.state = "dead")
  BY <1>1, AtTurn
<1>3. PICK player \in BOOLEAN, hit \in Strikes :
        /\ m_TunnelMan' = IF player THEN [m_TunnelMan EXCEPT !.state = "dead"] ELSE m_TunnelMan
        /\ m_actors' = Struck([m_actors EXCEPT ![ActorItr].state = "falling", ![ActorItr].n = @ - 1],
                              100, hit)
  BY DEF BoulderFalls
<1>4. ~hit
  BY <1>3, NobodyStruck
<1> DEFINE a == [Me EXCEPT !.state = "falling", !.n = @ - 1]
<1>5. m_actors' = [m_actors EXCEPT ![ActorItr] = a]
  BY <1>2, <1>3, <1>4 DEF Struck, Me
<1>6. Proper(a) /\ a.kind = "boulder" /\ a.state = "falling"
  <2>1. a \in ActorSet /\ a.kind = "boulder" /\ a.state = "falling" /\ a.clock = Me.clock /\ a.n = Me.n - 1
    <3>1. "falling" \in States /\ Me.n - 1 \in Int
      BY <1>2 DEF States, ActorSet
    <3> DEFINE m == Me.n - 1
    <3>2. a = [Me EXCEPT !.state = "falling", !.n = m]
      OBVIOUS
    <3>3. m \in Int
      BY <3>1
    <3> HIDE DEF a, m
    <3>4. a \in ActorSet /\ a.kind = Me.kind /\ a.state = "falling" /\ a.clock = Me.clock /\ a.n = m
      BY <1>2, <3>1, <3>2, <3>3 DEF ActorSet
    <3> QED
      BY <1>2, <3>4 DEF m
  <2>2. Me.n - 1 \in 0..HEIGHT /\ Me.clock \in 0..WAIT
    BY <1>1, <1>2, CountsAssumption DEF Proper
  <2> HIDE DEF a
  <2> QED
    BY <2>1, <2>2 DEF Proper
<1> HIDE DEF a
<1>7. m_TunnelMan' = m_TunnelMan \/ m_TunnelMan' = [m_TunnelMan EXCEPT !.state = "dead"]
  BY <1>3
<1>8. /\ PlayerOK' /\ m_TunnelMan'.nuggets = m_TunnelMan.nuggets /\ m_TunnelMan'.hp = m_TunnelMan.hp
      /\ (m_TunnelMan.state = "dead" => m_TunnelMan'.state = "dead")
  BY <1>2, <1>7 DEF PlayerOK
<1>9. /\ m_barrelsLeft' = m_barrelsLeft - (IF a.state = "dead" /\ a.kind = "barrel" THEN 1 ELSE 0)
      /\ m_TunnelMan'.nuggets = m_TunnelMan.nuggets
                                + (IF a.state = "dead" /\ a.kind = "nugget" THEN 1 ELSE 0)
  BY <1>1, <1>2, <1>6, <1>8
<1> QED
  BY <1>1, <1>2, <1>5, <1>6, <1>8, <1>9, TurnKeeps

\* A barrel is seen, or taken.
LEMMA BarrelActsKeeps ==
  ASSUME IInv, BarrelActs
  PROVE  IInv'
<1>1. Turn("barrel") /\ UNCHANGED m_TunnelMan
  BY DEF BarrelActs
<1>2. /\ Proper(Me) /\ Me \in ActorSet /\ Me.kind = "barrel" /\ Me.state # "dead" /\ phase = "actors"
      /\ ActorItr \in DOMAIN m_actors /\ PlayerOK /\ m_TunnelMan.nuggets \in Nat
      /\ m_barrelsLeft \in Nat /\ (m_TunnelMan.hp <= 0 => m_TunnelMan.state = "dead")
  BY <1>1, AtTurn
<1> DEFINE v == [Me EXCEPT !.n = Visible]
           d == Dead(Me)
<1>3. Proper(v) /\ v.kind = "barrel" /\ v.state # "dead" /\ Proper(d) /\ d.kind = "barrel" /\ d.state = "dead"
  BY <1>2 DEF Proper, ActorSet, States, Visible, Dead
<1>4. \/ (Becomes(v) \/ Becomes(Me)) /\ UNCHANGED m_barrelsLeft
      \/ Becomes(d) /\ m_barrelsLeft' = m_barrelsLeft - 1
  BY DEF BarrelActs
<1> HIDE DEF v, d
<1>5. CASE (Becomes(v) \/ Becomes(Me)) /\ UNCHANGED m_barrelsLeft
  BY <1>1, <1>2, <1>3, <1>5, QuietTurn
<1>6. CASE Becomes(d) /\ m_barrelsLeft' = m_barrelsLeft - 1
  <2>1. /\ m_actors' = [m_actors EXCEPT ![ActorItr] = d] /\ ActorItr' = ActorItr + 1
        /\ UNCHANGED <<lives, level, phase, made, dropped>>
    BY <1>6 DEF Becomes
  <2>2. PlayerOK'
    BY <1>1, <1>2 DEF PlayerOK
  <2>3. /\ m_barrelsLeft' = m_barrelsLeft - (IF d.state = "dead" /\ d.kind = "barrel" THEN 1 ELSE 0)
        /\ m_TunnelMan'.nuggets = m_TunnelMan.nuggets
                                  + (IF d.state = "dead" /\ d.kind = "nugget" THEN 1 ELSE 0)
    BY <1>1, <1>2, <1>3, <1>6
  <2> QED
    BY <1>1, <1>2, <1>3, <2>1, <2>2, <2>3, TurnKeeps
<1> QED
  BY <1>4, <1>5, <1>6

\* A nugget is taken, or not.
LEMMA NuggetActsKeeps ==
  ASSUME IInv, NuggetActs
  PROVE  IInv'
<1>1. Turn("nugget") /\ UNCHANGED m_barrelsLeft
  BY DEF NuggetActs
<1>2. /\ Proper(Me) /\ Me \in ActorSet /\ Me.kind = "nugget" /\ Me.state # "dead" /\ phase = "actors"
      /\ ActorItr \in DOMAIN m_actors /\ PlayerOK /\ m_TunnelMan.nuggets \in Nat
      /\ m_barrelsLeft \in Nat /\ (m_TunnelMan.hp <= 0 => m_TunnelMan.state = "dead")
  BY <1>1, AtTurn
<1> DEFINE d == Dead(Me)
<1>3. Proper(d) /\ d.kind = "nugget" /\ d.state = "dead"
  BY <1>2 DEF Proper, ActorSet, States, Dead
<1>4. \/ Becomes(Me) /\ UNCHANGED m_TunnelMan
      \/ Becomes(d) /\ m_TunnelMan' = [m_TunnelMan EXCEPT !.nuggets = @ + 1]
  BY DEF NuggetActs
<1> HIDE DEF d
<1>5. CASE Becomes(Me) /\ UNCHANGED m_TunnelMan
  BY <1>1, <1>2, <1>5, QuietTurn
<1>6. CASE Becomes(d) /\ m_TunnelMan' = [m_TunnelMan EXCEPT !.nuggets = @ + 1]
  <2>1. /\ m_actors' = [m_actors EXCEPT ![ActorItr] = d] /\ ActorItr' = ActorItr + 1
        /\ UNCHANGED <<lives, level, phase, made, dropped>>
    BY <1>6 DEF Becomes
  <2>2. /\ PlayerOK' /\ m_TunnelMan'.nuggets = m_TunnelMan.nuggets + 1
        /\ m_TunnelMan'.hp = m_TunnelMan.hp /\ m_TunnelMan'.state = m_TunnelMan.state
    BY <1>2, <1>6 DEF PlayerOK
  <2>3. /\ m_barrelsLeft' = m_barrelsLeft - (IF d.state = "dead" /\ d.kind = "barrel" THEN 1 ELSE 0)
        /\ m_TunnelMan'.nuggets = m_TunnelMan.nuggets
                                  + (IF d.state = "dead" /\ d.kind = "nugget" THEN 1 ELSE 0)
    BY <1>1, <1>2, <1>3, <2>2
  <2> QED
    BY <1>2, <1>3, <2>1, <2>2, <2>3, TurnKeeps
<1> QED
  BY <1>4, <1>5, <1>6

\* A bribe stays, or its time is over.
LEMMA BribeActsKeeps ==
  ASSUME IInv, BribeActs
  PROVE  IInv'
<1>1. Turn("bribe") /\ UNCHANGED <<m_TunnelMan, m_barrelsLeft>>
  BY DEF BribeActs
<1>2. Proper(Me) /\ Me \in ActorSet /\ Me.kind = "bribe" /\ Me.state # "dead"
  BY <1>1, AtTurn
<1> DEFINE d == Dead(Me)
<1>3. Proper(d) /\ d.kind = "bribe"
  BY <1>2 DEF Proper, ActorSet, States, Dead
<1>4. Becomes(Me) \/ Becomes(d)
  BY DEF BribeActs
<1> HIDE DEF d
<1> QED
  BY <1>1, <1>2, <1>3, <1>4, QuietTurn

\* A goodie stays, its time is over, or it is taken.
LEMMA GoodieActsKeeps ==
  ASSUME IInv, GoodieActs
  PROVE  IInv'
<1>1. PICK kind \in {"kit", "pool"} : Turn(kind)
  BY DEF GoodieActs
<1>2. /\ Proper(Me) /\ Me \in ActorSet /\ Me.kind = kind /\ Me.state # "dead" /\ phase = "actors"
      /\ ActorItr \in DOMAIN m_actors /\ PlayerOK /\ m_TunnelMan.nuggets \in Nat
      /\ m_barrelsLeft \in Nat /\ (m_TunnelMan.hp <= 0 => m_TunnelMan.state = "dead")
  BY <1>1, AtTurn
<1> DEFINE d == Dead(Me)
<1>3. Proper(d) /\ d.kind = kind
  BY <1>1, <1>2 DEF Proper, ActorSet, States, Dead
<1>4. /\ UNCHANGED m_barrelsLeft
      /\ \/ (Becomes(Me) \/ Becomes(d)) /\ UNCHANGED m_TunnelMan
         \/ /\ Becomes(d)
            /\ \/ m_TunnelMan' = [m_TunnelMan EXCEPT !.kits = @ + 1]
               \/ m_TunnelMan' = [m_TunnelMan EXCEPT !.squirts = @ + 5]
  BY DEF GoodieActs
<1> HIDE DEF d
<1>5. CASE UNCHANGED m_TunnelMan
  BY <1>1, <1>2, <1>3, <1>4, <1>5, QuietTurn
<1>6. CASE /\ Becomes(d)
           /\ \/ m_TunnelMan' = [m_TunnelMan EXCEPT !.kits = @ + 1]
              \/ m_TunnelMan' = [m_TunnelMan EXCEPT !.squirts = @ + 5]
  <2>1. /\ m_actors' = [m_actors EXCEPT ![ActorItr] = d] /\ ActorItr' = ActorItr + 1
        /\ UNCHANGED <<lives, level, phase, made, dropped>>
    BY <1>6 DEF Becomes
  <2>2. /\ PlayerOK' /\ m_TunnelMan'.nuggets = m_TunnelMan.nuggets
        /\ m_TunnelMan'.hp = m_TunnelMan.hp /\ m_TunnelMan'.state = m_TunnelMan.state
    BY <1>2, <1>6 DEF PlayerOK
  <2>3. /\ m_barrelsLeft' = m_barrelsLeft - (IF d.state = "dead" /\ d.kind = "barrel" THEN 1 ELSE 0)
        /\ m_TunnelMan'.nuggets = m_TunnelMan.nuggets
                                  + (IF d.state = "dead" /\ d.kind = "nugget" THEN 1 ELSE 0)
    BY <1>1, <1>2, <1>3, <1>4, <2>2
  <2> QED
    BY <1>2, <1>3, <2>1, <2>2, <2>3, TurnKeeps
<1> QED
  BY <1>4, <1>5, <1>6

\* A squirt flies on, or ends.
LEMMA SquirtActsKeeps ==
  ASSUME IInv, SquirtActs
  PROVE  IInv'
<1>1. Turn("squirt") /\ UNCHANGED <<m_TunnelMan, m_barrelsLeft>>
  BY DEF SquirtActs
<1>2. Proper(Me) /\ Me \in ActorSet /\ Me.kind = "squirt" /\ Me.state # "dead"
  BY <1>1, AtTurn
<1> DEFINE d == Dead(Me)
<1>3. Proper(d) /\ d.kind = "squirt"
  BY <1>2 DEF Proper, ActorSet, States, Dead
<1>4. PICK hit \in Strikes, stopped \in BOOLEAN :
        m_actors' = Struck([m_actors EXCEPT ![ActorItr] = IF hit \/ stopped THEN d ELSE Me], 2, hit)
  BY DEF SquirtActs
<1>5. ~hit
  BY <1>4, NobodyStruck
<1> HIDE DEF d
<1>6. \/ m_actors' = [m_actors EXCEPT ![ActorItr] = d]
      \/ m_actors' = [m_actors EXCEPT ![ActorItr] = Me]
  BY <1>4, <1>5 DEF Struck
<1>7. Becomes(d) \/ Becomes(Me)
  BY <1>6 DEF SquirtActs, Becomes
<1> QED
  BY <1>1, <1>2, <1>3, <1>7, QuietTurn

\* annoyPlayer() leaves a player who is dead if no hit points are left.
LEMMA HurtPlayer ==
  ASSUME PlayerOK, m_TunnelMan.hp > 0, m_TunnelMan' = Hurt(m_TunnelMan)
  PROVE  /\ PlayerOK' /\ m_TunnelMan'.nuggets = m_TunnelMan.nuggets
         /\ m_TunnelMan'.hp <= 0 => m_TunnelMan'.state = "dead"
<1> DEFINE b == m_TunnelMan.m_Dead \/ m_TunnelMan.hp - 2 <= 0
           h == m_TunnelMan.hp - 2
           q == IF m_TunnelMan.hp - 2 <= 0 THEN "dead" ELSE m_TunnelMan.state
<1>1. b \in BOOLEAN
  BY Zenon
<1>2. /\ m_TunnelMan \in PlayerSet /\ m_TunnelMan.hp \in 1..HP /\ q \in {"alive", "dead"} /\ HP \in Nat
      /\ m_TunnelMan.hp - 2 <= 0 => q = "dead"
  BY CountsAssumption DEF PlayerOK, PlayerSet
<1>3. m_TunnelMan' = [m_TunnelMan EXCEPT !.hp = h, !.m_Dead = b, !.state = q]
  BY DEF Hurt
<1>4. h \in Int
  BY <1>2
<1> HIDE DEF b, q, h
<1>5. /\ m_TunnelMan' \in PlayerSet /\ m_TunnelMan'.hp = h
      /\ m_TunnelMan'.nuggets = m_TunnelMan.nuggets /\ m_TunnelMan'.state = q
  BY <1>1, <1>2, <1>3, <1>4 DEF PlayerSet
<1> QED
  BY <1>2, <1>5 DEF PlayerOK, PlayerSet, h

\* The protester shouts at a player who has hit points left, or does not.
LEMMA ProtesterActsKeeps ==
  ASSUME IInv, ProtesterActs
  PROVE  IInv'
<1>1. Turn("protester") /\ UNCHANGED m_barrelsLeft
  BY DEF ProtesterActs
<1>2. /\ Proper(Me) /\ Me \in ActorSet /\ Me.kind = "protester" /\ Me.state # "dead" /\ phase = "actors"
      /\ ActorItr \in DOMAIN m_actors /\ PlayerOK /\ m_TunnelMan.nuggets \in Nat
      /\ m_barrelsLeft \in Nat /\ m_TunnelMan.hp \in Int
  BY <1>1, AtTurn
<1>3. m_TunnelMan.hp > 0
  <2>1. ActorItr \in Nat
    BY DEF IInv, GameOK
  <2> QED
    BY <1>2, <2>1 DEF IInv, Killed, Me
<1>4. Becomes(Me) /\ (UNCHANGED m_TunnelMan \/ m_TunnelMan' = Hurt(m_TunnelMan))
  BY DEF ProtesterActs
<1>5. CASE UNCHANGED m_TunnelMan
  BY <1>1, <1>2, <1>4, <1>5, QuietTurn
<1>6. CASE m_TunnelMan' = Hurt(m_TunnelMan)
  <2>1. /\ m_actors' = [m_actors EXCEPT ![ActorItr] = Me] /\ ActorItr' = ActorItr + 1
        /\ UNCHANGED <<lives, level, phase, made, dropped>>
    BY <1>4 DEF Becomes
  <2>2. /\ PlayerOK' /\ m_TunnelMan'.nuggets = m_TunnelMan.nuggets
        /\ (m_TunnelMan'.hp <= 0 => m_TunnelMan'.state = "dead")
    BY <1>2, <1>3, <1>6, HurtPlayer
  <2>3. PICK a \in ActorSet : a = Me
    BY <1>2
  <2>4. /\ Proper(a) /\ a.kind = Me.kind /\ a.kind = "protester" /\ a.state # "dead"
        /\ m_actors' = [m_actors EXCEPT ![ActorItr] = a]
    BY <1>2, <2>1, <2>3
  <2>5. /\ m_barrelsLeft' = m_barrelsLeft - (IF a.state = "dead" /\ a.kind = "barrel" THEN 1 ELSE 0)
        /\ m_TunnelMan'.nuggets = m_TunnelMan.nuggets
                                  + (IF a.state = "dead" /\ a.kind = "nugget" THEN 1 ELSE 0)
    BY <1>1, <1>2, <2>2, <2>4
  <2> QED
    BY <1>2, <2>1, <2>2, <2>4, <2>5, TurnKeeps
<1> QED
  BY <1>4, <1>5, <1>6

\* The player's keys: each keeps hit points and state, and the gold accounted for.
LEMMA KeysKeep ==
  ASSUME IInv, Stroll \/ Escape \/ Squirt \/ DropGold
  PROVE  IInv'
<1>1. /\ m_TunnelMan \in PlayerSet /\ m_TunnelMan.hp \in -1..HP /\ m_TunnelMan.nuggets \in Nat
      /\ m_TunnelMan.squirts \in Nat /\ dropped \in Nat
  BY DEF IInv, PlayerOK, PlayerSet, GameOK
<1>2. CASE Stroll
  <2>1. Alive /\ Acted(m_TunnelMan, <<>>) /\ dropped' = dropped
    BY <1>2 DEF Stroll
  <2>2. m_TunnelMan' = m_TunnelMan
    BY <2>1 DEF Acted
  <2>3. PlayerOK'
    BY <2>2 DEF IInv, PlayerOK
  <2> QED
    BY <1>1, <2>1, <2>3, ActedKeeps
<1>3. CASE Escape
  <2> DEFINE p == [m_TunnelMan EXCEPT !.m_Dead = TRUE]
  <2>1. Alive /\ Acted(p, <<>>) /\ dropped' = dropped
    BY <1>3 DEF Escape
  <2>2. p \in PlayerSet /\ p.hp = m_TunnelMan.hp /\ p.state = m_TunnelMan.state /\ p.nuggets = m_TunnelMan.nuggets
    <3>1. TRUE \in BOOLEAN
      BY Zenon
    <3>2. \A b \in BOOLEAN : LET q == [m_TunnelMan EXCEPT !.m_Dead = b] IN
            q \in PlayerSet /\ q.hp = m_TunnelMan.hp /\ q.state = m_TunnelMan.state /\ q.nuggets = m_TunnelMan.nuggets
      BY <1>1 DEF PlayerSet
    <3> QED
      BY <3>1, <3>2
  <2> HIDE DEF p
  <2>3. m_TunnelMan' = p
    BY <2>1 DEF Acted
  <2>4. PlayerOK'
    BY <1>1, <2>2, <2>3 DEF PlayerOK, PlayerSet
  <2> QED
    BY <1>1, <2>1, <2>2, <2>4, ActedKeeps
<1>4. CASE Squirt
  <2> DEFINE p == [m_TunnelMan EXCEPT !.squirts = @ - 1]
  <2>1. PICK st \in {"alive", "dead"} : Acted(p, <<Actor("squirt", st, 0)>>)
    BY <1>4 DEF Squirt
  <2> DEFINE a == Actor("squirt", st, 0)
  <2>2. Alive /\ dropped' = dropped /\ m_TunnelMan.squirts > 0
    BY <1>4 DEF Squirt
  <2>3. /\ p \in PlayerSet /\ p.hp = m_TunnelMan.hp /\ p.state = m_TunnelMan.state
        /\ p.nuggets = m_TunnelMan.nuggets
    BY <1>1, <2>2 DEF PlayerSet
  <2>4. Proper(a) /\ a.kind = "squirt"
    BY <2>1, CountsAssumption DEF Proper, Actor, ActorSet, Kinds, States
  <2>5. Acted(p, <<a>>)
    BY <2>1
  <2> HIDE DEF p, a
  <2>6. m_TunnelMan' = p
    BY <2>5 DEF Acted
  <2>7. PlayerOK'
    BY <1>1, <2>3, <2>6 DEF PlayerOK, PlayerSet
  <2> QED
    BY <1>1, <2>2, <2>3, <2>4, <2>5, <2>7, ActedKeeps
<1>5. CASE DropGold
  <2> DEFINE p == [m_TunnelMan EXCEPT !.nuggets = @ - 1]
             a == Actor("bribe", "temporary", 0)
  <2>1. Acted(p, <<a>>)
    BY <1>5 DEF DropGold
  <2>2. Alive /\ dropped' = dropped + 1 /\ m_TunnelMan.nuggets > 0
    BY <1>5 DEF DropGold
  <2>3. /\ p \in PlayerSet /\ p.hp = m_TunnelMan.hp /\ p.state = m_TunnelMan.state
        /\ p.nuggets = m_TunnelMan.nuggets - 1
    BY <1>1, <2>2 DEF PlayerSet
  <2>4. Proper(a) /\ a.kind = "bribe"
    BY CountsAssumption DEF Proper, Actor, ActorSet, Kinds, States
  <2> HIDE DEF p, a
  <2>5. m_TunnelMan' = p
    BY <2>1 DEF Acted
  <2>6. PlayerOK'
    BY <1>1, <2>3, <2>5 DEF PlayerOK, PlayerSet
  <2>7. p.nuggets + dropped' = m_TunnelMan.nuggets + dropped /\ dropped' \in Nat
    BY <1>1, <2>2, <2>3
  <2> QED
    BY <2>1, <2>2, <2>3, <2>4, <2>6, <2>7, ActedKeeps
<1> QED
  BY <1>2, <1>3, <1>4, <1>5

\* Everything stays as it is, but where move() is, or the game is over.
LEMMA RestKeeps ==
  ASSUME IInv, UNCHANGED <<m_TunnelMan, m_actors, m_barrelsLeft, dropped>>, GameOK', CleanBehind',
         \/ phase' \in {"over", "sweep"}
         \/ phase' = phase /\ ActorItr' \in {ActorItr, ActorItr + 1}
  PROVE  IInv'
<1>1. ActorsOK' /\ PlayerOK' /\ OneProtester' /\ BarrelsCounted' /\ GoldAccounted'
  BY DEF IInv, ActorsOK, PlayerOK, OneProtester, BarrelsCounted, GoldAccounted, Count
<1>2. Finishing' /\ NoDeadKept'
  BY DEF IInv, Finishing, NoDeadKept
<1>3. Killed'
  <2>1. ActorItr \in Nat /\ \A k \in DOMAIN m_actors : k \in Nat
    BY DEF IInv, GameOK, ActorsOK, Troop
  <2> QED
    BY <2>1 DEF IInv, Killed
<1> QED
  BY <1>1, <1>2, <1>3 DEF IInv

\* A life is lost, or a level finished.
LEMMA EndsKeep ==
  ASSUME IInv, PlayerDied \/ LevelFinished
  PROVE  IInv'
<1>1. /\ lives \in 0..LIVES /\ level \in 0..LEVELS /\ (phase # "over" => lives > 0 /\ level < LEVELS)
      /\ LIVES \in Nat /\ LEVELS \in Nat /\ phase # "over" /\ ActorItr \in Nat \ {0} /\ dropped \in Nat
  BY CountsAssumption DEF IInv, GameOK, PlayerDied, LevelFinished
<1>2. \/ StartLevel /\ lives' \in 1..LIVES /\ level' \in 0..LEVELS /\ level' < LEVELS
      \/ Over /\ lives' \in 0..LIVES /\ level' \in 0..LEVELS
  BY <1>1 DEF PlayerDied, LevelFinished
<1>3. CASE Over /\ lives' \in 0..LIVES /\ level' \in 0..LEVELS
  <2>1. GameOK' /\ CleanBehind'
    BY <1>1, <1>3 DEF GameOK, CleanBehind, Over
  <2> QED
    BY <1>3, <2>1, RestKeeps DEF Over
<1> QED
  BY <1>2, <1>3, StartKeeps

\* Initially the books are in order.
LEMMA InitKeeps ==
  ASSUME Init
  PROVE  IInv
<1>1. m_actors = NewActors
  BY DEF Init
<1>2. /\ Troop(m_actors) /\ \A k \in DOMAIN m_actors : m_actors[k].state # "dead"
      /\ Cardinality(Living(m_actors, "barrel")) = Barrels
      /\ Cardinality(Living(m_actors, "nugget")) = Nuggets
      /\ Cardinality(Living(m_actors, "protester")) = 1
  BY <1>1, NewLevel
<1>3. /\ HP \in Nat /\ HP > 0 /\ SQUIRTS \in Nat /\ LIVES \in Nat \ {0} /\ LEVELS \in Nat \ {0} /\ Nuggets \in Nat
  BY CountsAssumption
<1>4. m_TunnelMan = NewPlayer /\ NewPlayer \in PlayerSet /\ NewPlayer.hp = HP /\ NewPlayer.nuggets = 0
  BY <1>3 DEF NewPlayer, PlayerSet, Init
<1>5. ActorsOK /\ PlayerOK
  BY <1>2, <1>3, <1>4 DEF ActorsOK, PlayerOK, PlayerSet
<1>6. GameOK /\ Finishing /\ CleanBehind /\ Killed
  BY <1>3, <1>4 DEF Init, GameOK, Finishing, CleanBehind, Killed
<1>7. OneProtester /\ BarrelsCounted /\ NoDeadKept /\ GoldAccounted
  BY <1>2, <1>3, <1>4 DEF Init, OneProtester, BarrelsCounted, NoDeadKept, GoldAccounted, Count
<1> QED
  BY <1>5, <1>6, <1>7 DEF IInv

\* The inductive invariant holds throughout.
LEMMA Inductive == Spec => []IInv
<1>1. Init => IInv
  BY InitKeeps
<1>2. IInv /\ [Next]_vars => IInv'
  <2> SUFFICES ASSUME IInv, [Next]_vars PROVE IInv'
    OBVIOUS
  <2>1. CASE UNCHANGED vars
    <3>1. GameOK' /\ CleanBehind'
      BY <2>1 DEF vars, IInv, GameOK, CleanBehind
    <3> QED
      BY <2>1, <3>1, RestKeeps DEF vars
  <2>2. CASE DeadTurn
    <3>1. GameOK' /\ CleanBehind'
      BY <2>2 DEF DeadTurn, IInv, GameOK, CleanBehind
    <3> QED
      BY <2>2, <3>1, RestKeeps DEF DeadTurn
  <2>3. CASE Player
    BY <2>3, KeysKeep, SonarKeeps, EndsKeep DEF Player
  <2>4. CASE Actors
    BY <2>2, <2>4, BoulderWaitsKeeps, BoulderLandsKeeps, BoulderFallsKeeps, BarrelActsKeeps,
       NuggetActsKeeps, BribeActsKeeps, GoodieActsKeeps, SquirtActsKeeps, ProtesterActsKeeps DEF Actors
  <2>5. CASE TurnsOver
    <3>1. GameOK' /\ CleanBehind'
      <4>1. \A k \in DOMAIN m_actors : ~(k < 1)
        BY DEF IInv, ActorsOK, Troop
      <4> QED
        BY <2>5, <4>1 DEF TurnsOver, IInv, GameOK, CleanBehind
    <3> QED
      BY <2>5, <3>1, RestKeeps DEF TurnsOver
  <2>6. CASE Keep
    <3>1. GameOK'
      BY <2>6 DEF Keep, Swept, IInv, GameOK
    <3>2. CleanBehind'
      <4>1. ActorItr \in Nat /\ \A k \in DOMAIN m_actors : k \in Nat
        BY DEF IInv, GameOK, ActorsOK, Troop
      <4>2. \A k \in DOMAIN m_actors : k < ActorItr + 1 => k < ActorItr \/ k = ActorItr
        BY <4>1
      <4> QED
        BY <2>6, <4>2 DEF Keep, Swept, Me, IInv, CleanBehind
    <3> QED
      BY <2>6, <3>1, <3>2, RestKeeps DEF Keep, Swept
  <2>7. CASE Sweep
    BY <2>5, <2>6, <2>7, EraseKeeps, EndTickKeeps DEF Sweep
  <2> QED
    BY <2>1, <2>3, <2>4, <2>7 DEF Next
<1> QED
  BY <1>1, <1>2, PTL DEF Spec

-----------------------------------------------------------------------------
\* The results

\* The books of a level are right at every moment of a tick: the barrels left and the gold
\* are accounted for while the dead are erased one by one, and the dead are gone between
\* two ticks.
THEOREM BooksAreRight == Spec => []ActorsAccounted
<1>1. IInv => ActorsAccounted
  <2> SUFFICES ASSUME IInv PROVE ActorsAccounted
    OBVIOUS
  <2>1. /\ m_actors \in Seq(ActorSet) /\ \A k \in DOMAIN m_actors : Proper(m_actors[k])
        /\ PlayerOK /\ GameOK /\ BarrelsCounted /\ GoldAccounted /\ NoDeadKept
    BY DEF IInv, ActorsOK, Troop
  <2>2. m_TunnelMan.nuggets \in 0..Nuggets
    <3>1. Count("nugget") + m_TunnelMan.nuggets + dropped = Nuggets
      BY <2>1 DEF GoldAccounted
    <3>2. Count("nugget") \in Nat
      BY <2>1, LivingFinite DEF Count
    <3>3. m_TunnelMan.nuggets \in Nat /\ dropped \in Nat
      BY <2>1 DEF PlayerOK, GameOK
    <3> QED
      BY <3>1, <3>2, <3>3, CountsAssumption
  <2>3. TypeOK
    BY <2>1, <2>2 DEF TypeOK, PlayerOK, GameOK, Proper
  <2> QED
    BY <2>1, <2>3 DEF ActorsAccounted
<1> QED
  BY <1>1, Inductive, PTL

\* A level is finished only by a living player with every barrel, and a life lost only by a
\* dead one, one at a time.
THEOREM EndsAreFair == Spec => FairEnds
<1>1. IInv /\ [Next]_vars => [FairStep]_vars
  <2> SUFFICES ASSUME IInv, Next PROVE FairStep
    OBVIOUS
  <2>1. CASE PlayerDied
    BY <2>1 DEF PlayerDied, FairStep
  <2>2. CASE LevelFinished
    BY <2>2 DEF LevelFinished, IInv, Finishing, BarrelsCounted, FairStep
  <2>3. CASE ~PlayerDied /\ ~LevelFinished
    <3>1. lives' = lives /\ level' = level
      BY <2>3 DEF Next, Player, Actors, Stroll, Escape, Squirt, DropGold, Acted, Sonar, DeadTurn,
         BoulderWaits, BoulderLands, BoulderFalls, BarrelActs, NuggetActs, BribeActs, GoodieActs,
         SquirtActs, ProtesterActs, Becomes, Sweep, TurnsOver, Keep, Swept, Erase, EndTick
    <3> QED
      BY <3>1 DEF FairStep
  <2> QED
    BY <2>1, <2>2, <2>3
<1> QED
  BY <1>1, Inductive, PTL DEF Spec, FairEnds
=============================================================================
