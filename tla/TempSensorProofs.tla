--------------------------- MODULE TempSensorProofs ---------------------------
(***************************************************************************)
(* Proofs about TempSensor, for any sessions, options and buffer sizes.    *)
(* Each safety property is proved from the part of the inductive invariant *)
(* it needs: Places says where a thread can be and what it has done by     *)
(* then, Stream what is left to read, which determines what cmd_str holds. *)
(***************************************************************************)
EXTENDS TempSensor, WellFoundedInduction, SequenceTheorems, TLAPS

MainPlaces == {"opts", "setup", "read", "char", "exec", "cmd", "scaled", "timed",
               "exit", "closed", "_exit"}
SensorPlaces == {"none", "loop", "read", "convert", "flag", "print", "sleep",
                 "returned", "exit", "closed", "_exit"}

\* A set of naturals has a least element: what the inductions below rest on.
LEMMA Least ==
  ASSUME NEW T \in SUBSET Nat, T # {}
  PROVE  \E x \in T : \A y \in T : x <= y
<1>1. PICK x \in T : \A y \in T : ~ (<<y, x>> \in OpToRel(<, Nat))
  BY WFMin, NatLessThanWellFounded
<1>2. \A y \in T : ~(y < x)
  BY <1>1 DEF OpToRel
<1> QED
  BY <1>2

-----------------------------------------------------------------------------
\* What Input() computes: the characters of the lines, one after the other.

CharSet == Nat \X Nat
IsChar(s, c) == c[1] \in DOMAIN s /\ c[2] \in 0..s[c[1]].len

\* The character of line l that follows its first i ones.
Pos(s, l, i) == IF i < s[l].len THEN <<l, i + 1>> ELSE <<l, 0>>
Succ(s, c) == IF c[2] = 0 THEN Pos(s, c[1] + 1, 0) ELSE Pos(s, c[1], c[2])

Linked(s, q) ==
  /\ q \in Seq(CharSet)
  /\ \A k \in 1..Len(q) : IsChar(s, q[k])
  /\ \A k \in 1..(Len(q) - 1) : q[k + 1] = Succ(s, q[k])

UpTo(s) == CHOOSE f : f = [n \in 0..Len(s) |->
             IF n = 0 THEN <<>>
             ELSE f[n - 1] \o [j \in 1..s[n].len |-> <<n, j>>] \o << <<n, 0>> >>]

\* The recursion that defines Input() has a solution, built line by line.
LEMMA UpToDef ==
  ASSUME NEW s \in Sessions
  PROVE  UpTo(s) = [n \in 0..Len(s) |->
             IF n = 0 THEN <<>>
             ELSE UpTo(s)[n - 1] \o [j \in 1..s[n].len |-> <<n, j>>] \o << <<n, 0>> >>]
<1> DEFINE Body(f, n) == IF n = 0 THEN <<>>
                         ELSE f[n - 1] \o [j \in 1..s[n].len |-> <<n, j>>] \o << <<n, 0>> >>
           P(m) == \E f : f = [n \in 0..m |-> Body(f, n)]
           T == {m \in Nat : ~P(m)}
<1>1. Len(s) \in Nat
  BY LinesAssumption
<1>2. P(0)
  <2> DEFINE f == [n \in 0..0 |-> <<>>]
  <2>1. f = [n \in 0..0 |-> Body(f, n)]
    OBVIOUS
  <2> QED
    BY <2>1
<1>3. ASSUME NEW m \in Nat, P(m) PROVE P(m + 1)
  <2>1. PICK f : f = [n \in 0..m |-> Body(f, n)]
    BY <1>3
  <2> DEFINE g == [n \in 0..(m + 1) |-> IF n = m + 1 THEN Body(f, n) ELSE f[n]]
  <2>2. ASSUME NEW n \in 0..(m + 1) PROVE g[n] = Body(g, n)
    <3>1. CASE n = 0
      <4>1. f[0] = Body(f, 0)
        BY <2>1
      <4> QED
        BY <3>1, <4>1
    <3>2. CASE n # 0
      <4>1. n - 1 \in 0..m /\ n - 1 # m + 1 /\ n - 1 \in 0..(m + 1)
        BY <3>2
      <4>2. g[n - 1] = f[n - 1]
        BY <4>1
      <4>3. Body(g, n) = Body(f, n)
        <5> HIDE DEF g
        <5> QED
          BY <3>2, <4>2
      <4>4. n # m + 1 => f[n] = Body(f, n)
        <5> SUFFICES ASSUME n # m + 1 PROVE f[n] = Body(f, n)
          OBVIOUS
        <5>1. n \in 0..m
          OBVIOUS
        <5> HIDE DEF Body
        <5> QED
          BY <5>1, <2>1
      <4> QED
        BY <4>3, <4>4
    <3> QED
      BY <3>1, <3>2
  <2> HIDE DEF Body
  <2>3. g = [n \in 0..(m + 1) |-> Body(g, n)]
    BY <2>2
  <2> QED
    BY <2>3
<1>4. T = {}
  <2> HIDE DEF P
  <2>1. SUFFICES ASSUME T # {} PROVE FALSE
    OBVIOUS
  <2>2. PICK x \in T : \A y \in T : x <= y
    BY <2>1, Least
  <2>3. x \in Nat /\ ~P(x) /\ x # 0
    BY <1>2
  <2>4. x - 1 \in Nat /\ x - 1 \notin T /\ (x - 1) + 1 = x
    BY <2>2, <2>3
  <2>5. P(x - 1)
    BY <2>4
  <2> QED
    BY <2>3, <2>4, <2>5, <1>3
<1>5. P(Len(s))
  <2> HIDE DEF P
  <2> QED
    BY <1>1, <1>4
<1> QED
  BY <1>5 DEF UpTo

\* The elements of a sequence, a second one and a last element.
Joined(q, A, e, r) ==
  /\ r \in Seq(CharSet) /\ Len(r) = Len(q) + Len(A) + 1
  /\ \A k \in 1..Len(q) : r[k] = q[k]
  /\ \A k \in (Len(q) + 1)..(Len(q) + Len(A)) : r[k] = A[k - Len(q)]
  /\ r[Len(r)] = e

\* Two texts and a character put together are what Joined says.
LEMMA ThreeParts ==
  ASSUME NEW q \in Seq(CharSet), NEW A \in Seq(CharSet), NEW e \in CharSet
  PROVE  Joined(q, A, e, q \o A \o <<e>>)
<1>0. PICK r : r = q \o A \o <<e>>
  OBVIOUS
<1>1. PICK B : B = q \o A
  OBVIOUS
<1>2. /\ B \in Seq(CharSet) /\ Len(B) = Len(q) + Len(A)
      /\ \A k \in 1..Len(q) : B[k] = q[k]
      /\ \A k \in (Len(q) + 1)..(Len(q) + Len(A)) : B[k] = A[k - Len(q)]
  BY <1>1
<1>3. r = Append(B, e)
  BY <1>0, <1>1, <1>2
<1>4. /\ r \in Seq(CharSet) /\ Len(r) = Len(B) + 1 /\ r[Len(r)] = e
      /\ \A k \in 1..Len(B) : r[k] = B[k]
  <2>1. B \in Seq(CharSet) /\ Len(B) \in Nat
    BY <1>2
  <2>2. r \in Seq(CharSet) /\ Len(r) = Len(B) + 1
    BY <1>3, <2>1
  <2>3. r[Len(r)] = e
    BY <1>3, <2>1
  <2>4. \A k \in 1..Len(B) : r[k] = B[k]
    BY <1>3, <2>1
  <2> QED
    BY <2>2, <2>3, <2>4
<1>5. Joined(q, A, e, r)
  BY <1>2, <1>4 DEF Joined
<1> QED
  BY <1>0, <1>5

\* r is q followed by the m characters of line l and its newline.
Longer(q, l, m, r) ==
  /\ \A k \in 1..Len(q) : r[k] = q[k]
  /\ \A k \in (Len(q) + 1)..(Len(q) + m) : r[k] = <<l, k - Len(q)>>
  /\ r[Len(r)] = <<l, 0>>

\* q is a linked text from the first line to the newline of line n.
Reaches(s, n, q) ==
  /\ Linked(s, q) /\ (q = <<>> => n = 0)
  /\ q # <<>> => q[1] = Pos(s, 1, 0) /\ q[Len(q)] = <<n, 0>>

\* Appending line n + 1 to a text that ends with line n keeps it linked.
LEMMA LineLinked ==
  ASSUME NEW s \in Sessions, NEW n \in Nat, n + 1 \in DOMAIN s,
         NEW q, Reaches(s, n, q),
         NEW m \in Nat, s[n + 1].len = m,
         NEW r \in Seq(CharSet), Len(r) = Len(q) + m + 1, Longer(q, n + 1, m, r)
  PROVE  Reaches(s, n + 1, r)
<1>0. /\ Linked(s, q) /\ (q = <<>> => n = 0)
      /\ q # <<>> => q[1] = Pos(s, 1, 0) /\ q[Len(q)] = <<n, 0>>
  BY DEF Reaches
<1>1. q \in Seq(CharSet) /\ Len(q) \in Nat
  BY <1>0 DEF Linked
<1>2. ASSUME NEW k \in 1..Len(r) PROVE IsChar(s, r[k])
  <2>1. CASE k \in 1..Len(q)
    <3>1. r[k] = q[k]
      BY <2>1 DEF Longer
    <3> QED
      BY <3>1, <2>1, <1>0 DEF Linked
  <2>2. CASE k \in (Len(q) + 1)..(Len(q) + m)
    <3>1. r[k] = <<n + 1, k - Len(q)>>
      BY <2>2 DEF Longer
    <3> QED
      BY <3>1, <2>2, <1>1 DEF IsChar
  <2>3. CASE k = Len(r)
    BY <2>3, <1>1 DEF IsChar, Longer
  <2> QED
    BY <2>1, <2>2, <2>3, <1>1
<1>3. ASSUME NEW k \in 1..(Len(r) - 1) PROVE r[k + 1] = Succ(s, r[k])
  <2>0. Len(q) \in Nat /\ k \in Nat /\ k >= 1 /\ k < Len(q) + m + 1
    BY <1>1
  <2>1. CASE k < Len(q)
    <3>1. k \in 1..(Len(q) - 1) /\ k \in 1..Len(q) /\ k + 1 \in 1..Len(q)
      BY <2>0, <2>1
    <3>2. r[k] = q[k] /\ r[k + 1] = q[k + 1]
      BY <3>1 DEF Longer
    <3> QED
      BY <3>1, <3>2, <1>0 DEF Linked
  <2>2. CASE k = Len(q)
    <3>1. k \in 1..Len(q) /\ q # <<>>
      BY <2>0, <2>2
    <3>2. r[k] = <<n, 0>>
      BY <3>1, <2>2, <1>0 DEF Longer
    <3>3. Succ(s, r[k]) = Pos(s, n + 1, 0)
      BY <3>2 DEF Succ
    <3>4. r[k + 1] = Pos(s, n + 1, 0)
      <4>1. CASE m = 0
        <5>1. k + 1 = Len(r)
          BY <4>1, <2>2, <2>0
        <5> QED
          BY <4>1, <5>1 DEF Pos, Longer
      <4>2. CASE m > 0
        <5>1. k + 1 \in (Len(q) + 1)..(Len(q) + m) /\ (k + 1) - Len(q) = 1
          BY <4>2, <2>2, <2>0
        <5>2. r[k + 1] = <<n + 1, 1>>
          BY <5>1 DEF Longer
        <5> QED
          BY <4>2, <5>2 DEF Pos
      <4> QED
        BY <4>1, <4>2
    <3> QED
      BY <3>3, <3>4
  <2>3. CASE k > Len(q)
    <3>1. k \in (Len(q) + 1)..(Len(q) + m) /\ k - Len(q) \in Nat \ {0}
      BY <2>0, <2>3
    <3>2. r[k] = <<n + 1, k - Len(q)>>
      BY <3>1 DEF Longer
    <3>3. Succ(s, r[k]) = Pos(s, n + 1, k - Len(q))
      BY <3>1, <3>2 DEF Succ
    <3>4. CASE k < Len(q) + m
      <4>1. k + 1 \in (Len(q) + 1)..(Len(q) + m) /\ (k + 1) - Len(q) = (k - Len(q)) + 1
        BY <3>4, <2>0, <2>3
      <4>2. r[k + 1] = <<n + 1, (k - Len(q)) + 1>>
        BY <4>1 DEF Longer
      <4>3. k - Len(q) < m
        BY <3>4, <2>0
      <4> QED
        BY <4>2, <4>3, <3>3 DEF Pos
    <3>5. CASE k = Len(q) + m
      <4>1. k + 1 = Len(r) /\ ~(k - Len(q) < m)
        BY <3>5, <2>0
      <4> QED
        BY <4>1, <3>3 DEF Pos, Longer
    <3> QED
      BY <2>0, <3>4, <3>5
  <2> QED
    BY <2>0, <2>1, <2>2, <2>3
<1>4. r[1] = Pos(s, 1, 0)
  <2>1. CASE q # <<>>
    <3>1. 1 \in 1..Len(q)
      BY <2>1, <1>1
    <3>2. r[1] = q[1]
      BY <3>1 DEF Longer
    <3> QED
      BY <3>2, <2>1, <1>0
  <2>2. CASE q = <<>>
    <3>1. Len(q) = 0 /\ n = 0 /\ n + 1 = 1
      BY <2>2, <1>0
    <3>2. CASE m = 0
      <4>1. Len(r) = 1
        BY <3>1, <3>2
      <4> QED
        <5>1. r[1] = <<1, 0>>
          BY <3>1, <4>1 DEF Longer
        <5>2. s[1].len = 0
          BY <3>1, <3>2
        <5> QED
          BY <5>1, <5>2 DEF Pos
    <3>3. CASE m > 0
      <4>1. 1 \in (Len(q) + 1)..(Len(q) + m) /\ 1 - Len(q) = 1
        BY <3>1, <3>3
      <4>2. r[1] = <<n + 1, 1>>
        BY <4>1 DEF Longer
      <4> QED
        BY <3>1, <3>3, <4>2 DEF Pos
    <3> QED
      BY <3>2, <3>3
  <2> QED
    BY <2>1, <2>2
<1>5. r # <<>>
  BY <1>1
<1>6. Linked(s, r)
  BY <1>2, <1>3 DEF Linked
<1> QED
  BY <1>4, <1>5, <1>6 DEF Longer, Reaches

\* The input is linked and starts with the first character of the first line.
LEMMA InputLinked ==
  ASSUME NEW s \in Sessions
  PROVE  Linked(s, Input(s)) /\ (Input(s) # <<>> => Input(s)[1] = Pos(s, 1, 0))
<1> DEFINE f == UpTo(s)
           P(n) == Reaches(s, n, f[n])
           T == {n \in Nat : n <= Len(s) /\ ~P(n)}
<1>1. Len(s) \in Nat /\ DOMAIN s = 1..Len(s)
  BY LinesAssumption
<1>2. /\ f[0] = <<>>
      /\ \A n \in 0..(Len(s) - 1) :
           f[n + 1] = f[n] \o [j \in 1..s[n + 1].len |-> <<n + 1, j>>] \o << <<n + 1, 0>> >>
  <2> HIDE DEF f
  <2>1. f = [n \in 0..Len(s) |->
             IF n = 0 THEN <<>>
             ELSE f[n - 1] \o [j \in 1..s[n].len |-> <<n, j>>] \o << <<n, 0>> >>]
    BY UpToDef DEF f
  <2>2. f[0] = <<>>
    BY <2>1, <1>1
  <2>3. ASSUME NEW n \in 0..(Len(s) - 1)
        PROVE  f[n + 1] = f[n] \o [j \in 1..s[n + 1].len |-> <<n + 1, j>>] \o << <<n + 1, 0>> >>
    <3>1. n + 1 \in 0..Len(s) /\ n + 1 # 0 /\ (n + 1) - 1 = n
      BY <1>1
    <3> QED
      BY <2>1, <3>1
  <2> QED
    BY <2>2, <2>3
<1>3. P(0)
  BY <1>2 DEF Linked, Reaches
<1>4. ASSUME NEW n \in 0..(Len(s) - 1), P(n) PROVE P(n + 1)
  <2> HIDE DEF f
  <2>1. n \in Nat /\ n + 1 \in DOMAIN s
    BY <1>1
  <2>2. f[n] \in Seq(CharSet) /\ Len(f[n]) \in Nat /\ <<n + 1, 0>> \in CharSet
    BY <1>4, <2>1 DEF Reaches, Linked, CharSet
  <2>3. PICK m \in Nat : m = s[n + 1].len
    BY <2>1, LinesAssumption
  <2>4. PICK A : A = [j \in 1..m |-> <<n + 1, j>>]
    OBVIOUS
  <2>5. A \in Seq(CharSet) /\ Len(A) = m /\ \A j \in 1..m : A[j] = <<n + 1, j>>
    <3>1. A \in [1..m -> CharSet]
      BY <2>1, <2>4 DEF CharSet
    <3> QED
      BY <2>4, <3>1
  <2>6. f[n + 1] = f[n] \o A \o << <<n + 1, 0>> >>
    BY <1>2, <2>3, <2>4
  <2>7. /\ f[n + 1] \in Seq(CharSet) /\ Len(f[n + 1]) = Len(f[n]) + m + 1
        /\ \A k \in 1..Len(f[n]) : f[n + 1][k] = f[n][k]
        /\ \A k \in (Len(f[n]) + 1)..(Len(f[n]) + m) : f[n + 1][k] = A[k - Len(f[n])]
        /\ f[n + 1][Len(f[n + 1])] = <<n + 1, 0>>
    <3>1. f[n] \in Seq(CharSet) /\ A \in Seq(CharSet) /\ <<n + 1, 0>> \in CharSet
      BY <2>2, <2>5
    <3>2. /\ f[n + 1] \in Seq(CharSet) /\ Len(f[n + 1]) = Len(f[n]) + Len(A) + 1
          /\ \A k \in 1..Len(f[n]) : f[n + 1][k] = f[n][k]
          /\ \A k \in (Len(f[n]) + 1)..(Len(f[n]) + Len(A)) : f[n + 1][k] = A[k - Len(f[n])]
          /\ f[n + 1][Len(f[n + 1])] = <<n + 1, 0>>
      <4>1. Joined(f[n], A, <<n + 1, 0>>, f[n + 1])
        BY <3>1, <2>6, ThreeParts
      <4> QED
        BY <4>1 DEF Joined
    <3> QED
      BY <3>2, <2>5
  <2>8. ASSUME NEW k \in (Len(f[n]) + 1)..(Len(f[n]) + m)
        PROVE  f[n + 1][k] = <<n + 1, k - Len(f[n])>>
    <3>1. k - Len(f[n]) \in 1..m
      BY <2>2
    <3> QED
      BY <3>1, <2>7, <2>5
  <2> QED
    <3>1. Longer(f[n], n + 1, m, f[n + 1])
      BY <2>7, <2>8 DEF Longer
    <3> QED
      BY <1>4, <2>1, <2>3, <2>7, <3>1, LineLinked
<1>5. T = {}
  <2> HIDE DEF P, f
  <2>1. SUFFICES ASSUME T # {} PROVE FALSE
    OBVIOUS
  <2>2. PICK x \in T : \A y \in T : x <= y
    BY <2>1, Least
  <2>3. x \in Nat /\ x <= Len(s) /\ ~P(x) /\ x # 0
    BY <1>3
  <2>4. x - 1 \in 0..(Len(s) - 1) /\ x - 1 \notin T /\ (x - 1) + 1 = x
    BY <2>2, <2>3, <1>1
  <2>5. P(x - 1)
    BY <2>4, <1>1
  <2> QED
    BY <2>3, <2>4, <2>5, <1>4
<1>6. P(Len(s))
  <2> HIDE DEF P, f
  <2> QED
    BY <1>1, <1>5
<1>7. Input(s) = f[Len(s)]
  BY DEF Input, UpTo
<1> QED
  BY <1>6, <1>7 DEF Reaches

-----------------------------------------------------------------------------
\* The inductive invariant, part by part.

\* The variables have their types: TypeOK without the sizes of what has been read.
Typed ==
  /\ run_flag \in {0, 1} /\ period \in 0..(UINT - 1)
  /\ log_flag \in BOOLEAN /\ report_flag \in BOOLEAN
  /\ lines \in Sessions
  /\ pc \in [Threads -> MainPlaces \cup SensorPlaces]
  /\ pc[MainT] \in MainPlaces /\ pc[Sensor] \in SensorPlaces
  /\ code \in [Threads -> {0, 1}] /\ temp_sensor \in {"none", "open", "closed"}
  /\ unit \in {"F", "C"} /\ handler \in Threads \cup {NoThread}
  /\ status \in {Running, 0, 1} /\ late \in Nat /\ stale \in Nat
  /\ log \in Seq(Int) /\ executed \in Seq(Int)

\* Before the thread and the exit handler exist nothing has happened.
Places ==
  /\ pc[MainT] \in {"opts", "setup"} =>
       /\ pc[Sensor] = "none" /\ handler = NoThread /\ log = <<>> /\ executed = <<>>
       /\ temp_sensor = "none"
  /\ pc[MainT] = "opts" => ~log_flag

\* A report is under way once the sensor thread has looked at the flag, and in the
\* scale it converted to: one that was made after the change is the last of its kind.
Reporting ==
  /\ report_flag => late = 0
  /\ late <= 1 /\ (late = 1 => pc[Sensor] # "print")
  /\ stale <= 1 /\ (stale = 1 /\ pc[Sensor] \in {"flag", "print"} => unit = UnitOf(scale))

\* A value is refused where it was set, and the other one is still accepted there.
Refusing ==
  /\ RefusedArgsEnd
  /\ pc[MainT] = "scaled" => period >= 1
  /\ pc[MainT] = "timed" => scale \in {"F", "C"}

Messages == {j \in DOMAIN log : log[j] = SHUTDOWN}

\* The one thread that runs shutdown() writes its message between closing the
\* devices and _exit(); without it a thread gets there only if the sensor is untouched.
Leaving ==
  /\ \A j, k \in Messages : j = k
  /\ handler = NoThread => Messages = {}
  /\ \A t \in Threads : /\ pc[t] = "closed" => handler = t /\ Messages = {}
                        /\ pc[t] = "_exit" => handler # NoThread \/ temp_sensor = "none"
  /\ handler # NoThread => /\ pc[handler] \in {"closed", "_exit"}
                           /\ log_flag /\ pc[handler] = "_exit" => Messages # {}
  /\ status # Running => \E t \in Threads : pc[t] = "_exit"

\* The line being assembled, executed or checked.
Current == Len(executed) + (IF pc[MainT] \in {"scaled", "timed"} THEN 0 ELSE 1)
Unread  == read_buf \o input
AtLine  == pc[MainT] \in {"exec", "cmd", "scaled", "timed"}
InLoop  == pc[MainT] \in {"opts", "setup", "read", "char"}

InputLength(s) == Len(Input(s))

\* What is left to read continues the line whose first cmd_str_idx characters are in
\* cmd_str; while it is executed its newline is still in read_buf.
Text ==
  /\ input \in Seq(CharSet) /\ read_buf \in Seq(CharSet)
  /\ Linked(lines, Unread)
  /\ Len(input) <= InputLength(lines) /\ Len(read_buf) <= BUF_SIZE
  /\ cmd_str \in [0..(CMD_SIZE - 1) -> CharSet] /\ cmd_str_idx \in 0..(CMD_SIZE - 1)
Begun ==
  /\ cmd_str_idx # 0 => Current \in DOMAIN lines /\ cmd_str_idx <= lines[Current].len
  /\ Unread # <<>> => Unread[1] = Pos(lines, Current, cmd_str_idx)
  /\ \A j \in 0..(cmd_str_idx - 1) : cmd_str[j] = <<Current, j + 1>>
Complete ==
  /\ read_buf # <<>> /\ Current \in DOMAIN lines
  /\ cmd_str_idx = lines[Current].len /\ cmd_str[cmd_str_idx] = <<Current, 0>>
Stream ==
  /\ Text
  /\ pc[MainT] \in {"opts", "setup", "read"} => read_buf = <<>>
  /\ InLoop \/ AtLine => Begun
  /\ AtLine => Complete

IInv == Typed /\ Places /\ Reporting /\ Refusing /\ Leaving /\ Stream /\ CommandsWhole

\* The line in cmd_str is one of those typed, or none of them.
LEMMA LineIs ==
  ASSUME Typed
  PROVE  /\ Line # Unrecognized => Line \in DOMAIN lines
         /\ Line \in Nat
<1>1. lines \in Sessions /\ DOMAIN lines = 1..Len(lines) /\ Len(lines) \in Nat
  BY LinesAssumption DEF Typed
<1>2. CASE \E l \in DOMAIN lines : Holds(l)
  BY <1>1, <1>2 DEF Line
<1>3. CASE ~\E l \in DOMAIN lines : Holds(l)
  BY <1>3 DEF Line, Unrecognized
<1> QED
  BY <1>1, <1>2, <1>3 DEF Unrecognized

\* Conversion to unsigned gives a value of the type.
LEMMA UnsignedIs ==
  ASSUME NEW n \in Int
  PROVE  Unsigned(n) \in 0..(UINT - 1)
BY LinesAssumption DEF Unsigned

\* Every step keeps the types.
LEMMA TypedStep ==
  ASSUME Typed, [Next]_vars
  PROVE  Typed'
<1> USE DEF At, Goes, Moves, Exit, ExitEarly, options, reading, history
<1>1. CASE GetOpts
  BY <1>1, UnsignedIs, LinesAssumption DEF Typed, MainT, Sensor, Threads, MainPlaces, SensorPlaces, GetOpts
<1>2. CASE Setup
  BY <1>2 DEF Typed, MainT, Sensor, Threads, MainPlaces, SensorPlaces, Running, Setup
<1>3. CASE Read
  BY <1>3 DEF Typed, MainT, Sensor, Threads, MainPlaces, SensorPlaces, Running, Read
<1>4. CASE Char
  BY <1>4 DEF Typed, MainT, Sensor, Threads, MainPlaces, SensorPlaces, Running, Char
<1>5. CASE LogCmd
  BY <1>5, LineIs DEF Typed, MainT, Sensor, Threads, MainPlaces, SensorPlaces, LogCmd
<1>6. CASE exec_cmd
  <2>1. Is("PERIOD") => Unsigned(lines[Line].arg) \in 0..(UINT - 1)
    BY LineIs, UnsignedIs, LinesAssumption DEF Is, Typed
  <2>2. executed' \in Seq(Int)
    BY <1>6, LineIs DEF exec_cmd, Typed
  <2> QED
    <3>1. /\ \E x \in MainPlaces : pc' = [pc EXCEPT ![MainT] = x]
          /\ code' = code \/ code' = [code EXCEPT ![MainT] = 0]
      BY <1>6 DEF exec_cmd, NextChar, MainPlaces
    <3>2. period' \in 0..(UINT - 1)
      BY <1>6, <2>1 DEF exec_cmd, Typed
    <3>3. report_flag' \in BOOLEAN
      BY <1>6 DEF exec_cmd, Typed
    <3>4. late' \in Nat /\ stale' \in Nat
      BY <1>6 DEF exec_cmd, Typed
    <3> QED
      BY <1>6, <2>2, <3>1, <3>2, <3>3, <3>4 DEF Typed, MainT, Sensor, Threads, exec_cmd
<1>7. CASE CheckArg
  BY <1>7 DEF Typed, MainT, Sensor, Threads, MainPlaces, SensorPlaces, CheckArg, NextChar
<1>8. CASE SensorLoop
  BY <1>8 DEF Typed, MainT, Sensor, Threads, MainPlaces, SensorPlaces, Running, SensorLoop
<1>9. CASE ReadSensor
  BY <1>9 DEF Typed, MainT, Sensor, Threads, MainPlaces, SensorPlaces, Running, ReadSensor
<1>10. CASE Convert
  BY <1>10 DEF Typed, MainT, Sensor, Threads, MainPlaces, SensorPlaces, Convert, UnitOf
<1>11. CASE TestReportFlag
  BY <1>11 DEF Typed, MainT, Sensor, Threads, MainPlaces, SensorPlaces, Running, TestReportFlag
<1>12. CASE PrintReport
  BY <1>12 DEF Typed, MainT, Sensor, Threads, MainPlaces, SensorPlaces, Running, PrintReport
<1>13. CASE Sleep
  BY <1>13 DEF Typed, MainT, Sensor, Threads, MainPlaces, SensorPlaces, Running, Sleep
<1>14. CASE do_when_interrupted
  BY <1>14 DEF Typed, MainT, Sensor, Threads, MainPlaces, SensorPlaces, Running, do_when_interrupted
<1>15. CASE OptsFail
  <2>1. period' \in 0..(UINT - 1)
    BY <1>15, UnsignedIs, LinesAssumption DEF OptsFail
  <2> QED
    BY <1>15, <2>1
    DEF Typed, MainT, Sensor, Threads, MainPlaces, SensorPlaces, Running, OptsFail
<1>16. CASE ReadError
  BY <1>16 DEF Typed, MainT, Sensor, Threads, MainPlaces, SensorPlaces, Running, ReadError
<1>17. CASE SensorError
  BY <1>17 DEF Typed, MainT, Sensor, Threads, MainPlaces, SensorPlaces, Running, SensorError
<1>18. ASSUME NEW t \in Threads, ShutdownCloses(t) PROVE Typed'
  BY <1>18 DEF Typed, MainT, Sensor, Threads, MainPlaces, SensorPlaces, Running, ShutdownCloses
<1>19. ASSUME NEW t \in Threads, ShutdownWrites(t) PROVE Typed'
  BY <1>19 DEF Typed, MainT, Sensor, Threads, MainPlaces, SensorPlaces, ShutdownWrites, SHUTDOWN
<1>20. ASSUME NEW t \in Threads, EndProcess(t) PROVE Typed'
  BY <1>20 DEF Typed, MainT, Sensor, Threads, MainPlaces, SensorPlaces, Running, EndProcess
<1>21. ASSUME NEW t \in Threads, ExitAgain(t) PROVE Typed'
  BY <1>21 DEF Typed, MainT, Sensor, Threads, MainPlaces, SensorPlaces, Running, ExitAgain
<1>22. CASE UNCHANGED vars
  BY <1>22 DEF Typed, MainT, Sensor, Threads, MainPlaces, SensorPlaces, Running, vars
<1>23. MainT \in Threads /\ Sensor \in Threads
  BY DEF Threads
<1> QED
  BY <1>1, <1>2, <1>3, <1>4, <1>5, <1>6, <1>7, <1>8, <1>9, <1>10, <1>11,
     <1>12, <1>13, <1>14, <1>15, <1>16, <1>17, <1>18, <1>19, <1>20, <1>21, <1>22, <1>23
  DEF Next, Main, SensorThread, Faults, Idle, Exits

\* Nothing happens before the thread and the exit handler exist.
LEMMA PlacesStep ==
  ASSUME Typed, Places, [Next]_vars
  PROVE  Places'
<1> USE DEF At, Goes, Moves, Exit, ExitEarly, options, reading, history
<1>1. CASE GetOpts
  BY <1>1 DEF Typed, Places, MainT, Sensor, Threads, MainPlaces, SensorPlaces, NoThread, GetOpts
<1>2. CASE Setup
  BY <1>2 DEF Typed, Places, MainT, Sensor, Threads, MainPlaces, SensorPlaces, NoThread, Setup
<1>3. CASE Read
  BY <1>3 DEF Typed, Places, MainT, Sensor, Threads, MainPlaces, SensorPlaces, NoThread, Read
<1>4. CASE Char
  BY <1>4 DEF Typed, Places, MainT, Sensor, Threads, MainPlaces, SensorPlaces, NoThread, Char
<1>5. CASE LogCmd
  BY <1>5 DEF Typed, Places, MainT, Sensor, Threads, MainPlaces, SensorPlaces, NoThread, LogCmd
<1>6. CASE exec_cmd
  BY <1>6 DEF Typed, Places, MainT, Sensor, Threads, exec_cmd, NextChar
<1>7. CASE CheckArg
  BY <1>7 DEF Typed, Places, MainT, Sensor, Threads, CheckArg, NextChar
<1>8. CASE SensorLoop
  BY <1>8 DEF Typed, Places, MainT, Sensor, Threads, MainPlaces, SensorPlaces, NoThread, SensorLoop
<1>9. CASE ReadSensor
  BY <1>9 DEF Typed, Places, MainT, Sensor, Threads, MainPlaces, SensorPlaces, NoThread, ReadSensor
<1>10. CASE Convert
  BY <1>10 DEF Typed, Places, MainT, Sensor, Threads, MainPlaces, SensorPlaces, NoThread, Convert
<1>11. CASE TestReportFlag
  BY <1>11 DEF Typed, Places, MainT, Sensor, Threads, MainPlaces, SensorPlaces, NoThread, TestReportFlag
<1>12. CASE PrintReport
  BY <1>12 DEF Typed, Places, MainT, Sensor, Threads, MainPlaces, SensorPlaces, NoThread, PrintReport
<1>13. CASE Sleep
  BY <1>13 DEF Typed, Places, MainT, Sensor, Threads, MainPlaces, SensorPlaces, NoThread, Sleep
<1>14. CASE do_when_interrupted
  BY <1>14 DEF Typed, Places, MainT, Sensor, Threads, MainPlaces, SensorPlaces, NoThread, do_when_interrupted
<1>15. CASE OptsFail
  BY <1>15 DEF Typed, Places, MainT, Sensor, Threads, MainPlaces, SensorPlaces, NoThread, OptsFail
<1>16. CASE ReadError
  BY <1>16 DEF Typed, Places, MainT, Sensor, Threads, MainPlaces, SensorPlaces, NoThread, ReadError
<1>17. CASE SensorError
  BY <1>17 DEF Typed, Places, MainT, Sensor, Threads, MainPlaces, SensorPlaces, NoThread, SensorError
<1>18. ASSUME NEW t \in Threads, ShutdownCloses(t) PROVE Places'
  BY <1>18 DEF Typed, Places, MainT, Sensor, Threads, MainPlaces, SensorPlaces, NoThread, ShutdownCloses
<1>19. ASSUME NEW t \in Threads, ShutdownWrites(t) PROVE Places'
  BY <1>19 DEF Typed, Places, MainT, Sensor, Threads, MainPlaces, SensorPlaces, NoThread, ShutdownWrites
<1>20. ASSUME NEW t \in Threads, EndProcess(t) PROVE Places'
  BY <1>20 DEF Typed, Places, MainT, Sensor, Threads, MainPlaces, SensorPlaces, NoThread, EndProcess
<1>21. ASSUME NEW t \in Threads, ExitAgain(t) PROVE Places'
  BY <1>21 DEF Typed, Places, MainT, Sensor, Threads, MainPlaces, SensorPlaces, NoThread, ExitAgain
<1>22. CASE UNCHANGED vars
  BY <1>22 DEF Typed, Places, MainT, Sensor, Threads, MainPlaces, SensorPlaces, NoThread, vars
<1>23. MainT \in Threads /\ Sensor \in Threads
  BY DEF Threads
<1> QED
  BY <1>1, <1>2, <1>3, <1>4, <1>5, <1>6, <1>7, <1>8, <1>9, <1>10, <1>11,
     <1>12, <1>13, <1>14, <1>15, <1>16, <1>17, <1>18, <1>19, <1>20, <1>21, <1>22, <1>23
  DEF Next, Main, SensorThread, Faults, Idle, Exits

\* The reports made after STOP and after SCALE= stay counted right.
LEMMA ReportingStep ==
  ASSUME Typed, Places, Reporting, [Next]_vars
  PROVE  Reporting'
<1> USE DEF At, Goes, Moves, Exit, ExitEarly, options, reading, history
<1>1. CASE GetOpts
  BY <1>1 DEF Typed, Places, Reporting, MainT, Sensor, Threads, GetOpts
<1>2. CASE Setup
  BY <1>2 DEF Typed, Places, Reporting, MainT, Sensor, Threads, Setup
<1>3. CASE Read
  BY <1>3 DEF Typed, Reporting, MainT, Sensor, Threads, MainPlaces, SensorPlaces, Read
<1>4. CASE Char
  BY <1>4 DEF Typed, Reporting, MainT, Sensor, Threads, MainPlaces, SensorPlaces, Char
<1>5. CASE LogCmd
  BY <1>5 DEF Typed, Reporting, MainT, Sensor, Threads, MainPlaces, SensorPlaces, LogCmd
<1>6. CASE exec_cmd
  BY <1>6 DEF Typed, Reporting, MainT, Sensor, Threads, exec_cmd, NextChar
<1>7. CASE CheckArg
  BY <1>7 DEF Typed, Reporting, MainT, Sensor, Threads, CheckArg, NextChar
<1>8. CASE SensorLoop
  BY <1>8 DEF Typed, Reporting, MainT, Sensor, Threads, MainPlaces, SensorPlaces, SensorLoop
<1>9. CASE ReadSensor
  BY <1>9 DEF Typed, Reporting, MainT, Sensor, Threads, MainPlaces, SensorPlaces, ReadSensor
<1>10. CASE Convert
  BY <1>10 DEF Typed, Reporting, MainT, Sensor, Threads, MainPlaces, SensorPlaces, Convert
<1>11. CASE TestReportFlag
  BY <1>11 DEF Typed, Reporting, MainT, Sensor, Threads, MainPlaces, SensorPlaces, TestReportFlag
<1>12. CASE PrintReport
  BY <1>12 DEF Typed, Reporting, MainT, Sensor, Threads, MainPlaces, SensorPlaces, PrintReport
<1>13. CASE Sleep
  BY <1>13 DEF Typed, Reporting, MainT, Sensor, Threads, MainPlaces, SensorPlaces, Sleep
<1>14. CASE do_when_interrupted
  BY <1>14 DEF Typed, Reporting, MainT, Sensor, Threads, MainPlaces, SensorPlaces, do_when_interrupted
<1>15. CASE OptsFail
  BY <1>15 DEF Typed, Places, Reporting, MainT, Sensor, Threads, MainPlaces, SensorPlaces, OptsFail
<1>16. CASE ReadError
  BY <1>16 DEF Typed, Reporting, MainT, Sensor, Threads, MainPlaces, SensorPlaces, ReadError
<1>17. CASE SensorError
  BY <1>17 DEF Typed, Reporting, MainT, Sensor, Threads, MainPlaces, SensorPlaces, SensorError
<1>18. ASSUME NEW t \in Threads, ShutdownCloses(t) PROVE Reporting'
  BY <1>18 DEF Typed, Reporting, MainT, Sensor, Threads, MainPlaces, SensorPlaces, ShutdownCloses
<1>19. ASSUME NEW t \in Threads, ShutdownWrites(t) PROVE Reporting'
  BY <1>19 DEF Typed, Reporting, MainT, Sensor, Threads, MainPlaces, SensorPlaces, ShutdownWrites
<1>20. ASSUME NEW t \in Threads, EndProcess(t) PROVE Reporting'
  BY <1>20 DEF Typed, Reporting, MainT, Sensor, Threads, MainPlaces, SensorPlaces, EndProcess
<1>21. ASSUME NEW t \in Threads, ExitAgain(t) PROVE Reporting'
  BY <1>21 DEF Typed, Reporting, MainT, Sensor, Threads, MainPlaces, SensorPlaces, ExitAgain
<1>22. CASE UNCHANGED vars
  BY <1>22 DEF Typed, Reporting, MainT, Sensor, Threads, MainPlaces, SensorPlaces, vars
<1>23. MainT \in Threads /\ Sensor \in Threads
  BY DEF Threads
<1> QED
  BY <1>1, <1>2, <1>3, <1>4, <1>5, <1>6, <1>7, <1>8, <1>9, <1>10, <1>11,
     <1>12, <1>13, <1>14, <1>15, <1>16, <1>17, <1>18, <1>19, <1>20, <1>21, <1>22, <1>23
  DEF Next, Main, SensorThread, Faults, Idle, Exits

\* A refused value leads out of the loop.
LEMMA RefusingStep ==
  ASSUME Typed, Places, Refusing, [Next]_vars
  PROVE  Refusing'
<1> USE DEF At, Goes, Moves, Exit, ExitEarly, options, reading, history
<1>1. CASE GetOpts
  <2>1. period' \in Int /\ period' >= 1 /\ scale' \in {"F", "C"} /\ pc' = [pc EXCEPT ![MainT] = "setup"]
    BY <1>1, TypedStep DEF GetOpts, Typed
  <2> QED
    BY <2>1 DEF Typed, Refusing, RefusedArgsEnd, Threads
<1>2. CASE Setup
  BY <1>2 DEF Typed, Refusing, RefusedArgsEnd, Exiting, MainT, Sensor, Threads, MainPlaces, SensorPlaces, Setup
<1>3. CASE Read
  BY <1>3 DEF Typed, Refusing, RefusedArgsEnd, Exiting, MainT, Sensor, Threads, MainPlaces, SensorPlaces, Read
<1>4. CASE Char
  BY <1>4 DEF Typed, Refusing, RefusedArgsEnd, Exiting, MainT, Sensor, Threads, MainPlaces, SensorPlaces, Char
<1>5. CASE LogCmd
  BY <1>5 DEF Typed, Refusing, RefusedArgsEnd, Exiting, MainT, Sensor, Threads, MainPlaces, SensorPlaces, LogCmd
<1>6. CASE exec_cmd
  <2>1. pc[MainT] = "cmd" /\ period >= 1 /\ scale \in {"F", "C"}
    BY <1>6 DEF exec_cmd, Typed, Refusing, RefusedArgsEnd, Exiting
  <2>2. \/ period' = period /\ scale' = scale
        \/ period' = period /\ pc' = [pc EXCEPT ![MainT] = "scaled"]
        \/ scale' = scale /\ pc' = [pc EXCEPT ![MainT] = "timed"]
    BY <1>6 DEF exec_cmd
  <2>3. \E x \in {"exit", "char", "scaled", "timed"} : pc' = [pc EXCEPT ![MainT] = x]
    BY <1>6 DEF exec_cmd, NextChar
  <2>4. pc'[MainT] = "scaled" => period' = period
    BY <1>6 DEF exec_cmd, NextChar, Typed, Threads
  <2>5. pc'[MainT] = "timed" => scale' = scale
    BY <1>6 DEF exec_cmd, NextChar, Typed, Threads
  <2> QED
    BY <2>1, <2>2, <2>3, <2>4, <2>5 DEF Typed, Refusing, RefusedArgsEnd, Threads
<1>7. CASE CheckArg
  BY <1>7 DEF Typed, Refusing, RefusedArgsEnd, Exiting, MainT, Sensor, Threads, MainPlaces, CheckArg, NextChar
<1>8. CASE SensorLoop
  BY <1>8 DEF Typed, Refusing, RefusedArgsEnd, Exiting, MainT, Sensor, Threads, MainPlaces, SensorPlaces, SensorLoop
<1>9. CASE ReadSensor
  BY <1>9 DEF Typed, Refusing, RefusedArgsEnd, Exiting, MainT, Sensor, Threads, MainPlaces, SensorPlaces, ReadSensor
<1>10. CASE Convert
  BY <1>10 DEF Typed, Refusing, RefusedArgsEnd, Exiting, MainT, Sensor, Threads, MainPlaces, SensorPlaces, Convert
<1>11. CASE TestReportFlag
  BY <1>11 DEF Typed, Refusing, RefusedArgsEnd, Exiting, MainT, Sensor, Threads, MainPlaces, SensorPlaces, TestReportFlag
<1>12. CASE PrintReport
  BY <1>12 DEF Typed, Refusing, RefusedArgsEnd, Exiting, MainT, Sensor, Threads, MainPlaces, SensorPlaces, PrintReport
<1>13. CASE Sleep
  BY <1>13 DEF Typed, Refusing, RefusedArgsEnd, Exiting, MainT, Sensor, Threads, MainPlaces, SensorPlaces, Sleep
<1>14. CASE do_when_interrupted
  BY <1>14 DEF Typed, Refusing, RefusedArgsEnd, Exiting, MainT, Sensor, Threads, MainPlaces, SensorPlaces, do_when_interrupted
<1>15. CASE OptsFail
  BY <1>15 DEF Typed, Refusing, RefusedArgsEnd, Exiting, MainT, Sensor, Threads, MainPlaces, SensorPlaces, OptsFail
<1>16. CASE ReadError
  BY <1>16 DEF Typed, Refusing, RefusedArgsEnd, Exiting, MainT, Sensor, Threads, MainPlaces, SensorPlaces, ReadError
<1>17. CASE SensorError
  BY <1>17 DEF Typed, Refusing, RefusedArgsEnd, Exiting, MainT, Sensor, Threads, MainPlaces, SensorPlaces, SensorError
<1>18. ASSUME NEW t \in Threads, ShutdownCloses(t) PROVE Refusing'
  BY <1>18 DEF Typed, Refusing, RefusedArgsEnd, Exiting, MainT, Sensor, Threads, MainPlaces, SensorPlaces, ShutdownCloses
<1>19. ASSUME NEW t \in Threads, ShutdownWrites(t) PROVE Refusing'
  BY <1>19 DEF Typed, Refusing, RefusedArgsEnd, Exiting, MainT, Sensor, Threads, MainPlaces, SensorPlaces, ShutdownWrites
<1>20. ASSUME NEW t \in Threads, EndProcess(t) PROVE Refusing'
  BY <1>20 DEF Typed, Refusing, RefusedArgsEnd, Exiting, MainT, Sensor, Threads, MainPlaces, SensorPlaces, EndProcess
<1>21. ASSUME NEW t \in Threads, ExitAgain(t) PROVE Refusing'
  BY <1>21 DEF Typed, Refusing, RefusedArgsEnd, Exiting, MainT, Sensor, Threads, MainPlaces, SensorPlaces, ExitAgain
<1>22. CASE UNCHANGED vars
  BY <1>22 DEF Typed, Refusing, RefusedArgsEnd, Exiting, MainT, Sensor, Threads, MainPlaces, SensorPlaces, vars
<1>23. MainT \in Threads /\ Sensor \in Threads
  BY DEF Threads
<1> QED
  BY <1>1, <1>2, <1>3, <1>4, <1>5, <1>6, <1>7, <1>8, <1>9, <1>10, <1>11,
     <1>12, <1>13, <1>14, <1>15, <1>16, <1>17, <1>18, <1>19, <1>20, <1>21, <1>22, <1>23
  DEF Next, Main, SensorThread, Faults, Idle, Exits

\* Which entries of the log are messages, after one entry more.
LEMMA MessagesAppend ==
  ASSUME log \in Seq(Int), NEW e \in Int, log' = Append(log, e)
  PROVE  Messages' = IF e = SHUTDOWN THEN Messages \cup {Len(log) + 1} ELSE Messages
<1>1. /\ Len(log) \in Nat /\ DOMAIN log = 1..Len(log) /\ DOMAIN log' = 1..(Len(log) + 1)
      /\ log'[Len(log) + 1] = e /\ \A j \in 1..Len(log) : log'[j] = log[j]
  OBVIOUS
<1>2. DOMAIN log' = DOMAIN log \cup {Len(log) + 1}
  BY <1>1
<1>3. Messages' = {j \in DOMAIN log' : log'[j] = SHUTDOWN}
  BY DEF Messages, SHUTDOWN
<1> QED
  BY <1>1, <1>2, <1>3 DEF Messages

\* The exit handler runs once, and writes its message before _exit().
LEMMA LeavingStep ==
  ASSUME Typed, Places, Leaving, [Next]_vars
  PROVE  Leaving'
<1> USE DEF At, Goes, Moves, Exit, ExitEarly, options, reading, history
<1>0. log' = log => Messages' = Messages
  BY DEF Messages
<1>1. CASE status = Running /\ GetOpts
  <2>1. /\ handler = NoThread /\ handler' = handler /\ Messages' = Messages /\ status' = status
        /\ pc[Sensor] = "none" /\ pc[MainT] = "opts" /\ pc' = [pc EXCEPT ![MainT] = "setup"]
    BY <1>1, <1>0 DEF GetOpts, Places
  <2>2. status = Running
    BY <1>1
  <2> QED
    BY <2>1, <2>2 DEF Typed, Leaving, MainT, Sensor, Threads
<1>2. CASE Setup
  BY <1>2, <1>0 DEF Typed, Places, Leaving, MainT, Sensor, Threads, NoThread, Running, Setup
<1>3. CASE Read
  BY <1>3, <1>0 DEF Typed, Places, Leaving, MainT, Sensor, Threads, NoThread, Running, Read
<1>4. CASE Char
  BY <1>4, <1>0 DEF Typed, Places, Leaving, MainT, Sensor, Threads, NoThread, Running, Char
<1>5. CASE LogCmd
  <2>1. Line \in Int /\ Line # SHUTDOWN
    BY LineIs DEF SHUTDOWN
  <2>2. Messages' = Messages
    BY <1>5, <1>0, <2>1, MessagesAppend DEF LogCmd, Typed
  <2> QED
    BY <1>5, <2>2 DEF LogCmd, Typed, Leaving, MainT, Sensor, Threads, NoThread
<1>6. CASE exec_cmd
  <2>1. \E x \in {"exit", "char", "scaled", "timed"} : pc' = [pc EXCEPT ![MainT] = x]
    BY <1>6 DEF exec_cmd, NextChar
  <2>2. pc[MainT] = "cmd" /\ UNCHANGED <<log_flag, handler, log, status, temp_sensor>>
    BY <1>6 DEF exec_cmd
  <2> QED
    BY <2>1, <2>2, <1>0 DEF Typed, Leaving, MainT, Sensor, Threads, NoThread
<1>7. CASE CheckArg
  <2>1. \E x \in {"exit", "char"} : pc' = [pc EXCEPT ![MainT] = x]
    BY <1>7 DEF CheckArg, NextChar
  <2>2. pc[MainT] \in {"scaled", "timed"} /\ UNCHANGED <<log_flag, handler, log, status, temp_sensor>>
    BY <1>7 DEF CheckArg
  <2> QED
    BY <2>1, <2>2, <1>0 DEF Typed, Leaving, MainT, Sensor, Threads, NoThread
<1>8. CASE SensorLoop
  BY <1>8, <1>0 DEF Typed, Places, Leaving, MainT, Sensor, Threads, NoThread, Running, SensorLoop
<1>9. CASE ReadSensor
  BY <1>9, <1>0 DEF Typed, Places, Leaving, MainT, Sensor, Threads, NoThread, Running, ReadSensor
<1>10. CASE Convert
  BY <1>10, <1>0 DEF Typed, Places, Leaving, MainT, Sensor, Threads, NoThread, Running, Convert
<1>11. CASE TestReportFlag
  BY <1>11, <1>0 DEF Typed, Places, Leaving, MainT, Sensor, Threads, NoThread, Running, TestReportFlag
<1>12. CASE PrintReport
  BY <1>12, <1>0 DEF Typed, Places, Leaving, MainT, Sensor, Threads, NoThread, Running, PrintReport
<1>13. CASE Sleep
  BY <1>13, <1>0 DEF Typed, Places, Leaving, MainT, Sensor, Threads, NoThread, Running, Sleep
<1>14. CASE do_when_interrupted
  BY <1>14, <1>0 DEF Typed, Places, Leaving, MainT, Sensor, Threads, NoThread, Running, do_when_interrupted
<1>15. CASE OptsFail
  BY <1>15, <1>0 DEF Typed, Places, Leaving, MainT, Sensor, Threads, NoThread, Running, OptsFail
<1>16. CASE ReadError
  BY <1>16, <1>0 DEF Typed, Places, Leaving, MainT, Sensor, Threads, NoThread, Running, ReadError
<1>17. CASE SensorError
  BY <1>17, <1>0 DEF Typed, Places, Leaving, MainT, Sensor, Threads, NoThread, Running, SensorError
<1>18. ASSUME NEW t \in Threads, ShutdownCloses(t) PROVE Leaving'
  BY <1>18, <1>0 DEF Typed, Places, Leaving, MainT, Sensor, Threads, NoThread, Running, ShutdownCloses
<1>19. ASSUME NEW t \in Threads, ShutdownWrites(t) PROVE Leaving'
  <2>1. Messages' = IF log_flag THEN {Len(log) + 1} ELSE {}
    <3>1. log \in Seq(Int) /\ SHUTDOWN \in Int /\ Messages = {}
      BY <1>19 DEF ShutdownWrites, Typed, Leaving, SHUTDOWN
    <3>2. log' = IF log_flag THEN Append(log, SHUTDOWN) ELSE log
      BY <1>19 DEF ShutdownWrites
    <3>3. CASE log_flag
      <4>1. Messages' = Messages \cup {Len(log) + 1}
        BY <3>1, <3>2, <3>3, MessagesAppend
      <4> QED
        BY <3>1, <3>3, <4>1
    <3>4. CASE ~log_flag
      BY <3>1, <3>2, <3>4 DEF Messages
    <3> QED
      BY <3>3, <3>4
  <2>2. handler = t /\ handler' = t /\ pc' = [pc EXCEPT ![t] = "_exit"] /\ status' = status /\ log_flag' = log_flag
    BY <1>19 DEF ShutdownWrites, Leaving
  <2> QED
    BY <2>1, <2>2 DEF Typed, Leaving, MainT, Sensor, Threads, NoThread
<1>20. ASSUME NEW t \in Threads, EndProcess(t) PROVE Leaving'
  BY <1>20, <1>0 DEF Typed, Places, Leaving, MainT, Sensor, Threads, NoThread, Running, EndProcess
<1>21. ASSUME NEW t \in Threads, ExitAgain(t) PROVE Leaving'
  BY <1>21, <1>0 DEF Typed, Places, Leaving, MainT, Sensor, Threads, NoThread, Running, ExitAgain
<1>22. CASE UNCHANGED vars
  BY <1>22, <1>0 DEF Typed, Places, Leaving, MainT, Sensor, Threads, NoThread, Running, vars
<1>23. MainT \in Threads /\ Sensor \in Threads
  BY DEF Threads
<1> QED
  BY <1>1, <1>2, <1>3, <1>4, <1>5, <1>6, <1>7, <1>8, <1>9, <1>10, <1>11,
     <1>12, <1>13, <1>14, <1>15, <1>16, <1>17, <1>18, <1>19, <1>20, <1>21, <1>22, <1>23
  DEF Next, Main, SensorThread, Faults, Idle, Exits

\* What is left of a linked text without its first character.
LEMMA TailLinked ==
  ASSUME NEW s, NEW q, Linked(s, q), q # <<>>
  PROVE  /\ Linked(s, Tail(q))
         /\ Tail(q) # <<>> => Tail(q)[1] = Succ(s, q[1])
<1>1. q \in Seq(CharSet) /\ Len(q) \in Nat /\ Len(q) > 0
  BY DEF Linked
<1>2. /\ Tail(q) \in Seq(CharSet) /\ Len(Tail(q)) = Len(q) - 1
      /\ \A k \in 1..(Len(q) - 1) : Tail(q)[k] = q[k + 1]
  BY <1>1
<1>3. ASSUME NEW k \in 1..Len(Tail(q)) PROVE IsChar(s, Tail(q)[k])
  <2>1. k \in 1..(Len(q) - 1) /\ k + 1 \in 1..Len(q)
    BY <1>1, <1>2
  <2> QED
    BY <2>1, <1>2 DEF Linked
<1>4. ASSUME NEW k \in 1..(Len(Tail(q)) - 1) PROVE Tail(q)[k + 1] = Succ(s, Tail(q)[k])
  <2>1. k \in 1..(Len(q) - 1) /\ k + 1 \in 1..(Len(q) - 1)
    BY <1>1, <1>2
  <2>2. q[(k + 1) + 1] = Succ(s, q[k + 1])
    BY <2>1 DEF Linked
  <2> QED
    BY <2>1, <2>2, <1>2
<1>5. Tail(q) # <<>> => Tail(q)[1] = Succ(s, q[1])
  <2> SUFFICES ASSUME Tail(q) # <<>> PROVE Tail(q)[1] = Succ(s, q[1])
    OBVIOUS
  <2>1. 1 \in 1..(Len(q) - 1)
    BY <1>1, <1>2
  <2>2. q[1 + 1] = Succ(s, q[1])
    BY <2>1 DEF Linked
  <2> QED
    BY <2>1, <2>2, <1>2
<1> QED
  BY <1>2, <1>3, <1>4, <1>5 DEF Linked

\* Taking the first character from read_buf takes it from what is unread.
LEMMA BufTail ==
  ASSUME NEW a \in Seq(CharSet), NEW b \in Seq(CharSet), a # <<>>
  PROVE  /\ Tail(a) \in Seq(CharSet) /\ Len(Tail(a)) = Len(a) - 1
         /\ Tail(a) \o b = Tail(a \o b) /\ a \o b # <<>> /\ (a \o b)[1] = Head(a)
<1>1. Len(a) \in Nat /\ Len(a) > 0 /\ Len(b) \in Nat
  OBVIOUS
<1>2. /\ Tail(a) \in Seq(CharSet) /\ Len(Tail(a)) = Len(a) - 1
      /\ \A k \in 1..(Len(a) - 1) : Tail(a)[k] = a[k + 1]
  BY <1>1
<1>3. /\ a \o b \in Seq(CharSet) /\ Len(a \o b) = Len(a) + Len(b)
      /\ \A k \in 1..Len(a) : (a \o b)[k] = a[k]
      /\ \A k \in (Len(a) + 1)..(Len(a) + Len(b)) : (a \o b)[k] = b[k - Len(a)]
  BY <1>1
<1>4. /\ Tail(a) \o b \in Seq(CharSet) /\ Len(Tail(a) \o b) = (Len(a) - 1) + Len(b)
      /\ \A k \in 1..(Len(a) - 1) : (Tail(a) \o b)[k] = a[k + 1]
      /\ \A k \in Len(a)..(Len(a) - 1 + Len(b)) : (Tail(a) \o b)[k] = b[k - (Len(a) - 1)]
  BY <1>1, <1>2
<1>5. a \o b # <<>> /\ (a \o b)[1] = Head(a)
  BY <1>1, <1>3
<1>6. /\ Tail(a \o b) \in Seq(CharSet) /\ Len(Tail(a \o b)) = (Len(a) + Len(b)) - 1
      /\ \A k \in 1..(Len(a) + Len(b) - 1) : Tail(a \o b)[k] = (a \o b)[k + 1]
  BY <1>1, <1>3, <1>5
<1>7. ASSUME NEW k \in 1..(Len(a) + Len(b) - 1) PROVE (Tail(a) \o b)[k] = Tail(a \o b)[k]
  <2>1. CASE k < Len(a)
    <3>1. k \in 1..(Len(a) - 1) /\ k + 1 \in 1..Len(a)
      BY <1>1, <2>1
    <3> QED
      BY <3>1, <1>3, <1>4, <1>6
  <2>2. CASE k >= Len(a)
    <3>1. /\ k \in Len(a)..(Len(a) - 1 + Len(b)) /\ k + 1 \in (Len(a) + 1)..(Len(a) + Len(b))
          /\ (k + 1) - Len(a) = k - (Len(a) - 1)
      BY <1>1, <2>2
    <3>2. (Tail(a) \o b)[k] = b[k - (Len(a) - 1)]
      BY <3>1, <1>4
    <3>3. (a \o b)[k + 1] = b[(k + 1) - Len(a)]
      BY <3>1, <1>3
    <3> QED
      BY <3>1, <3>2, <3>3, <1>6
  <2> QED
    BY <1>1, <2>1, <2>2
<1>8. Len(Tail(a) \o b) = Len(Tail(a \o b))
  BY <1>1, <1>4, <1>6
<1>9. Tail(a) \o b = Tail(a \o b)
  BY <1>1, <1>4, <1>6, <1>7, <1>8
<1> QED
  BY <1>2, <1>5, <1>9

\* read() moves characters from input to read_buf.
LEMMA SplitInput ==
  ASSUME NEW q \in Seq(CharSet), NEW n \in Nat, n <= Len(q)
  PROVE  /\ SubSeq(q, 1, n) \in Seq(CharSet) /\ Len(SubSeq(q, 1, n)) = n
         /\ SubSeq(q, n + 1, Len(q)) \in Seq(CharSet) /\ Len(SubSeq(q, n + 1, Len(q))) = Len(q) - n
         /\ SubSeq(q, 1, n) \o SubSeq(q, n + 1, Len(q)) = q
<1>0. Len(q) \in Nat
  OBVIOUS
<1>1. /\ SubSeq(q, 1, n) \in Seq(CharSet) /\ Len(SubSeq(q, 1, n)) = n
      /\ \A k \in 1..n : SubSeq(q, 1, n)[k] = q[k]
  BY <1>0
<1>2. /\ SubSeq(q, n + 1, Len(q)) \in Seq(CharSet) /\ Len(SubSeq(q, n + 1, Len(q))) = Len(q) - n
      /\ \A k \in 1..(Len(q) - n) : SubSeq(q, n + 1, Len(q))[k] = q[k + n]
  BY <1>0
<1>3. SubSeq(q, 1, n) \o SubSeq(q, n + 1, Len(q)) = q
  <2>1. 1 \in 1..(Len(q) + 1) /\ n \in (1 - 1)..Len(q) /\ Len(q) \in n..Len(q)
    BY <1>0
  <2> QED
    BY <2>1, ConcatAdjacentSubSeq, SubSeqFull
<1> QED
  BY <1>1, <1>2, <1>3

\* At the end of a line cmd_str holds it and no other, also when it is empty.
LEMMA LineIsCurrent ==
  ASSUME Typed, Stream, AtLine
  PROVE  Line = Current /\ Current \in DOMAIN lines
<1>1. /\ Current \in DOMAIN lines /\ cmd_str_idx = lines[Current].len
      /\ cmd_str[cmd_str_idx] = <<Current, 0>>
      /\ \A j \in 0..(cmd_str_idx - 1) : cmd_str[j] = <<Current, j + 1>>
  BY DEF Stream, Complete, Begun
<1>2. /\ DOMAIN lines \in SUBSET Nat /\ \A l \in DOMAIN lines : lines[l].len \in Nat
  BY LinesAssumption DEF Typed
<1>3. Holds(Current)
  <2>1. ASSUME NEW j \in 1..lines[Current].len PROVE cmd_str[j - 1] = <<Current, j>>
    <3>1. j - 1 \in 0..(cmd_str_idx - 1) /\ (j - 1) + 1 = j
      BY <1>1, <1>2
    <3> QED
      BY <3>1, <1>1
  <2> QED
    BY <2>1, <1>1 DEF Holds
<1>4. cmd_str[0] = <<Current, 0>> \/ cmd_str[0] = <<Current, 1>>
  <2>1. CASE cmd_str_idx = 0
    BY <1>1, <2>1
  <2>2. CASE cmd_str_idx # 0
    <3>1. 0 \in 0..(cmd_str_idx - 1)
      BY <1>1, <1>2, <2>2
    <3> QED
      BY <3>1, <1>1
  <2> QED
    BY <2>1, <2>2
<1>5. ASSUME NEW l \in DOMAIN lines, Holds(l) PROVE l = Current
  <2>1. cmd_str[0] = <<l, 0>> \/ cmd_str[0] = <<l, 1>>
    <3>1. CASE lines[l].len = 0
      BY <1>5, <3>1 DEF Holds
    <3>2. CASE lines[l].len # 0
      <4>1. 1 \in 1..lines[l].len /\ 1 - 1 = 0
        BY <1>2, <3>2
      <4>2. cmd_str[1 - 1] = <<l, 1>>
        BY <1>5, <4>1 DEF Holds
      <4> QED
        BY <4>1, <4>2
    <3> QED
      BY <3>1, <3>2
  <2> QED
    BY <2>1, <1>4
<1> QED
  BY <1>1, <1>3, <1>5 DEF Line

\* A step that reads nothing and executes nothing, and leaves main() on the same side
\* of the loop or takes it to exit().
Keeps ==
  \/ pc'[MainT] = pc[MainT] \/ pc'[MainT] \in {"exit", "closed", "_exit"}
  \/ pc[MainT] = "opts" /\ pc'[MainT] = "setup"
  \/ pc[MainT] = "setup" /\ pc'[MainT] = "read"
  \/ pc[MainT] = "exec" /\ pc'[MainT] = "cmd"

\* A step that leaves the reader's buffers alone, and main() in the same part of its loop.
LEMMA StreamSame ==
  ASSUME Stream, UNCHANGED <<lines, input, read_buf, cmd_str, cmd_str_idx, executed>>, Keeps
  PROVE  Stream'
<1>1. Text' /\ Unread' = Unread
  BY DEF Text, Stream, Unread
<1>2. (InLoop \/ AtLine)' => /\ (InLoop \/ AtLine) /\ Current' = Current
                             /\ AtLine' => AtLine
                             /\ pc'[MainT] \in {"opts", "setup", "read"} =>
                                  pc[MainT] \in {"opts", "setup", "read"}
  BY DEF Keeps, InLoop, AtLine, Current
<1>3. (InLoop \/ AtLine)' => Begun'
  BY <1>1, <1>2 DEF Stream, Begun
<1>4. AtLine' => Complete'
  BY <1>1, <1>2 DEF Stream, Complete
<1> QED
  BY <1>1, <1>2, <1>3, <1>4 DEF Stream, InLoop

\* After a line the next one begins.
LEMMA NextCharStream ==
  ASSUME Typed, Stream, AtLine, NextChar, lines' = lines, pc'[MainT] = "char",
         Current' = Current + 1
  PROVE  Stream'
<1>1. /\ Linked(lines, Unread) /\ read_buf # <<>> /\ Current \in DOMAIN lines
      /\ Unread # <<>> => Unread[1] = Pos(lines, Current, cmd_str_idx)
      /\ cmd_str_idx = lines[Current].len
      /\ input \in Seq(CharSet) /\ read_buf \in Seq(CharSet)
  BY DEF Stream, Text, Begun, Complete
<1>2. /\ Unread' = Tail(Unread) /\ Unread # <<>>
      /\ Tail(read_buf) \in Seq(CharSet) /\ Len(Tail(read_buf)) = Len(read_buf) - 1
  BY <1>1, BufTail DEF Unread, NextChar
<1>3. lines[Current].len \in Nat /\ DOMAIN lines \in SUBSET Nat
  BY <1>1, LinesAssumption DEF Typed
<1>4. Unread[1] = <<Current, 0>>
  BY <1>1, <1>2, <1>3 DEF Pos
<1>5. Succ(lines, Unread[1]) = Pos(lines, Current + 1, 0)
  BY <1>4 DEF Succ
<1>6. Linked(lines, Unread') /\ (Unread' # <<>> => Unread'[1] = Pos(lines, Current + 1, 0))
  BY <1>1, <1>2, <1>5, TailLinked
<1>7. Text'
  <2>1. Len(read_buf') <= BUF_SIZE
    BY <1>2, <1>1, LinesAssumption DEF Stream, Text, NextChar
  <2>2. cmd_str_idx' \in 0..(CMD_SIZE - 1)
    BY LinesAssumption DEF NextChar
  <2> QED
    BY <1>2, <1>6, <2>1, <2>2 DEF Stream, Text, NextChar
<1>8. Begun'
  <2>1. cmd_str_idx' = 0
    BY DEF NextChar
  <2>2. 0..(0 - 1) = {}
    OBVIOUS
  <2> QED
    BY <1>6, <2>1, <2>2 DEF Begun
<1> QED
  BY <1>7, <1>8 DEF Stream, AtLine

\* read() only moves the boundary between read_buf and what is still to come.
LEMMA ReadStream ==
  ASSUME Typed, Stream, Read
  PROVE  Stream'
<1> USE DEF At, Goes, Moves, Exit, ExitEarly, options, reading, history
<1>1. CASE run_flag = 0
  <2>1. pc'[MainT] = "exit" /\ UNCHANGED <<lines, input, read_buf, cmd_str, cmd_str_idx, executed>>
    BY <1>1 DEF Read, Typed, Threads
  <2> QED
    BY <2>1, StreamSame DEF Keeps
<1>2. CASE run_flag # 0
  <2>1. PICK n \in 1..BUF_SIZE :
          /\ n <= Len(input)
          /\ read_buf' = SubSeq(input, 1, n) /\ input' = SubSeq(input, n + 1, Len(input))
    BY <1>2 DEF Read
  <2>2. /\ UNCHANGED <<lines, cmd_str, cmd_str_idx, executed>>
        /\ pc[MainT] = "read" /\ pc'[MainT] = "char"
    BY <1>2 DEF Read, Typed, Threads
  <2>3. read_buf = <<>> /\ Begun /\ Text /\ input \in Seq(CharSet)
    BY <2>2 DEF Stream, Text, InLoop
  <2>4. n \in Nat /\ BUF_SIZE \in Nat /\ Len(input) \in Nat
    BY <2>3, LinesAssumption
  <2>5. /\ read_buf' \in Seq(CharSet) /\ Len(read_buf') = n
        /\ input' \in Seq(CharSet) /\ Len(input') = Len(input) - n
        /\ read_buf' \o input' = input
    BY <2>1, <2>3, <2>4, SplitInput
  <2>6. Unread = input
    BY <2>3, ConcatEmptySeq DEF Unread
  <2>7. Unread' = Unread
    BY <2>5, <2>6 DEF Unread
  <2>8. InputLength(lines) \in Nat
    BY InputLinked DEF Typed, Linked, InputLength
  <2>9. Text'
    <3>1. Len(input) <= InputLength(lines) /\ Linked(lines, Unread)
      BY <2>3 DEF Text
    <3>2. Len(input') <= InputLength(lines) /\ Len(read_buf') <= BUF_SIZE
      BY <3>1, <2>4, <2>5, <2>8
    <3> QED
      BY <2>2, <2>3, <2>5, <2>7, <3>1, <3>2 DEF Text
  <2>10. Current' = Current
    BY <2>2 DEF Current
  <2>11. Begun'
    BY <2>2, <2>3, <2>7, <2>10 DEF Begun
  <2> QED
    BY <2>2, <2>9, <2>11 DEF Stream, AtLine
<1> QED
  BY <1>1, <1>2

\* A character goes to its place in cmd_str, which the line is not too long for.
LEMMA CharStream ==
  ASSUME Typed, Stream, Char
  PROVE  Stream'
<1> USE DEF At, Goes, Moves, Exit, ExitEarly, options, reading, history
<1>1. CASE read_buf = <<>>
  <2>1. /\ pc[MainT] = "char" /\ pc'[MainT] = "read"
        /\ UNCHANGED <<lines, input, read_buf, cmd_str, cmd_str_idx, executed>>
    BY <1>1 DEF Char, Typed, Threads
  <2>2. Text /\ Begun
    BY <2>1 DEF Stream, InLoop
  <2>3. Unread' = Unread /\ Current' = Current
    BY <2>1 DEF Unread, Current
  <2>4. Text' /\ Begun'
    BY <2>1, <2>2, <2>3 DEF Text, Begun
  <2> QED
    BY <1>1, <2>1, <2>4 DEF Stream, AtLine
<1>2. CASE read_buf # <<>>
  <2> DEFINE l == Current
  <2>1. /\ UNCHANGED <<lines, input, executed>> /\ pc[MainT] = "char"
        /\ cmd_str' = [cmd_str EXCEPT ![cmd_str_idx] = Head(read_buf)]
        /\ Text /\ Begun /\ l = Len(executed) + 1
    BY <1>2 DEF Char, Stream, InLoop, Current
  <2>2. /\ input \in Seq(CharSet) /\ read_buf \in Seq(CharSet) /\ Linked(lines, Unread)
        /\ cmd_str \in [0..(CMD_SIZE - 1) -> CharSet] /\ cmd_str_idx \in 0..(CMD_SIZE - 1)
    BY <2>1 DEF Text
  <2>3. /\ Unread # <<>> /\ Unread[1] = Head(read_buf) /\ Tail(read_buf) \o input = Tail(Unread)
        /\ Tail(read_buf) \in Seq(CharSet) /\ Len(Tail(read_buf)) = Len(read_buf) - 1
    BY <1>2, <2>2, BufTail DEF Unread
  <2>4. Head(read_buf) = Pos(lines, l, cmd_str_idx) /\ Head(read_buf) \in CharSet
    BY <1>2, <2>1, <2>2, <2>3 DEF Begun
  <2>5. l \in DOMAIN lines /\ lines[l].len \in 0..(CMD_SIZE - 1) /\ l \in Nat
    <3>1. 1 \in 1..Len(Unread)
      BY <2>2, <2>3 DEF Linked
    <3>2. IsChar(lines, Unread[1])
      BY <3>1, <2>2 DEF Linked
    <3>3. Head(read_buf)[1] = l
      BY <2>4 DEF Pos
    <3>4. l \in DOMAIN lines
      BY <3>2, <3>3, <2>3 DEF IsChar
    <3> QED
      BY <3>4, LinesAssumption DEF Typed
  <2>6. cmd_str_idx <= lines[l].len
    BY <2>1, <2>5 DEF Begun
  <2>7. /\ cmd_str' \in [0..(CMD_SIZE - 1) -> CharSet] /\ cmd_str'[cmd_str_idx] = Head(read_buf)
        /\ \A j \in 0..(cmd_str_idx - 1) : cmd_str'[j] = <<l, j + 1>>
    <3>1. \A j \in 0..(cmd_str_idx - 1) : cmd_str[j] = <<l, j + 1>>
      BY <2>1 DEF Begun
    <3>2. ASSUME NEW j \in 0..(cmd_str_idx - 1) PROVE j \in 0..(CMD_SIZE - 1) /\ j # cmd_str_idx
      BY <2>2, LinesAssumption
    <3> QED
      BY <2>1, <2>2, <2>4, <3>1, <3>2
  <2>8. CASE IsNewline(Head(read_buf))
    <3>1. pc'[MainT] = "exec" /\ UNCHANGED <<read_buf, cmd_str_idx>>
      BY <1>2, <2>8 DEF Char, Typed, Threads
    <3>2. Unread' = Unread /\ Current' = l
      BY <2>1, <3>1 DEF Unread, Current
    <3>3. Head(read_buf) = <<l, 0>> /\ cmd_str_idx = lines[l].len
      BY <2>2, <2>4, <2>5, <2>6, <2>8 DEF IsNewline, Pos
    <3>4. Text'
      BY <2>1, <2>7, <3>1, <3>2 DEF Text
    <3>5. Begun'
      BY <2>1, <2>7, <3>1, <3>2 DEF Begun
    <3>6. Complete'
      BY <1>2, <2>1, <2>5, <2>7, <3>1, <3>2, <3>3 DEF Complete
    <3> QED
      BY <3>1, <3>4, <3>5, <3>6 DEF Stream
  <2>9. CASE ~IsNewline(Head(read_buf))
    <3>1. pc'[MainT] = "char" /\ read_buf' = Tail(read_buf) /\ cmd_str_idx' = cmd_str_idx + 1
      BY <1>2, <2>9 DEF Char, Typed, Threads
    <3>2. Unread' = Tail(Unread) /\ Current' = l
      BY <2>1, <2>3, <3>1 DEF Unread, Current
    <3>3. Head(read_buf) = <<l, cmd_str_idx + 1>> /\ cmd_str_idx < lines[l].len
      BY <2>4, <2>9 DEF IsNewline, Pos
    <3>4. Linked(lines, Unread') /\ (Unread' # <<>> => Unread'[1] = Pos(lines, l, cmd_str_idx + 1))
      <4>1. Succ(lines, Unread[1]) = Pos(lines, l, cmd_str_idx + 1)
        BY <2>2, <2>3, <3>3 DEF Succ
      <4> QED
        BY <2>2, <2>3, <3>2, <4>1, TailLinked
    <3>5. cmd_str_idx + 1 \in 0..(CMD_SIZE - 1)
      BY <2>2, <2>5, <3>3, LinesAssumption
    <3>6. Len(read_buf') <= BUF_SIZE
      BY <2>1, <2>2, <2>3, <3>1, LinesAssumption DEF Text
    <3>7. Text'
      BY <2>1, <2>3, <2>7, <3>1, <3>4, <3>5, <3>6 DEF Text
    <3>8. \A j \in 0..cmd_str_idx : cmd_str'[j] = <<l, j + 1>>
      <4>1. ASSUME NEW j \in 0..cmd_str_idx
            PROVE  j = cmd_str_idx \/ j \in 0..(cmd_str_idx - 1)
        BY <2>2
      <4> QED
        BY <2>7, <3>3, <4>1
    <3>9. Begun'
      <4>1. cmd_str_idx' - 1 = cmd_str_idx /\ cmd_str_idx' <= lines[l].len
        BY <2>2, <2>5, <3>1, <3>3
      <4> QED
        BY <2>1, <2>5, <3>1, <3>2, <3>4, <3>8, <4>1 DEF Begun
    <3> QED
      BY <3>1, <3>7, <3>9 DEF Stream, AtLine
  <2> QED
    BY <2>8, <2>9
<1> QED
  BY <1>1, <1>2

\* A command that is done, or whose argument is to be checked, and one that exits.
LEMMA ExecStream ==
  ASSUME Typed, Stream, exec_cmd
  PROVE  Stream'
<1> USE DEF At, Goes, Moves, Exit, ExitEarly, options, reading, history
<1>1. /\ pc[MainT] = "cmd" /\ lines' = lines
      /\ executed \in Seq(Int) /\ Line \in Int /\ executed' = Append(executed, Line)
  BY LineIs DEF exec_cmd, Typed
<1>2. Len(executed) \in Nat /\ Len(executed') = Len(executed) + 1 /\ AtLine
  BY <1>1 DEF AtLine
<1>3. Text /\ Begun /\ Complete
  BY <1>2 DEF Stream
<1>4. \/ NextChar /\ pc'[MainT] = "char"
      \/ pc'[MainT] \in {"exit", "scaled", "timed"} /\ UNCHANGED reading
  BY DEF exec_cmd, NextChar, Typed, Threads
<1>5. CASE NextChar /\ pc'[MainT] = "char"
  <2>1. Current' = Current + 1
    BY <1>1, <1>2, <1>5 DEF Current
  <2> QED
    BY <1>1, <1>2, <1>5, <2>1, NextCharStream
<1>6. CASE pc'[MainT] \in {"exit", "scaled", "timed"} /\ UNCHANGED reading
  <2>1. Unread' = Unread /\ Text'
    BY <1>1, <1>3, <1>6 DEF Unread, Text
  <2>2. CASE pc'[MainT] = "exit"
    BY <2>1, <2>2 DEF Stream, InLoop, AtLine
  <2>3. CASE pc'[MainT] \in {"scaled", "timed"}
    <3>1. Current' = Current
      BY <1>1, <1>2, <2>3 DEF Current
    <3>2. Begun' /\ Complete'
      BY <1>1, <1>3, <1>6, <2>1, <3>1 DEF Begun, Complete
    <3> QED
      BY <2>1, <2>3, <3>2 DEF Stream
  <2> QED
    BY <1>6, <2>2, <2>3
<1> QED
  BY <1>4, <1>5, <1>6

\* CheckArg accepts the argument and goes to the next character, or leaves with status 1.
LEMMA CheckStream ==
  ASSUME Typed, Stream, CheckArg
  PROVE  Stream'
<1> USE DEF At, Goes, Moves, Exit, ExitEarly, options, reading, history
<1>1. /\ pc[MainT] \in {"scaled", "timed"} /\ UNCHANGED <<lines, executed>> /\ AtLine
      /\ Len(executed) \in Nat
  BY DEF CheckArg, AtLine, Typed
<1>2. \/ NextChar /\ pc'[MainT] = "char"
      \/ pc'[MainT] = "exit" /\ UNCHANGED reading
  BY DEF CheckArg, NextChar, Typed, Threads
<1>3. CASE NextChar /\ pc'[MainT] = "char"
  <2>1. Current' = Current + 1
    BY <1>1, <1>3 DEF Current
  <2> QED
    BY <1>1, <1>3, <2>1, NextCharStream
<1>4. CASE pc'[MainT] = "exit" /\ UNCHANGED reading
  BY <1>1, <1>4, StreamSame DEF Keeps
<1> QED
  BY <1>2, <1>3, <1>4

\* Every step keeps what is left to read in line with what is in cmd_str.
LEMMA StreamStep ==
  ASSUME Typed, Stream, [Next]_vars
  PROVE  Stream'
<1> USE DEF At, Goes, Moves, Exit, ExitEarly, options, reading, history
<1>1. CASE GetOpts
  BY <1>1, StreamSame DEF Keeps, Typed, MainT, Sensor, Threads, GetOpts
<1>2. CASE Setup
  BY <1>2, StreamSame DEF Keeps, Typed, MainT, Sensor, Threads, Setup
<1>3. CASE Read
  BY <1>3, ReadStream
<1>4. CASE Char
  BY <1>4, CharStream
<1>5. CASE LogCmd
  BY <1>5, StreamSame DEF Keeps, Typed, MainT, Sensor, Threads, LogCmd
<1>6. CASE exec_cmd
  BY <1>6, ExecStream
<1>7. CASE CheckArg
  BY <1>7, CheckStream
<1>8. CASE SensorLoop
  BY <1>8, StreamSame DEF Keeps, Typed, MainT, Sensor, Threads, SensorLoop
<1>9. CASE ReadSensor
  BY <1>9, StreamSame DEF Keeps, Typed, MainT, Sensor, Threads, ReadSensor
<1>10. CASE Convert
  BY <1>10, StreamSame DEF Keeps, Typed, MainT, Sensor, Threads, Convert
<1>11. CASE TestReportFlag
  BY <1>11, StreamSame DEF Keeps, Typed, MainT, Sensor, Threads, TestReportFlag
<1>12. CASE PrintReport
  BY <1>12, StreamSame DEF Keeps, Typed, MainT, Sensor, Threads, PrintReport
<1>13. CASE Sleep
  BY <1>13, StreamSame DEF Keeps, Typed, MainT, Sensor, Threads, Sleep
<1>14. CASE do_when_interrupted
  BY <1>14, StreamSame DEF Keeps, Typed, MainT, Sensor, Threads, do_when_interrupted
<1>15. CASE OptsFail
  BY <1>15, StreamSame DEF Keeps, Typed, MainT, Sensor, Threads, OptsFail
<1>16. CASE ReadError
  BY <1>16, StreamSame DEF Keeps, Typed, MainT, Sensor, Threads, ReadError
<1>17. CASE SensorError
  BY <1>17, StreamSame DEF Keeps, Typed, MainT, Sensor, Threads, SensorError
<1>18. ASSUME NEW t \in Threads, ShutdownCloses(t) PROVE Stream'
  BY <1>18, StreamSame DEF Keeps, Typed, MainT, Sensor, Threads, ShutdownCloses
<1>19. ASSUME NEW t \in Threads, ShutdownWrites(t) PROVE Stream'
  BY <1>19, StreamSame DEF Keeps, Typed, MainT, Sensor, Threads, ShutdownWrites
<1>20. ASSUME NEW t \in Threads, EndProcess(t) PROVE Stream'
  BY <1>20, StreamSame DEF Keeps, Typed, MainT, Sensor, Threads, EndProcess
<1>21. ASSUME NEW t \in Threads, ExitAgain(t) PROVE Stream'
  BY <1>21, StreamSame DEF Keeps, Typed, MainT, Sensor, Threads, ExitAgain
<1>22. CASE UNCHANGED vars
  BY <1>22, StreamSame DEF Keeps, Typed, MainT, Sensor, Threads, vars
<1>23. MainT \in Threads /\ Sensor \in Threads
  BY DEF Threads
<1> QED
  BY <1>1, <1>2, <1>3, <1>4, <1>5, <1>6, <1>7, <1>8, <1>9, <1>10, <1>11,
     <1>12, <1>13, <1>14, <1>15, <1>16, <1>17, <1>18, <1>19, <1>20, <1>21, <1>22, <1>23
  DEF Next, Main, SensorThread, Faults, Idle, Exits

\* How many SHUTDOWN lines there are after one entry more.
LEMMA SaidAppend ==
  ASSUME NEW l \in Seq(Int), NEW e \in Int, NEW m, m = Append(l, e)
  PROVE  /\ \A k \in 0..Len(l) : Said(m, k) = Said(l, k)
         /\ Said(m, Len(l) + 1) = IF e = SHUTDOWN THEN 1 ELSE Said(l, Len(l))
<1>1. /\ Len(l) \in Nat /\ m[Len(l) + 1] = e
      /\ \A j \in 1..Len(l) : m[j] = l[j]
  OBVIOUS
<1>2. ASSUME NEW k \in 0..Len(l) PROVE Said(m, k) = Said(l, k)
  <2>1. \A j \in 1..k : m[j] = l[j]
    BY <1>1
  <2> QED
    BY <2>1 DEF Said
<1>3. ASSUME e = SHUTDOWN PROVE Said(m, Len(l) + 1) = 1
  BY <1>1, <1>3 DEF Said
<1>4. ASSUME e # SHUTDOWN PROVE Said(m, Len(l) + 1) = Said(l, Len(l))
  <2>1. \A j \in 1..(Len(l) + 1) : j \in 1..Len(l) \/ j = Len(l) + 1
    BY <1>1
  <2>2. (\E j \in 1..(Len(l) + 1) : m[j] = SHUTDOWN) <=> (\E j \in 1..Len(l) : l[j] = SHUTDOWN)
    BY <1>1, <1>4, <2>1
  <2> QED
    BY <2>2 DEF Said
<1> QED
  BY <1>2, <1>3, <1>4

\* A step that neither logs nor executes a command.
LEMMA WholeSame ==
  ASSUME CommandsWhole, UNCHANGED <<log, log_flag, executed>>,
         pc'[MainT] = "cmd" <=> pc[MainT] = "cmd"
  PROVE  CommandsWhole'
BY DEF CommandsWhole, SHUTDOWN

\* exec_cmd() logs the line that is next, and executes it then.
LEMMA LogCmdWhole ==
  ASSUME Typed, Stream, CommandsWhole, LogCmd
  PROVE  CommandsWhole'
<1> USE DEF At, Goes, Moves
<1>1. /\ pc[MainT] = "exec" /\ pc'[MainT] = "cmd" /\ UNCHANGED <<log_flag, executed>>
      /\ log' = IF log_flag THEN Append(log, Line) ELSE log
      /\ log \in Seq(Int) /\ Len(log) \in Nat /\ Len(executed) \in Nat
  BY DEF LogCmd, Typed, Threads, options, history
<1>2. Line = Len(executed) + 1 /\ Line \in Int /\ Line # SHUTDOWN
  <2>1. AtLine
    BY <1>1 DEF AtLine
  <2>2. Line = Current /\ Current = Len(executed) + 1
    BY <1>1, <2>1, LineIsCurrent DEF Current
  <2> QED
    BY <1>1, <2>2 DEF SHUTDOWN
<1>3. CASE ~log_flag
  BY <1>1, <1>3 DEF CommandsWhole
<1>4. CASE log_flag
  <2>1. /\ \A j \in DOMAIN log : log[j] # SHUTDOWN => log[j] = j - Said(log, j)
        /\ Len(log) - Said(log, Len(log)) = Len(executed)
        /\ \A j \in DOMAIN executed : executed[j] = j
    BY <1>1, <1>4 DEF CommandsWhole
  <2>2. /\ log' = Append(log, Line) /\ Len(log') = Len(log) + 1 /\ DOMAIN log = 1..Len(log)
        /\ DOMAIN log' = 1..(Len(log) + 1) /\ log'[Len(log) + 1] = Line
        /\ \A j \in 1..Len(log) : log'[j] = log[j]
    BY <1>1, <1>2, <1>4
  <2>3. /\ \A k \in 0..Len(log) : Said(log', k) = Said(log, k)
        /\ Said(log', Len(log) + 1) = Said(log, Len(log))
    BY <1>1, <1>2, <2>2, SaidAppend
  <2>4. Said(log, Len(log)) \in {0, 1}
    BY DEF Said
  <2>5. Said(log', Len(log')) = Said(log, Len(log))
    BY <2>2, <2>3
  <2>6. ASSUME NEW j \in DOMAIN log', log'[j] # SHUTDOWN PROVE log'[j] = j - Said(log', j)
    <3>1. CASE j \in 1..Len(log)
      <4>1. j \in 0..Len(log)
        BY <3>1, <1>1
      <4> QED
        BY <3>1, <4>1, <2>6, <2>1, <2>2, <2>3
    <3>2. CASE j = Len(log) + 1
      <4>1. log'[j] = Line /\ Said(log', j) = Said(log, Len(log))
        BY <3>2, <2>2, <2>3
      <4> QED
        BY <3>2, <4>1, <1>1, <1>2, <2>1, <2>4
    <3> QED
      BY <3>1, <3>2, <2>2, <1>1
  <2>7. Len(log') - Said(log', Len(log')) = Len(executed) + 1
    BY <1>1, <2>1, <2>2, <2>4, <2>5
  <2> QED
    BY <1>1, <2>1, <2>6, <2>7 DEF CommandsWhole, SHUTDOWN
<1> QED
  BY <1>3, <1>4

\* exec_cmd() executes the line that was logged last.
LEMMA ExecWhole ==
  ASSUME Typed, Stream, CommandsWhole, exec_cmd
  PROVE  CommandsWhole'
<1> USE DEF At, Goes, Moves, Exit
<1>1. /\ pc[MainT] = "cmd" /\ UNCHANGED <<log_flag, log>> /\ executed \in Seq(Int)
      /\ executed' = Append(executed, Line) /\ Len(executed) \in Nat /\ Line \in Int
  BY LineIs DEF exec_cmd, Typed
<1>2. pc'[MainT] # "cmd"
  BY DEF exec_cmd, NextChar, Typed, Threads
<1>3. Line = Len(executed) + 1
  <2>1. AtLine
    BY <1>1 DEF AtLine
  <2> QED
    BY <1>1, <2>1, LineIsCurrent DEF Current
<1>4. Len(executed') = Len(executed) + 1 /\ \A j \in DOMAIN executed' : executed'[j] = j
  <2>1. /\ DOMAIN executed' = 1..(Len(executed) + 1) /\ DOMAIN executed = 1..Len(executed)
        /\ executed'[Len(executed) + 1] = Line /\ Len(executed') = Len(executed) + 1
        /\ \A j \in 1..Len(executed) : executed'[j] = executed[j]
    BY <1>1
  <2>2. \A j \in 1..(Len(executed) + 1) : j \in 1..Len(executed) \/ j = Len(executed) + 1
    BY <1>1
  <2> QED
    BY <1>3, <2>1, <2>2 DEF CommandsWhole
<1> QED
  BY <1>1, <1>2, <1>4 DEF CommandsWhole, SHUTDOWN

\* The SHUTDOWN line, the only one, is not counted.
LEMMA ShutdownWhole ==
  ASSUME Typed, Leaving, CommandsWhole, NEW t \in Threads, ShutdownWrites(t)
  PROVE  CommandsWhole'
<1> USE DEF At, Goes, Moves
<1>1. /\ pc[t] = "closed" /\ pc' = [pc EXCEPT ![t] = "_exit"] /\ UNCHANGED <<log_flag, executed>>
      /\ log' = IF log_flag THEN Append(log, SHUTDOWN) ELSE log
      /\ log \in Seq(Int) /\ Len(log) \in Nat /\ Len(executed) \in Nat /\ Messages = {}
  BY DEF ShutdownWrites, Typed, Leaving, options, history
<1>2. pc'[MainT] = "cmd" <=> pc[MainT] = "cmd"
  BY <1>1 DEF Typed, Threads
<1>3. CASE ~log_flag
  BY <1>1, <1>2, <1>3 DEF CommandsWhole
<1>4. CASE log_flag
  <2>1. /\ \A j \in DOMAIN log : log[j] # SHUTDOWN => log[j] = j - Said(log, j)
        /\ Len(log) - Said(log, Len(log)) = Len(executed) + (IF pc[MainT] = "cmd" THEN 1 ELSE 0)
        /\ \A j \in DOMAIN executed : executed[j] = j
    BY <1>1, <1>4 DEF CommandsWhole
  <2>2. SHUTDOWN \in Int
    BY DEF SHUTDOWN
  <2>3. /\ log' = Append(log, SHUTDOWN) /\ Len(log') = Len(log) + 1 /\ DOMAIN log = 1..Len(log)
        /\ DOMAIN log' = 1..(Len(log) + 1) /\ log'[Len(log) + 1] = SHUTDOWN
        /\ \A j \in 1..Len(log) : log'[j] = log[j]
    BY <1>1, <1>4, <2>2
  <2>4. /\ \A k \in 0..Len(log) : Said(log', k) = Said(log, k)
        /\ Said(log', Len(log) + 1) = 1
    BY <1>1, <2>2, <2>3, SaidAppend
  <2>5. Said(log, Len(log)) = 0
    BY <1>1, <2>3 DEF Said, Messages
  <2>6. ASSUME NEW j \in DOMAIN log', log'[j] # SHUTDOWN PROVE log'[j] = j - Said(log', j)
    <3>1. j \in 1..Len(log) /\ j \in 0..Len(log)
      BY <1>1, <2>3, <2>6
    <3> QED
      BY <3>1, <2>6, <2>1, <2>3, <2>4
  <2>7. Len(log') - Said(log', Len(log')) = Len(log) - Said(log, Len(log))
    BY <1>1, <2>3, <2>4, <2>5
  <2> QED
    BY <1>1, <1>2, <2>1, <2>6, <2>7 DEF CommandsWhole, SHUTDOWN
<1> QED
  BY <1>3, <1>4

\* Every step keeps the commands whole and in order.
LEMMA WholeStep ==
  ASSUME Typed, Places, Leaving, Stream, CommandsWhole, [Next]_vars
  PROVE  CommandsWhole'
<1> USE DEF At, Goes, Moves, Exit, ExitEarly, options, reading, history
<1>1. CASE GetOpts
  <2>1. log' = <<>> /\ executed' = <<>> /\ pc'[MainT] = "setup"
    BY <1>1 DEF GetOpts, Places, Typed, Threads
  <2>2. Said(log', 0) = 0
    BY DEF Said
  <2> QED
    BY <2>1, <2>2 DEF CommandsWhole
<1>2. CASE Setup
  BY <1>2, WholeSame DEF Typed, MainT, Sensor, Threads, Setup
<1>3. CASE Read
  BY <1>3, WholeSame DEF Typed, MainT, Sensor, Threads, Read
<1>4. CASE Char
  BY <1>4, WholeSame DEF Typed, MainT, Sensor, Threads, Char
<1>5. CASE LogCmd
  BY <1>5, LogCmdWhole
<1>6. CASE exec_cmd
  BY <1>6, ExecWhole
<1>7. CASE CheckArg
  BY <1>7, WholeSame DEF CheckArg, NextChar, Typed, MainT, Sensor, Threads
<1>8. CASE SensorLoop
  BY <1>8, WholeSame DEF Typed, MainT, Sensor, Threads, SensorLoop
<1>9. CASE ReadSensor
  BY <1>9, WholeSame DEF Typed, MainT, Sensor, Threads, ReadSensor
<1>10. CASE Convert
  BY <1>10, WholeSame DEF Typed, MainT, Sensor, Threads, Convert
<1>11. CASE TestReportFlag
  BY <1>11, WholeSame DEF Typed, MainT, Sensor, Threads, TestReportFlag
<1>12. CASE PrintReport
  BY <1>12, WholeSame DEF Typed, MainT, Sensor, Threads, PrintReport
<1>13. CASE Sleep
  BY <1>13, WholeSame DEF Typed, MainT, Sensor, Threads, Sleep
<1>14. CASE do_when_interrupted
  BY <1>14, WholeSame DEF Typed, MainT, Sensor, Threads, do_when_interrupted
<1>15. CASE OptsFail
  <2>1. log' = <<>> /\ executed' = <<>> /\ pc'[MainT] = "_exit"
    BY <1>15 DEF OptsFail, Places, Typed, Threads
  <2>2. Said(log', 0) = 0
    BY DEF Said
  <2> QED
    BY <2>1, <2>2 DEF CommandsWhole
<1>16. CASE ReadError
  BY <1>16, WholeSame DEF Typed, MainT, Sensor, Threads, ReadError
<1>17. CASE SensorError
  BY <1>17, WholeSame DEF Typed, MainT, Sensor, Threads, SensorError
<1>18. ASSUME NEW t \in Threads, ShutdownCloses(t) PROVE CommandsWhole'
  BY <1>18, WholeSame DEF Typed, MainT, Sensor, Threads, ShutdownCloses
<1>19. ASSUME NEW t \in Threads, ShutdownWrites(t) PROVE CommandsWhole'
  BY <1>19, ShutdownWhole
<1>20. ASSUME NEW t \in Threads, EndProcess(t) PROVE CommandsWhole'
  BY <1>20, WholeSame DEF Typed, MainT, Sensor, Threads, EndProcess
<1>21. ASSUME NEW t \in Threads, ExitAgain(t) PROVE CommandsWhole'
  BY <1>21, WholeSame DEF Typed, MainT, Sensor, Threads, ExitAgain
<1>22. CASE UNCHANGED vars
  BY <1>22, WholeSame DEF Typed, MainT, Sensor, Threads, vars
<1>23. MainT \in Threads /\ Sensor \in Threads
  BY DEF Threads
<1> QED
  BY <1>1, <1>2, <1>3, <1>4, <1>5, <1>6, <1>7, <1>8, <1>9, <1>10, <1>11,
     <1>12, <1>13, <1>14, <1>15, <1>16, <1>17, <1>18, <1>19, <1>20, <1>21, <1>22, <1>23
  DEF Next, Main, SensorThread, Faults, Idle, Exits

-----------------------------------------------------------------------------
\* The invariant holds at the start.
LEMMA InitInv == Init => IInv
<1> SUFFICES ASSUME Init PROVE IInv
  OBVIOUS
<1> USE DEF Init
<1>1. Typed
  <2>1. period \in 0..(UINT - 1) /\ log \in Seq(Int) /\ executed \in Seq(Int)
    BY LinesAssumption
  <2>2. /\ pc \in [Threads -> MainPlaces \cup SensorPlaces]
        /\ pc[MainT] \in MainPlaces /\ pc[Sensor] \in SensorPlaces
    BY DEF MainT, Sensor, Threads, MainPlaces, SensorPlaces
  <2> QED
    BY <2>1, <2>2 DEF Typed, NoThread
<1>2. Places /\ Reporting /\ Refusing
  BY DEF Places, Reporting, Refusing, RefusedArgsEnd, MainT, Sensor, Threads, NoThread
<1>3. Leaving
  <2>1. Messages = {}
    BY DEF Messages
  <2> QED
    BY <2>1 DEF Leaving, MainT, Sensor, Threads, NoThread, Running
<1>4. Stream
  <2>1. /\ Linked(lines, input) /\ (input # <<>> => input[1] = Pos(lines, 1, 0))
        /\ input \in Seq(CharSet)
    BY InputLinked DEF Linked
  <2>2. Unread = input
    BY <2>1, ConcatEmptySeq DEF Unread
  <2>3. Len(input) \in Nat /\ Len(input) = InputLength(lines)
    BY <2>1 DEF InputLength
  <2>4. Nul \in CharSet /\ Current = 1 /\ pc[MainT] = "opts"
    BY DEF Nul, CharSet, Current, MainT, Threads
  <2>5. Text
    BY <2>1, <2>2, <2>3, <2>4, LinesAssumption DEF Text
  <2>6. Begun
    BY <2>1, <2>2, <2>4 DEF Begun
  <2> QED
    BY <2>4, <2>5, <2>6 DEF Stream, AtLine
<1>5. CommandsWhole
  BY DEF CommandsWhole
<1> QED
  BY <1>1, <1>2, <1>3, <1>4, <1>5 DEF IInv

\* Every behaviour keeps the inductive invariant.
LEMMA Inductive == Spec => []IInv
<1>1. IInv /\ [Next]_vars => IInv'
  BY TypedStep, PlacesStep, ReportingStep, RefusingStep, LeavingStep, StreamStep, WholeStep DEF IInv
<1> QED
  BY <1>1, InitInv, PTL DEF Spec

\* However read() cuts the input of lab4b.c into pieces, and whatever the sensor
\* thread and the button do meanwhile, the lines are executed whole, once and in
\* order, the log says so, and cmd_str never overflows; for any sessions and sizes.
THEOREM CommandsAreIntact == Spec => []CommandsIntact
<1>1. IInv => CommandsIntact
  <2> SUFFICES ASSUME IInv PROVE TypeOK
    BY DEF IInv, CommandsIntact
  <2>1. Typed /\ Text
    BY DEF IInv, Stream
  <2>2. DOMAIN cmd_str = 0..(CMD_SIZE - 1)
    BY <2>1 DEF Text
  <2> QED
    BY <2>1, <2>2 DEF Typed, Text, TypeOK, MainPlaces, SensorPlaces, InputLength
<1> QED
  BY <1>1, Inductive, PTL

\* After STOP at most one more report is made, and after SCALE= at most one in the
\* old scale, however main() and the sensor thread interleave.
THEOREM OneUnderWay == Spec => []OnlyOneUnderWay
<1>1. IInv => OnlyOneUnderWay
  BY DEF IInv, Reporting, OnlyOneUnderWay
<1> QED
  BY <1>1, Inductive, PTL

\* A refused scale or period is in force only until main() has left with status 1.
THEOREM RefusedEnds == Spec => []RefusedArgsEnd
<1>1. IInv => RefusedArgsEnd
  BY DEF IInv, Refusing
<1> QED
  BY <1>1, Inductive, PTL

\* Whichever thread calls exit() once shutdown() is registered, the log gets one SHUTDOWN
\* line, unless the other thread ends the process while shutdown() runs.
THEOREM ShutdownIsLogged == Spec => []ShutdownLogged
<1>1. IInv => ShutdownLogged
  <2> SUFFICES ASSUME IInv PROVE ShutdownLogged
    OBVIOUS
  <2>1. Leaving /\ Places /\ Typed
    BY DEF IInv
  <2>2. ASSUME status # Running, log_flag, temp_sensor # "none", NEW t \in Threads, ~Exiting(t)
        PROVE  Messages # {}
    <3>1. PICK u \in Threads : pc[u] = "_exit"
      BY <2>1, <2>2 DEF Leaving, Places
    <3>2. handler # NoThread /\ pc[handler] \in {"closed", "_exit"} /\ handler \in Threads
      BY <2>1, <2>2, <3>1 DEF Leaving, Typed
    <3>3. handler = u
      BY <2>2, <3>1, <3>2 DEF Exiting, Threads
    <3> QED
      BY <2>1, <2>2, <3>1, <3>2, <3>3 DEF Leaving
  <2> QED
    BY <2>1, <2>2 DEF ShutdownLogged, Leaving, Messages
<1> QED
  BY <1>1, Inductive, PTL
=============================================================================
