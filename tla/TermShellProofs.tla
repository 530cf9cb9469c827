---------------------------- MODULE TermShellProofs ----------------------------
(***************************************************************************)
(* Proofs about TermShell, for any sessions, any shell output and any      *)
(* sizes of the pipes and of read_buf.                                     *)
(***************************************************************************)
EXTENDS TermShell, WellFoundedInduction, SequenceTheorems, TLAPS

\* A set of naturals has a least element: what the induction below rests on.
LEMMA Least ==
  ASSUME NEW T \in SUBSET Nat, T # {}
  PROVE  \E x \in T : \A y \in T : x <= y
<1>1. PICK x \in T : \A y \in T : ~ (<<y, x>> \in OpToRel(<, Nat))
  BY WFMin, NatLessThanWellFounded
<1>2. \A y \in T : ~(y < x)
  BY <1>1 DEF OpToRel
<1> QED
  BY <1>2

-----------------------------------------------------------------------------
\* The recursive definition of what is to be forwarded

Skipped(s, n) == s[n] = "^C" \/ \E j \in 1..n : s[j] = "^D"

\* The recursion that defines Sent() has a solution, built key by key.
LEMMA SentDef ==
  ASSUME NEW s \in Sessions
  PROVE  /\ Sent(s)[0] = <<>>
         /\ \A n \in 1..Len(s) :
              Sent(s)[n] = IF Skipped(s, n) THEN Sent(s)[n - 1]
                           ELSE Append(Sent(s)[n - 1], ToShell(s[n]))
<1> DEFINE Body(f, n) == IF n = 0 THEN <<>>
                         ELSE IF s[n] = "^C" \/ (\E j \in 1..n : s[j] = "^D") THEN f[n - 1]
                         ELSE Append(f[n - 1], IF s[n] = "cr" THEN "lf" ELSE s[n])
           P(m) == \E f : f = [n \in 0..m |-> Body(f, n)]
           T == {m \in Nat : ~P(m)}
           F == CHOOSE f : f = [n \in 0..Len(s) |-> Body(f, n)]
<1>1. Len(s) \in Nat
  BY BoundsAssumption
<1>2. P(0)
  <2> DEFINE f == [n \in 0..0 |-> <<>>]
  <2>1. f = [n \in 0..0 |-> Body(f, n)]
    OBVIOUS
  <2> QED
    BY <2>1
<1>3. ASSUME NEW m \in Nat, P(m) PROVE P(m + 1)
  <2>1. PICK f : f = [n \in 0..m |-> Body(f, n)]
    BY <1>3
  <2> DEFINE g == [n \in 0..(m + 1) |-> IF n = m + 1 THEN Body(f, n) ELSE f[n]]
  <2>2. ASSUME NEW n \in 0..(m + 1) PROVE g[n] = Body(g, n)
    <3>1. CASE n = 0
      <4>1. f[0] = Body(f, 0)
        BY <2>1
      <4> QED
        BY <3>1, <4>1
    <3>2. CASE n # 0
      <4>1. n - 1 \in 0..m /\ n - 1 # m + 1 /\ n - 1 \in 0..(m + 1)
        BY <3>2
      <4>2. g[n - 1] = f[n - 1]
        BY <4>1
      <4>3. Body(g, n) = Body(f, n)
        <5> HIDE DEF g
        <5> QED
          BY <3>2, <4>2
      <4>4. n # m + 1 => f[n] = Body(f, n)
        <5> SUFFICES ASSUME n # m + 1 PROVE f[n] = Body(f, n)
          OBVIOUS
        <5>1. n \in 0..m
          OBVIOUS
        <5> HIDE DEF Body
        <5> QED
          BY <5>1, <2>1
      <4> QED
        BY <4>3, <4>4
    <3> QED
      BY <3>1, <3>2
  <2> HIDE DEF Body
  <2>3. g = [n \in 0..(m + 1) |-> Body(g, n)]
    BY <2>2
  <2> QED
    BY <2>3
<1>4. T = {}
  <2> HIDE DEF P
  <2>1. SUFFICES ASSUME T # {} PROVE FALSE
    OBVIOUS
  <2>2. PICK x \in T : \A y \in T : x <= y
    BY <2>1, Least
  <2>3. x \in Nat /\ ~P(x) /\ x # 0
    BY <1>2
  <2>4. x - 1 \in Nat /\ x - 1 \notin T /\ (x - 1) + 1 = x
    BY <2>2, <2>3
  <2>5. P(x - 1)
    BY <2>4
  <2> QED
    BY <2>3, <2>4, <2>5, <1>3
<1>5. P(Len(s))
  <2> HIDE DEF P
  <2> QED
    BY <1>1, <1>4
<1>6. F = [n \in 0..Len(s) |-> Body(F, n)]
  <2> HIDE DEF Body
  <2> QED
    BY <1>5
<1>7. Sent(s) = F
  BY DEF Sent
<1> HIDE DEF F
<1>8. \A n \in 0..Len(s) : F[n] = Body(F, n)
  <2> HIDE DEF Body
  <2> QED
    BY <1>6
<1>9. F[0] = <<>>
  BY <1>1, <1>8
<1>10. ASSUME NEW n \in 1..Len(s)
       PROVE  F[n] = IF Skipped(s, n) THEN F[n - 1] ELSE Append(F[n - 1], ToShell(s[n]))
  <2>1. n \in 0..Len(s) /\ n # 0
    BY <1>1
  <2>2. F[n] = Body(F, n)
    BY <1>8, <2>1
  <2> QED
    BY <2>1, <2>2 DEF Skipped, ToShell
<1> QED
  BY <1>7, <1>9, <1>10

-----------------------------------------------------------------------------
\* The inductive invariant, part by part.

Typed ==
  /\ TypeOK /\ typed \in Sessions
  /\ got \in Seq(Keys) /\ written \in Seq(ShellChars) /\ shown \in Seq(ShellChars)

\* Where main() is, and what has happened by then.
Places ==
  /\ pc \in {"opts", "start", "tty"} => keys = typed /\ got = <<>> /\ to_chld = <<>>
  /\ pc \notin {"key", "exit", "restore"} => read_buf = <<>>
  /\ pc = "opts" => ~shell_flag
  /\ pc = "start" => shell_flag
  /\ pc \in {"opts", "start"} => shell = None

EofSeen == \E j \in 1..Processed : typed[j] = "^D"

\* The pipe to the shell is open from start_shell() to the first ^D.
Open ==
  /\ ~shell_flag => ~wr_open
  /\ shell_flag /\ pc # "start" => (wr_open <=> ~EofSeen)

\* read_buf and keys are what is left of the session.
Left ==
  /\ Len(keys) + Len(read_buf) <= Len(typed)
  /\ \A j \in 1..Len(read_buf) : read_buf[j] = typed[Processed + j]
  /\ \A j \in 1..Len(keys) : keys[j] = typed[Processed + Len(read_buf) + j]

\* What has been displayed, and what is still in the pipe, is what the shell wrote.
Output ==
  /\ Len(shown) <= Len(written)
  /\ \A j \in 1..Len(shown) : shown[j] = written[j]
  /\ pc \notin {"exit", "restore"} =>
       /\ Len(written) = Len(shown) + Len(to_par)
       /\ \A j \in 1..Len(to_par) : to_par[j] = written[Len(shown) + j]

\* Only a process that has waited for its shell restores the terminal.
Restoring == RestoredAtExit /\ (pc = "restore" => shell = "reaped")

IInv == Typed /\ Places /\ Open /\ Left /\ ForwardedInOrder /\ Output /\ Restoring

\* What is displayed of a chunk is a part of it from its start, all of it if there
\* is no ^D in it.
LEMMA UpToEofIs ==
  ASSUME NEW S, NEW s \in Seq(S)
  PROVE  \E m \in 0..Len(s) : /\ UpToEof(s) = SubSeq(s, 1, m)
                              /\ ~Contains(s, "^D") => m = Len(s)
<1>0. Len(s) \in Nat
  OBVIOUS
<1>1. CASE ~Contains(s, "^D")
  <2>1. UpToEof(s) = SubSeq(s, 1, Len(s))
    BY <1>1, SubSeqFull DEF UpToEof
  <2> QED
    BY <1>0, <2>1
<1>2. CASE Contains(s, "^D")
  <2> DEFINE I == {j \in 1..Len(s) : s[j] = "^D"}
  <2>1. I # {} /\ I \in SUBSET Nat
    BY <1>0, <1>2 DEF Contains
  <2>2. \E x \in I : \A y \in I : x <= y
    BY <2>1, Least
  <2>3. Min(I) \in I
    <3> HIDE DEF I
    <3> QED
      BY <2>2 DEF Min
  <2>4. SelectInSeq(s, LAMBDA c : c = "^D") = Min(I)
    BY <2>1 DEF SelectInSeq
  <2>5. Min(I) - 1 \in 0..Len(s)
    BY <1>0, <2>3
  <2> HIDE DEF I
  <2>6. UpToEof(s) = SubSeq(s, 1, Min(I) - 1)
    BY <1>2, <2>4 DEF UpToEof
  <2> QED
    BY <1>2, <2>5, <2>6
<1> QED
  BY <1>1, <1>2

\* A part of a sequence from its start, and what follows it.
LEMMA PartOf ==
  ASSUME NEW S, NEW s \in Seq(S), NEW m \in 0..Len(s)
  PROVE  /\ SubSeq(s, 1, m) \in Seq(S) /\ Len(SubSeq(s, 1, m)) = m
         /\ \A j \in 1..m : SubSeq(s, 1, m)[j] = s[j]
         /\ SubSeq(s, m + 1, Len(s)) \in Seq(S) /\ Len(SubSeq(s, m + 1, Len(s))) = Len(s) - m
         /\ \A j \in 1..(Len(s) - m) : SubSeq(s, m + 1, Len(s))[j] = s[m + j]
<1>0. Len(s) \in Nat /\ m \in Nat /\ m <= Len(s)
  OBVIOUS
<1>1. /\ SubSeq(s, 1, m) \in Seq(S) /\ Len(SubSeq(s, 1, m)) = m
      /\ \A j \in 1..m : SubSeq(s, 1, m)[j] = s[j]
  BY <1>0
<1>2. /\ SubSeq(s, m + 1, Len(s)) \in Seq(S) /\ Len(SubSeq(s, m + 1, Len(s))) = Len(s) - m
      /\ \A j \in 1..(Len(s) - m) : SubSeq(s, m + 1, Len(s))[j] = s[m + j]
  BY <1>0
<1> QED
  BY <1>1, <1>2

\* What read_pipe() takes and what it displays of it.
LEMMA ChunkIs ==
  ASSUME TypeOK
  PROVE  /\ Chunk \in Seq(ShellChars) /\ Len(Chunk) \in 0..Len(to_par)
         /\ Chunk = SubSeq(to_par, 1, Len(Chunk))
         /\ \E m \in 0..Len(Chunk) : /\ UpToEof(Chunk) = SubSeq(to_par, 1, m)
                                     /\ ~Contains(Chunk, "^D") => m = Len(Chunk)
<1>1. to_par \in Seq(ShellChars) /\ Len(to_par) \in Nat /\ READ_SIZE \in Nat
  BY BoundsAssumption DEF TypeOK
<1>2. PICK k \in 0..Len(to_par) : Chunk = SubSeq(to_par, 1, k)
  <2>1. CASE Len(to_par) < READ_SIZE
    BY <1>1, <2>1 DEF Chunk
  <2>2. CASE ~(Len(to_par) < READ_SIZE)
    BY <1>1, <2>2 DEF Chunk
  <2> QED
    BY <2>1, <2>2
<1>3. Chunk \in Seq(ShellChars) /\ Len(Chunk) = k /\ \A j \in 1..k : Chunk[j] = to_par[j]
  BY <1>1, <1>2, PartOf
<1>4. PICK m \in 0..Len(Chunk) : /\ UpToEof(Chunk) = SubSeq(Chunk, 1, m)
                                 /\ ~Contains(Chunk, "^D") => m = Len(Chunk)
  BY <1>3, UpToEofIs
<1>5. SubSeq(Chunk, 1, m) = SubSeq(to_par, 1, m)
  <2>1. m \in 0..Len(to_par)
    BY <1>1, <1>3
  <2>2. /\ SubSeq(Chunk, 1, m) \in Seq(ShellChars) /\ Len(SubSeq(Chunk, 1, m)) = m
        /\ \A j \in 1..m : SubSeq(Chunk, 1, m)[j] = Chunk[j]
    BY <1>3, PartOf
  <2>3. /\ SubSeq(to_par, 1, m) \in Seq(ShellChars) /\ Len(SubSeq(to_par, 1, m)) = m
        /\ \A j \in 1..m : SubSeq(to_par, 1, m)[j] = to_par[j]
    BY <1>1, <2>1, PartOf
  <2>4. \A j \in 1..m : j \in 1..k
    BY <1>3
  <2> QED
    BY <1>3, <2>2, <2>3, <2>4, SeqEqual
<1> QED
  BY <1>1, <1>2, <1>3, <1>4, <1>5

\* The keys sent on are keys.
LEMMA ToShellIs == \A c \in Keys : ToShell(c) \in Keys
BY DEF Keys, ToShell

\* Every step keeps the types, and no pipe or buffer overflows.
LEMMA TypedStep ==
  ASSUME Typed, [Next]_vars
  PROVE  Typed'
<1> USE DEF At, Moves, Exit, EndNow, user, child, control, Terminal
<1>1. CASE get_opts
  BY <1>1 DEF Typed, TypeOK, get_opts
<1>2. CASE start_shell
  BY <1>2, BoundsAssumption DEF start_shell, Typed, TypeOK, None
<1>3. CASE tty_config
  BY <1>3 DEF Typed, TypeOK, tty_config
<1>4. CASE Poll
  <2>1. revents' \in [kin : BOOLEAN, khup : BOOLEAN, pin : BOOLEAN, phup : BOOLEAN]
    BY <1>4 DEF Poll, Typed, TypeOK
  <2>2. pc' \in {"exit", "read", "pipe"} /\ code' \in {0, 1} /\ status' = status
    BY <1>4 DEF Poll, Typed, TypeOK
  <2> QED
    BY <1>4, <2>1, <2>2 DEF Poll, Typed, TypeOK
<1>5. CASE ReadKeys
  <2>1. PICK n \in 1..READ_SIZE : /\ n <= Len(keys) /\ read_buf' = SubSeq(keys, 1, n)
                                  /\ keys' = SubSeq(keys, n + 1, Len(keys))
    BY <1>5 DEF ReadKeys
  <2>2. keys \in Seq(Keys) /\ Len(keys) \in Nat /\ n \in 0..Len(keys)
    BY <2>1, BoundsAssumption DEF Typed, TypeOK
  <2>3. read_buf' \in Seq(Keys) /\ Len(read_buf') = n /\ keys' \in Seq(Keys)
    BY <2>1, <2>2, PartOf
  <2>4. Len(read_buf') <= READ_SIZE
    BY <2>1, <2>3
  <2> QED
    BY <1>5, <2>3, <2>4 DEF ReadKeys, Typed, TypeOK
<1>6. CASE Key
  <2>1. /\ read_buf \in Seq(Keys) /\ read_buf # <<>> /\ Len(read_buf) <= READ_SIZE
        /\ Tail(read_buf) \in Seq(Keys) /\ Len(Tail(read_buf)) = Len(read_buf) - 1
        /\ Len(read_buf) \in Nat /\ Head(read_buf) \in Keys /\ READ_SIZE \in Nat
    BY <1>6, HeadTailProperties, BoundsAssumption DEF Key, Typed, TypeOK
  <2>2. read_buf' = read_buf \/ read_buf' = Tail(read_buf)
    BY <1>6 DEF Key, CtrlD, CtrlC, Forward
  <2>3. read_buf' \in Seq(Keys) /\ Len(read_buf') <= READ_SIZE
    BY <2>1, <2>2
  <2>4. to_chld' = to_chld \/ (Len(to_chld) < PIPE_CAP /\ to_chld' = Append(to_chld, ToShell(Head(read_buf))))
    BY <1>6 DEF Key, CtrlD, CtrlC, Forward
  <2>5. to_chld' \in Seq(Keys) /\ Len(to_chld') <= PIPE_CAP
    <3>1. to_chld \in Seq(Keys) /\ Len(to_chld) <= PIPE_CAP /\ ToShell(Head(read_buf)) \in Keys /\ PIPE_CAP \in Nat
      BY <2>1, ToShellIs, BoundsAssumption DEF Typed, TypeOK
    <3> QED
      BY <2>4, <3>1
  <2>6. pc' \in {"key", "exit"} /\ code' \in {0, 1} /\ status' \in {Running, 0, 1, SigInt} /\ wr_open' \in BOOLEAN
    BY <1>6 DEF Key, CtrlD, CtrlC, Forward, Typed, TypeOK
  <2> QED
    BY <1>6, <2>3, <2>5, <2>6 DEF Key, Typed, TypeOK
<1>7. CASE KeysDone
  BY <1>7 DEF Typed, TypeOK, KeysDone
<1>8. CASE ShellOutput
  <2>1. /\ to_par \in Seq(ShellChars) /\ Len(to_par) <= PIPE_CAP /\ Len(to_par) \in Nat
        /\ shown \in Seq(ShellChars) /\ PIPE_CAP \in Nat
    BY BoundsAssumption DEF Typed, TypeOK
  <2>2. PICK m \in 0..Len(Chunk) : UpToEof(Chunk) = SubSeq(to_par, 1, m)
    BY ChunkIs DEF Typed
  <2>3. Len(Chunk) \in 0..Len(to_par)
    BY ChunkIs DEF Typed
  <2>7. m \in 0..Len(to_par)
    BY <2>1, <2>2, <2>3
  <2>4. /\ SubSeq(to_par, Len(Chunk) + 1, Len(to_par)) \in Seq(ShellChars)
        /\ Len(SubSeq(to_par, Len(Chunk) + 1, Len(to_par))) = Len(to_par) - Len(Chunk)
        /\ UpToEof(Chunk) \in Seq(ShellChars)
    BY <2>1, <2>2, <2>3, <2>7, PartOf
  <2>5. to_par' \in Seq(ShellChars) /\ Len(to_par') <= PIPE_CAP /\ shown' \in Seq(ShellChars)
    <3>1. \/ to_par' = to_par /\ shown' = shown
          \/ to_par' = SubSeq(to_par, Len(Chunk) + 1, Len(to_par)) /\ shown' = shown \o UpToEof(Chunk)
      BY <1>8 DEF ShellOutput
    <3>2. Len(to_par) - Len(Chunk) <= PIPE_CAP
      BY <2>1, <2>3
    <3>3. shown \o UpToEof(Chunk) \in Seq(ShellChars)
      BY <2>1, <2>4, ConcatProperties
    <3> QED
      BY <2>1, <2>4, <3>1, <3>2, <3>3
  <2>6. pc' \in {"exit", "poll"} /\ code' \in {0, 1} /\ status' = status
    BY <1>8 DEF ShellOutput, Typed, TypeOK
  <2> QED
    BY <1>8, <2>5, <2>6 DEF ShellOutput, Typed, TypeOK
<1>9. CASE Wait
  BY <1>9 DEF Wait, Typed, TypeOK, None
<1>10. CASE Restore
  BY <1>10 DEF Typed, TypeOK, Restore
<1>11. CASE StartFails
  BY <1>11 DEF Typed, TypeOK, StartFails
<1>12. CASE IoError
  BY <1>12 DEF Typed, TypeOK, IoError
<1>13. CASE Hangup
  BY <1>13 DEF Typed, TypeOK, Hangup
<1>14. CASE ShellReads /\ UNCHANGED Terminal
  <2>1. to_chld \in Seq(Keys) /\ to_chld # <<>> /\ Len(to_chld) <= PIPE_CAP /\ PIPE_CAP \in Nat
    BY <1>14, BoundsAssumption DEF ShellReads, Typed, TypeOK
  <2>2. /\ Head(to_chld) \in Keys /\ Tail(to_chld) \in Seq(Keys)
        /\ Len(Tail(to_chld)) = Len(to_chld) - 1 /\ Len(to_chld) \in Nat
    BY <2>1, HeadTailProperties
  <2>3. got' \in Seq(Keys) /\ to_chld' \in Seq(Keys) /\ Len(to_chld') <= PIPE_CAP
    BY <1>14, <2>1, <2>2 DEF ShellReads, Typed
  <2> QED
    BY <1>14, <2>3 DEF ShellReads, Typed, TypeOK
<1>15. CASE ShellEof /\ UNCHANGED Terminal
  BY <1>15 DEF Typed, TypeOK, ShellEof
<1>16. CASE ShellWrites /\ UNCHANGED Terminal
  <2>1. pending \in ShellChars /\ PIPE_CAP \in Nat
    BY <1>16, BoundsAssumption DEF ShellWrites, Typed, TypeOK
  <2>2. to_par' \in Seq(ShellChars) /\ Len(to_par') <= PIPE_CAP /\ written' \in Seq(ShellChars)
    BY <1>16, <2>1 DEF ShellWrites, Typed, TypeOK
  <2> QED
    BY <1>16, <2>2 DEF ShellWrites, Typed, TypeOK
<1>17. CASE ShellStartsWrite /\ UNCHANGED Terminal
  BY <1>17 DEF Typed, TypeOK, ShellStartsWrite
<1>18. CASE ShellExits /\ UNCHANGED Terminal
  BY <1>18 DEF Typed, TypeOK, ShellExits
<1>19. CASE UNCHANGED vars
  BY <1>19 DEF Typed, TypeOK, vars
<1> QED
  BY <1>1, <1>2, <1>3, <1>4, <1>5, <1>6, <1>7, <1>8, <1>9, <1>10,
     <1>11, <1>12, <1>13, <1>14, <1>15, <1>16, <1>17, <1>18, <1>19
  DEF Next, Main, ShellMust, ShellMay, Faults, Idle

\* Nothing is read or sent before the loop, and read_buf is empty outside it.
LEMMA PlacesStep ==
  ASSUME Typed, Places, [Next]_vars
  PROVE  Places'
<1> USE DEF At, Moves, Exit, EndNow, user, child, control, Terminal
<1>1. CASE get_opts
  BY <1>1 DEF Typed, TypeOK, Places, get_opts
<1>2. CASE start_shell
  BY <1>2 DEF Typed, TypeOK, Places, start_shell
<1>3. CASE tty_config
  BY <1>3 DEF Typed, TypeOK, Places, tty_config
<1>4. CASE Poll
  BY <1>4 DEF Poll, Places
<1>5. CASE ReadKeys
  BY <1>5 DEF Typed, TypeOK, Places, ReadKeys
<1>6. CASE Key
  BY <1>6 DEF Key, CtrlD, CtrlC, Forward, Places
<1>7. CASE KeysDone
  BY <1>7 DEF Typed, TypeOK, Places, KeysDone
<1>8. CASE ShellOutput
  BY <1>8 DEF ShellOutput, Places
<1>9. CASE Wait
  BY <1>9 DEF Typed, TypeOK, Places, Wait
<1>10. CASE Restore
  BY <1>10 DEF Typed, TypeOK, Places, Restore
<1>11. CASE StartFails
  BY <1>11 DEF Typed, TypeOK, Places, StartFails
<1>12. CASE IoError
  BY <1>12 DEF Typed, TypeOK, Places, IoError
<1>13. CASE Hangup
  BY <1>13 DEF Typed, TypeOK, Places, Hangup
<1>14. CASE ShellReads /\ UNCHANGED Terminal
  BY <1>14 DEF ShellReads, Places, None
<1>15. CASE ShellEof /\ UNCHANGED Terminal
  BY <1>15 DEF ShellEof, Places, None
<1>16. CASE ShellWrites /\ UNCHANGED Terminal
  BY <1>16 DEF ShellWrites, Places, None
<1>17. CASE ShellStartsWrite /\ UNCHANGED Terminal
  BY <1>17 DEF Typed, TypeOK, Places, ShellStartsWrite
<1>18. CASE ShellExits /\ UNCHANGED Terminal
  BY <1>18 DEF ShellExits, Places, None
<1>19. CASE UNCHANGED vars
  BY <1>19 DEF Typed, TypeOK, Places, vars
<1> QED
  BY <1>1, <1>2, <1>3, <1>4, <1>5, <1>6, <1>7, <1>8, <1>9, <1>10,
     <1>11, <1>12, <1>13, <1>14, <1>15, <1>16, <1>17, <1>18, <1>19
  DEF Next, Main, ShellMust, ShellMay, Faults, Idle

\* The terminal is restored, and the shell reaped, before the process ends by exit().
LEMMA RestoringStep ==
  ASSUME Restoring, [Next]_vars
  PROVE  Restoring'
<1> USE DEF At, Moves, Exit, EndNow, user, child, control, Terminal, Running, SigInt, None
<1>1. CASE UNCHANGED vars
  BY <1>1 DEF vars, Restoring, RestoredAtExit
<1>2. CASE Restore
  BY <1>2 DEF Restore, Restoring, RestoredAtExit
<1>3. CASE Wait
  BY <1>3 DEF Wait, Restoring, RestoredAtExit
<1>4. CASE StartFails
  BY <1>4 DEF StartFails, Restoring, RestoredAtExit
<1>5. CASE status = Running /\ Key
  BY <1>5 DEF Key, CtrlC, CtrlD, Forward, Restoring, RestoredAtExit
<1>6. CASE status = Running /\ (get_opts \/ start_shell \/ tty_config \/ Poll \/ ReadKeys \/ KeysDone
                                \/ ShellOutput \/ IoError \/ Hangup)
  <2>1. status' = status /\ shell' \in {shell, "running"} /\ (pc' = "restore" => pc = "restore" /\ shell' = shell)
    BY <1>6 DEF get_opts, start_shell, tty_config, Poll, ReadKeys, KeysDone, ShellOutput, IoError, Hangup
  <2> QED
    BY <1>6, <2>1 DEF Restoring, RestoredAtExit
<1>7. CASE ShellMust \/ ShellMay
  BY <1>7 DEF ShellMust, ShellMay, ShellReads, ShellEof, ShellWrites, ShellStartsWrite, ShellExits,
              Restoring, RestoredAtExit
<1> QED
  BY <1>1, <1>2, <1>3, <1>4, <1>5, <1>6, <1>7 DEF Next, Main, Faults, Idle

-----------------------------------------------------------------------------
\* From the keyboard to the shell

\* How many keys there are, and how many have been processed.
LEMMA Counts ==
  ASSUME Typed, Left
  PROVE  /\ typed \in Seq(Keys) /\ Len(typed) \in Nat
         /\ keys \in Seq(Keys) /\ Len(keys) \in Nat
         /\ read_buf \in Seq(Keys) /\ Len(read_buf) \in Nat
         /\ Processed \in 0..Len(typed)
         /\ Processed + Len(read_buf) + Len(keys) = Len(typed)
<1>1. /\ typed \in Seq(Keys) /\ Len(typed) \in Nat
      /\ keys \in Seq(Keys) /\ Len(keys) \in Nat
      /\ read_buf \in Seq(Keys) /\ Len(read_buf) \in Nat
  BY BoundsAssumption DEF Typed, TypeOK
<1>2. Len(keys) + Len(read_buf) <= Len(typed)
  BY DEF Left
<1> QED
  BY <1>1, <1>2 DEF Processed

\* A key that is processed is the next one of the session.
LEMMA KeyTaken ==
  ASSUME Typed, Left, read_buf # <<>>, read_buf' = Tail(read_buf), UNCHANGED <<keys, typed>>
  PROVE  /\ Left' /\ Processed' = Processed + 1
         /\ Processed + 1 \in 1..Len(typed) /\ Head(read_buf) = typed[Processed + 1]
<1>1. /\ typed \in Seq(Keys) /\ Len(typed) \in Nat
      /\ keys \in Seq(Keys) /\ Len(keys) \in Nat
      /\ read_buf \in Seq(Keys) /\ Len(read_buf) \in Nat \ {0}
      /\ Processed \in 0..Len(typed)
      /\ Processed + Len(read_buf) + Len(keys) = Len(typed)
  BY Counts, EmptySeq
<1>2. /\ Len(read_buf') = Len(read_buf) - 1
      /\ \A j \in 1..(Len(read_buf) - 1) : read_buf'[j] = read_buf[j + 1]
      /\ Head(read_buf) = read_buf[1]
  BY <1>1, HeadTailProperties
<1>3. Processed' = Processed + 1 /\ Processed + 1 \in 1..Len(typed)
  BY <1>1, <1>2 DEF Processed
<1>4. Head(read_buf) = typed[Processed + 1]
  BY <1>1, <1>2 DEF Left
<1>5. ASSUME NEW j \in 1..Len(read_buf') PROVE read_buf'[j] = typed'[Processed' + j]
  <2>1. j \in 1..(Len(read_buf) - 1) /\ j + 1 \in 1..Len(read_buf) /\ Processed' + j = Processed + (j + 1)
    BY <1>1, <1>2, <1>3
  <2>2. read_buf[j + 1] = typed[Processed + (j + 1)]
    BY <2>1 DEF Left
  <2> QED
    BY <1>2, <2>1, <2>2
<1>6. ASSUME NEW j \in 1..Len(keys') PROVE keys'[j] = typed'[Processed' + Len(read_buf') + j]
  <2>1. Processed' + Len(read_buf') + j = Processed + Len(read_buf) + j
    BY <1>1, <1>2, <1>3
  <2>2. keys[j] = typed[Processed + Len(read_buf) + j]
    BY DEF Left
  <2> QED
    BY <2>1, <2>2
<1>7. Len(keys') + Len(read_buf') <= Len(typed')
  BY <1>1, <1>2
<1> QED
  BY <1>3, <1>4, <1>5, <1>6, <1>7 DEF Left

\* read() fills an empty read_buf.
LEMMA ReadLeft ==
  ASSUME Typed, Places, Left, ReadKeys
  PROVE  Left' /\ Processed' = Processed
<1>1. PICK n \in 1..READ_SIZE : /\ n <= Len(keys) /\ read_buf' = SubSeq(keys, 1, n)
                                /\ keys' = SubSeq(keys, n + 1, Len(keys))
  BY DEF ReadKeys
<1>2. read_buf = <<>> /\ typed' = typed
  BY DEF ReadKeys, Places, At
<1>3. /\ typed \in Seq(Keys) /\ Len(typed) \in Nat /\ keys \in Seq(Keys) /\ Len(keys) \in Nat
      /\ Len(read_buf) = 0 /\ n \in 0..Len(keys) /\ n \in Nat
      /\ Processed \in 0..Len(typed) /\ Processed + Len(keys) = Len(typed)
  BY <1>1, <1>2, Counts, BoundsAssumption
<1>4. /\ Len(read_buf') = n /\ \A j \in 1..n : read_buf'[j] = keys[j]
      /\ Len(keys') = Len(keys) - n /\ \A j \in 1..(Len(keys) - n) : keys'[j] = keys[n + j]
  BY <1>1, <1>3, PartOf
<1>5. Processed' = Processed
  BY <1>2, <1>3, <1>4 DEF Processed
<1>6. \A j \in 1..Len(keys) : keys[j] = typed[Processed + j]
  <2>1. \A j \in 1..Len(keys) : keys[j] = typed[Processed + Len(read_buf) + j]
    BY DEF Left
  <2> QED
    BY <2>1, <1>3
<1>7. ASSUME NEW j \in 1..Len(read_buf') PROVE read_buf'[j] = typed'[Processed' + j]
  <2>1. j \in 1..n /\ j \in 1..Len(keys)
    BY <1>3, <1>4
  <2> QED
    BY <2>1, <1>2, <1>4, <1>5, <1>6
<1>8. ASSUME NEW j \in 1..Len(keys') PROVE keys'[j] = typed'[Processed' + Len(read_buf') + j]
  <2>1. j \in 1..(Len(keys) - n) /\ n + j \in 1..Len(keys) /\ Processed + n + j = Processed + (n + j)
    BY <1>3, <1>4
  <2> QED
    BY <2>1, <1>2, <1>4, <1>5, <1>6
<1>9. Len(keys') + Len(read_buf') <= Len(typed')
  BY <1>2, <1>3, <1>4
<1> QED
  BY <1>5, <1>7, <1>8, <1>9 DEF Left

\* A step that takes no key and sends nothing.
LEMMA SameKeys ==
  ASSUME UNCHANGED <<typed, keys, read_buf>>, Left
  PROVE  Left' /\ Processed' = Processed
BY DEF Left, Processed

\* The state of the pipe and what went through it, when no key is processed.
LEMMA SamePipe ==
  ASSUME Open, ForwardedInOrder, UNCHANGED <<typed, shell_flag, wr_open>>, Processed' = Processed,
         (got \o to_chld)' = got \o to_chld, pc' = "start" <=> pc = "start"
  PROVE  Open' /\ ForwardedInOrder'
BY DEF Open, ForwardedInOrder, EofSeen

\* A key is echoed and forwarded.
LEMMA KeyStep ==
  ASSUME Typed, Places, Open, Left, ForwardedInOrder, Key
  PROVE  Open' /\ Left' /\ ForwardedInOrder'
<1> USE DEF At, Moves, Exit, EndNow, user, child
<1>1. /\ read_buf # <<>> /\ UNCHANGED <<typed, keys, shell_flag, got>>
      /\ pc = "key" /\ pc' \in {"key", "exit"}
  BY DEF Key, CtrlD, CtrlC, Forward
<1>2. CASE read_buf' = read_buf
  <2>1. UNCHANGED <<wr_open, to_chld>>
    <3>1. Tail(read_buf) # read_buf
      <4>1. read_buf \in Seq(Keys)
        BY DEF Typed, TypeOK
      <4>2. Len(Tail(read_buf)) = Len(read_buf) - 1 /\ Len(read_buf) \in Nat
        BY <1>1, <4>1, HeadTailProperties
      <4> QED
        BY <4>2
    <3> QED
      BY <1>2, <3>1 DEF Key, CtrlD, CtrlC, Forward
  <2>2. Left' /\ Processed' = Processed
    BY <1>1, <1>2, SameKeys
  <2>3. (got \o to_chld)' = got \o to_chld
    BY <1>1, <2>1
  <2> QED
    BY <1>1, <2>1, <2>2, <2>3, SamePipe
<1>3. CASE read_buf' = Tail(read_buf)
  <2> DEFINE c == Head(read_buf)
             n == Processed + 1
  <2>1. Left' /\ Processed' = n /\ n \in 1..Len(typed) /\ c = typed[n] /\ Processed \in 0..Len(typed)
    BY <1>1, <1>3, KeyTaken, Counts
  <2>2. Len(typed) \in Nat /\ Processed \in Nat /\ n - 1 = Processed /\ typed \in Sessions
    BY <2>1, Counts DEF Typed
  <2>3. EofSeen' <=> EofSeen \/ c = "^D"
    <3>1. EofSeen' <=> \E j \in 1..n : typed[j] = "^D"
      BY <1>1, <2>1 DEF EofSeen
    <3>2. \A j \in 1..n : j \in 1..Processed \/ j = n
      BY <2>2
    <3>3. n \in 1..n /\ \A j \in 1..Processed : j \in 1..n
      BY <2>2
    <3> QED
      BY <2>1, <3>1, <3>2, <3>3 DEF EofSeen
  <2>4. Skipped(typed, n) <=> c = "^C" \/ EofSeen'
    BY <1>1, <2>1 DEF Skipped, EofSeen
  <2>5. Sent(typed)[n] = IF Skipped(typed, n) THEN Sent(typed)[Processed]
                         ELSE Append(Sent(typed)[Processed], ToShell(c))
    BY <2>1, <2>2, SentDef
  <2> HIDE DEF c, n
  <2>6. CASE ~shell_flag
    <3>1. ~wr_open'
      BY <1>1, <2>6 DEF Open, Key, CtrlD, CtrlC, Forward
    <3> QED
      BY <1>1, <2>1, <2>6, <3>1 DEF Open, ForwardedInOrder
  <2>7. CASE shell_flag
    <3>1. (wr_open <=> ~EofSeen) /\ got \o to_chld = Sent(typed)[Processed]
      BY <1>1, <2>7 DEF Open, ForwardedInOrder
    <3>2. \/ c = "^D" /\ wr_open' = FALSE /\ to_chld' = to_chld
          \/ c = "^C" /\ wr_open' = wr_open /\ to_chld' = to_chld
          \/ c \notin {"^C", "^D"} /\ ~wr_open /\ wr_open' = wr_open /\ to_chld' = to_chld
          \/ c \notin {"^C", "^D"} /\ wr_open /\ wr_open' = wr_open /\ to_chld' = Append(to_chld, ToShell(c))
      <4>1. Tail(read_buf) # read_buf
        <5>1. read_buf \in Seq(Keys)
          BY DEF Typed, TypeOK
        <5>2. Len(Tail(read_buf)) = Len(read_buf) - 1 /\ Len(read_buf) \in Nat
          BY <1>1, <5>1, HeadTailProperties
        <5> QED
          BY <5>2
      <4> QED
        BY <1>3, <2>7, <4>1 DEF Key, CtrlD, CtrlC, Forward, c
    <3>3. wr_open' <=> ~EofSeen'
      BY <2>3, <3>1, <3>2
    <3>4. CASE Skipped(typed, n)
      <4>1. to_chld' = to_chld
        BY <2>3, <2>4, <3>1, <3>2, <3>4
      <4>2. (got \o to_chld)' = Sent(typed)[n]
        BY <1>1, <2>5, <3>1, <3>4, <4>1
      <4> QED
        BY <1>1, <2>1, <2>7, <3>3, <4>2 DEF Open, ForwardedInOrder
    <3>5. CASE ~Skipped(typed, n)
      <4>1. to_chld' = Append(to_chld, ToShell(c))
        BY <2>3, <2>4, <3>1, <3>2, <3>5
      <4>2. got \in Seq(Keys) /\ to_chld \in Seq(Keys) /\ ToShell(c) \in Keys
        <5>1. c \in Keys
          BY <2>1, Counts, ElementOfSeq
        <5> QED
          BY <5>1, ToShellIs DEF Typed, TypeOK
      <4>3. got \o Append(to_chld, ToShell(c)) = Append(got \o to_chld, ToShell(c))
        BY <4>2
      <4>4. (got \o to_chld)' = Sent(typed)[n]
        BY <1>1, <2>5, <3>1, <3>5, <4>1, <4>3
      <4> QED
        BY <1>1, <2>1, <2>7, <3>3, <4>4 DEF Open, ForwardedInOrder
    <3> QED
      BY <3>4, <3>5
  <2> QED
    BY <2>6, <2>7
<1> QED
  BY <1>2, <1>3 DEF Key, CtrlD, CtrlC, Forward

\* Every step forwards what it should, and nothing else.
LEMMA ForwardStep ==
  ASSUME Typed, Places, Open, Left, ForwardedInOrder, [Next]_vars
  PROVE  Open' /\ Left' /\ ForwardedInOrder'
<1> USE DEF At, Moves, Exit, EndNow, user, child, control, Terminal
<1>1. CASE get_opts
  <2>1. /\ UNCHANGED <<typed, keys, read_buf, got, to_chld, wr_open>> /\ keys = typed /\ read_buf = <<>>
        /\ got = <<>> /\ to_chld = <<>> /\ ~wr_open
        /\ shell_flag' => pc' = "start"
    BY <1>1 DEF get_opts, Places, Open
  <2>2. Left' /\ Processed' = Processed /\ Processed = 0 /\ Sent(typed)[0] = <<>>
    <3>1. Len(read_buf) = 0 /\ Len(keys) = Len(typed) /\ Len(typed) \in Nat /\ typed \in Sessions
      BY <2>1, Counts DEF Typed
    <3>2. Left' /\ Processed' = Processed
      BY <2>1, SameKeys
    <3> QED
      BY <3>1, <3>2, SentDef DEF Processed
  <2>3. got \o to_chld = <<>>
    BY <2>1
  <2> QED
    BY <2>1, <2>2, <2>3 DEF Open, ForwardedInOrder
<1>2. CASE start_shell
  <2>1. /\ UNCHANGED <<typed, keys, read_buf, got, to_chld, shell_flag>> /\ keys = typed /\ read_buf = <<>>
        /\ wr_open'
    BY <1>2 DEF start_shell, Places
  <2>2. Left' /\ Processed' = Processed /\ Processed = 0
    <3>1. Len(read_buf) = 0 /\ Len(keys) = Len(typed) /\ Len(typed) \in Nat
      BY <2>1, Counts
    <3>2. Left' /\ Processed' = Processed
      BY <2>1, SameKeys
    <3> QED
      BY <3>1, <3>2 DEF Processed
  <2>3. ~EofSeen'
    BY <2>2 DEF EofSeen
  <2>4. shell_flag
    BY <1>2 DEF start_shell, Places
  <2> QED
    BY <2>1, <2>2, <2>3, <2>4 DEF Open, ForwardedInOrder
<1>3. CASE tty_config
  BY <1>3, SameKeys, SamePipe DEF Typed, tty_config
<1>4. CASE Poll
  BY <1>4, SameKeys, SamePipe DEF Typed, Poll
<1>5. CASE ReadKeys
  BY <1>5, ReadLeft, SamePipe DEF ReadKeys
<1>6. CASE Key
  BY <1>6, KeyStep
<1>7. CASE KeysDone
  BY <1>7, SameKeys, SamePipe DEF Typed, KeysDone
<1>8. CASE ShellOutput
  BY <1>8, SameKeys, SamePipe DEF Typed, ShellOutput
<1>9. CASE Wait
  BY <1>9, SameKeys, SamePipe DEF Typed, Wait
<1>10. CASE Restore
  BY <1>10, SameKeys, SamePipe DEF Typed, Restore
<1>11. CASE StartFails
  BY <1>11, SameKeys, SamePipe DEF Typed, StartFails
<1>12. CASE IoError
  BY <1>12, SameKeys, SamePipe DEF Typed, IoError
<1>13. CASE Hangup
  BY <1>13, SameKeys, SamePipe DEF Typed, Hangup
<1>14. CASE ShellReads /\ UNCHANGED Terminal
  <2>1. to_chld \in Seq(Keys) /\ to_chld # <<>> /\ got \in Seq(Keys)
    BY <1>14 DEF ShellReads, Typed, TypeOK
  <2>2. Append(got, Head(to_chld)) \o Tail(to_chld) = got \o to_chld
    BY <2>1
  <2>3. (got \o to_chld)' = got \o to_chld /\ UNCHANGED <<typed, keys, read_buf, shell_flag, wr_open, pc>>
    BY <1>14, <2>2 DEF ShellReads
  <2> QED
    BY <2>3, SameKeys, SamePipe
<1>15. CASE ShellEof /\ UNCHANGED Terminal
  BY <1>15, SameKeys, SamePipe DEF Typed, ShellEof
<1>16. CASE ShellWrites /\ UNCHANGED Terminal
  BY <1>16, SameKeys, SamePipe DEF Typed, ShellWrites
<1>17. CASE ShellStartsWrite /\ UNCHANGED Terminal
  BY <1>17, SameKeys, SamePipe DEF Typed, ShellStartsWrite
<1>18. CASE ShellExits /\ UNCHANGED Terminal
  BY <1>18, SameKeys, SamePipe DEF Typed, ShellExits
<1>19. CASE UNCHANGED vars
  BY <1>19, SameKeys, SamePipe DEF Typed, vars
<1> QED
  BY <1>1, <1>2, <1>3, <1>4, <1>5, <1>6, <1>7, <1>8, <1>9, <1>10,
     <1>11, <1>12, <1>13, <1>14, <1>15, <1>16, <1>17, <1>18, <1>19
  DEF Next, Main, ShellMust, ShellMay, Faults, Idle

-----------------------------------------------------------------------------
\* From the shell to the display

\* A step that changes neither the streams nor the side of exit() main() is on.
LEMMA SameOutput ==
  ASSUME Output, UNCHANGED <<shown, written, to_par>>,
         pc' \notin {"exit", "restore"} => pc \notin {"exit", "restore"}
  PROVE  Output'
BY DEF Output

\* The shell writes a character.
LEMMA WriteOutput ==
  ASSUME Typed, Output, ShellWrites, UNCHANGED <<shown, pc>>
  PROVE  Output'
<1>1. /\ to_par \in Seq(ShellChars) /\ Len(to_par) \in Nat /\ pending \in ShellChars
      /\ written \in Seq(ShellChars) /\ Len(written) \in Nat
      /\ shown \in Seq(ShellChars) /\ Len(shown) \in Nat
  BY DEF Typed, TypeOK, ShellWrites
<1>2. /\ Len(to_par') = Len(to_par) + 1 /\ to_par'[Len(to_par) + 1] = pending
      /\ \A j \in 1..Len(to_par) : to_par'[j] = to_par[j]
      /\ Len(written') = Len(written) + 1 /\ written'[Len(written) + 1] = pending
      /\ \A j \in 1..Len(written) : written'[j] = written[j]
  BY <1>1, AppendProperties DEF ShellWrites
<1>3. Len(shown) <= Len(written) /\ \A j \in 1..Len(shown) : shown[j] = written[j]
  BY DEF Output
<1>4. Len(shown') <= Len(written') /\ \A j \in 1..Len(shown') : shown'[j] = written'[j]
  <2>1. \A j \in 1..Len(shown) : j \in 1..Len(written)
    BY <1>1, <1>3
  <2> QED
    BY <1>1, <1>2, <1>3, <2>1
<1>5. ASSUME pc' \notin {"exit", "restore"}
      PROVE  /\ Len(written') = Len(shown') + Len(to_par')
             /\ \A j \in 1..Len(to_par') : to_par'[j] = written'[Len(shown') + j]
  <2>1. /\ Len(written) = Len(shown) + Len(to_par)
        /\ \A j \in 1..Len(to_par) : to_par[j] = written[Len(shown) + j]
    BY <1>5 DEF Output
  <2>2. Len(written') = Len(shown') + Len(to_par')
    BY <1>1, <1>2, <2>1
  <2>3. ASSUME NEW j \in 1..Len(to_par') PROVE to_par'[j] = written'[Len(shown') + j]
    <3>1. CASE j \in 1..Len(to_par)
      <4>1. Len(shown) + j \in 1..Len(written)
        BY <1>1, <2>1, <3>1
      <4> QED
        BY <1>2, <2>1, <3>1, <4>1
    <3>2. CASE j = Len(to_par) + 1
      <4>1. Len(shown) + j = Len(written) + 1
        BY <1>1, <2>1, <3>2
      <4> QED
        BY <1>2, <3>2, <4>1
    <3>3. j \in 1..Len(to_par) \/ j = Len(to_par) + 1
      BY <1>1, <1>2
    <3> QED
      BY <3>1, <3>2, <3>3
  <2> QED
    BY <2>2, <2>3
<1> QED
  BY <1>4, <1>5 DEF Output

\* read_pipe() displays a part of what is in the pipe; all of what it takes unless it
\* goes on to exit().
LEMMA DisplayOutput ==
  ASSUME Typed, Output, ShellOutput
  PROVE  Output'
<1> USE DEF At, Moves, Exit
<1>1. pc = "pipe" /\ written' = written
  BY DEF ShellOutput
<1>2. CASE UNCHANGED <<to_par, shown>>
  BY <1>1, <1>2, SameOutput
<1>3. CASE /\ to_par' = SubSeq(to_par, Len(Chunk) + 1, Len(to_par))
           /\ shown' = shown \o UpToEof(Chunk)
           /\ Contains(Chunk, "^D") => pc' = "exit"
  <2>1. /\ to_par \in Seq(ShellChars) /\ Len(to_par) \in Nat
        /\ written \in Seq(ShellChars) /\ Len(written) \in Nat
        /\ shown \in Seq(ShellChars) /\ Len(shown) \in Nat
    BY DEF Typed, TypeOK
  <2>2. PICK m \in 0..Len(Chunk) : /\ UpToEof(Chunk) = SubSeq(to_par, 1, m)
                                   /\ ~Contains(Chunk, "^D") => m = Len(Chunk)
    BY ChunkIs DEF Typed
  <2>3. PICK k \in 0..Len(to_par) : k = Len(Chunk)
    BY ChunkIs DEF Typed
  <2>4. m \in 0..Len(to_par) /\ m <= k /\ m \in Nat /\ k \in Nat /\ m <= Len(to_par)
    BY <2>1, <2>2, <2>3
  <2>5. /\ Len(written) = Len(shown) + Len(to_par)
        /\ \A j \in 1..Len(to_par) : to_par[j] = written[Len(shown) + j]
        /\ \A j \in 1..Len(shown) : shown[j] = written[j]
    BY <1>1 DEF Output
  <2>6. PICK u \in Seq(ShellChars) : u = UpToEof(Chunk) /\ Len(u) = m /\ \A j \in 1..m : u[j] = to_par[j]
    <3>1. /\ SubSeq(to_par, 1, m) \in Seq(ShellChars) /\ Len(SubSeq(to_par, 1, m)) = m
          /\ \A j \in 1..m : SubSeq(to_par, 1, m)[j] = to_par[j]
      BY <2>1, <2>4, PartOf
    <3> QED
      BY <2>2, <3>1
  <2>7. /\ Len(to_par') = Len(to_par) - k
        /\ \A j \in 1..(Len(to_par) - k) : to_par'[j] = to_par[k + j]
    BY <1>3, <2>1, <2>3, PartOf
  <2>8. /\ Len(shown') = Len(shown) + m
        /\ \A j \in 1..(Len(shown) + m) :
             shown'[j] = IF j <= Len(shown) THEN shown[j] ELSE u[j - Len(shown)]
    BY <1>3, <2>1, <2>6, ConcatProperties
  <2>9. ASSUME NEW j \in 1..Len(shown') PROVE shown'[j] = written'[j]
    <3>1. CASE j <= Len(shown)
      <4>1. j \in 1..Len(shown) /\ j \in 1..(Len(shown) + m)
        BY <2>1, <2>4, <2>8, <3>1
      <4> QED
        BY <1>1, <2>5, <2>8, <3>1, <4>1
    <3>2. CASE ~(j <= Len(shown))
      <4>1. /\ j - Len(shown) \in 1..m /\ j - Len(shown) \in 1..Len(to_par)
            /\ Len(shown) + (j - Len(shown)) = j /\ j \in 1..(Len(shown) + m)
        <5>1. j \in Nat /\ j > Len(shown) /\ j <= Len(shown) + m
          BY <2>1, <2>4, <2>8, <3>2
        <5> QED
          BY <2>1, <2>4, <5>1
      <4>2. shown'[j] = to_par[j - Len(shown)]
        BY <2>6, <2>8, <3>2, <4>1
      <4>3. to_par[j - Len(shown)] = written[j]
        BY <2>5, <4>1
      <4> QED
        BY <1>1, <4>2, <4>3
    <3> QED
      BY <3>1, <3>2
  <2>10. Len(shown') <= Len(written')
    BY <1>1, <2>1, <2>4, <2>5, <2>8
  <2>11. ASSUME pc' \notin {"exit", "restore"}
         PROVE  /\ Len(written') = Len(shown') + Len(to_par')
                /\ \A j \in 1..Len(to_par') : to_par'[j] = written'[Len(shown') + j]
    <3>1. m = k
      BY <1>3, <2>2, <2>3, <2>11
    <3>2. Len(written') = Len(shown') + Len(to_par')
      BY <1>1, <2>1, <2>4, <2>5, <2>7, <2>8, <3>1
    <3>3. ASSUME NEW j \in 1..Len(to_par') PROVE to_par'[j] = written'[Len(shown') + j]
      <4>1. /\ j \in 1..(Len(to_par) - k) /\ k + j \in 1..Len(to_par)
            /\ Len(shown) + (k + j) = Len(shown') + j
        BY <2>1, <2>4, <2>7, <2>8, <3>1
      <4>2. to_par[k + j] = written[Len(shown) + (k + j)]
        BY <2>5, <4>1
      <4> QED
        BY <1>1, <2>7, <4>1, <4>2
    <3> QED
      BY <3>2, <3>3
  <2> QED
    BY <2>9, <2>10, <2>11 DEF Output
<1> QED
  BY <1>2, <1>3 DEF ShellOutput

\* Every step displays what it takes from the pipe.
LEMMA OutputStep ==
  ASSUME Typed, Output, [Next]_vars
  PROVE  Output'
<1> USE DEF At, Moves, Exit, EndNow, user, child, control, Terminal
<1>1. CASE get_opts
  BY <1>1, SameOutput DEF Typed, get_opts
<1>2. CASE start_shell
  BY <1>2, SameOutput DEF Typed, start_shell
<1>3. CASE tty_config
  BY <1>3, SameOutput DEF Typed, tty_config
<1>4. CASE Poll
  BY <1>4, SameOutput DEF Typed, Poll
<1>5. CASE ReadKeys
  BY <1>5, SameOutput DEF Typed, ReadKeys
<1>6. CASE Key
  BY <1>6, SameOutput DEF Key, CtrlD, CtrlC, Forward
<1>7. CASE KeysDone
  BY <1>7, SameOutput DEF Typed, KeysDone
<1>8. CASE ShellOutput
  BY <1>8, DisplayOutput
<1>9. CASE Wait
  BY <1>9, SameOutput DEF Typed, Wait
<1>10. CASE Restore
  BY <1>10, SameOutput DEF Typed, Restore
<1>11. CASE StartFails
  BY <1>11, SameOutput DEF Typed, StartFails
<1>12. CASE IoError
  BY <1>12, SameOutput DEF Typed, IoError
<1>13. CASE Hangup
  BY <1>13, SameOutput DEF Typed, Hangup
<1>14. CASE ShellReads /\ UNCHANGED Terminal
  BY <1>14, SameOutput DEF Typed, ShellReads
<1>15. CASE ShellEof /\ UNCHANGED Terminal
  BY <1>15, SameOutput DEF Typed, ShellEof
<1>16. CASE ShellWrites /\ UNCHANGED Terminal
  BY <1>16, WriteOutput
<1>17. CASE ShellStartsWrite /\ UNCHANGED Terminal
  BY <1>17, SameOutput DEF Typed, ShellStartsWrite
<1>18. CASE ShellExits /\ UNCHANGED Terminal
  BY <1>18, SameOutput DEF Typed, ShellExits
<1>19. CASE UNCHANGED vars
  BY <1>19, SameOutput DEF Typed, vars
<1> QED
  BY <1>1, <1>2, <1>3, <1>4, <1>5, <1>6, <1>7, <1>8, <1>9, <1>10,
     <1>11, <1>12, <1>13, <1>14, <1>15, <1>16, <1>17, <1>18, <1>19
  DEF Next, Main, ShellMust, ShellMay, Faults, Idle

-----------------------------------------------------------------------------
\* The invariant holds at the start.
LEMMA InitInv == Init => IInv
<1> SUFFICES ASSUME Init PROVE IInv
  OBVIOUS
<1> USE DEF Init
<1>1. typed \in Seq(Keys) /\ Len(typed) \in Nat /\ typed \in Sessions /\ keys = typed
  BY BoundsAssumption
<1>2. Typed
  <2>1. /\ Len(read_buf) <= READ_SIZE /\ Len(to_chld) <= PIPE_CAP /\ Len(to_par) <= PIPE_CAP
        /\ got \in Seq(Keys) /\ written \in Seq(ShellChars) /\ shown \in Seq(ShellChars)
        /\ keys \in Seq(Keys) /\ read_buf \in Seq(Keys) /\ to_chld \in Seq(Keys)
        /\ to_par \in Seq(ShellChars)
    BY <1>1, BoundsAssumption
  <2>2. revents \in [kin : BOOLEAN, khup : BOOLEAN, pin : BOOLEAN, phup : BOOLEAN]
    BY DEF NoEvents
  <2>3. /\ shell_flag \in BOOLEAN /\ calm \in BOOLEAN /\ hup \in BOOLEAN /\ wr_open \in BOOLEAN
        /\ tty \in {"canon", "raw"} /\ shell \in {None, "running", "zombie", "reaped"}
        /\ pending \in ShellChars \cup {None} /\ code \in {0, 1} /\ status \in {Running, 0, 1, SigInt}
        /\ pc \in {"opts", "start", "tty", "poll", "read", "key", "pipe", "exit", "restore"}
    OBVIOUS
  <2> HIDE DEF Init
  <2> QED
    BY <1>1, <2>1, <2>2, <2>3 DEF Typed, TypeOK
<1>3. Processed = 0
  <2>1. Len(keys) = Len(typed) /\ Len(read_buf) = 0
    BY <1>1
  <2> HIDE DEF Init
  <2> QED
    BY <1>1, <2>1 DEF Processed
<1>4. Left
  BY <1>1, <1>3 DEF Left
<1>5. Places /\ Open /\ ForwardedInOrder /\ Restoring
  BY DEF Places, Open, ForwardedInOrder, Restoring, RestoredAtExit, Running
<1>6. Output
  BY DEF Output
<1> QED
  BY <1>2, <1>4, <1>5, <1>6 DEF IInv

\* Every behaviour keeps the inductive invariant.
LEMMA Inductive == Spec => []IInv
<1>1. IInv /\ [Next]_vars => IInv'
  BY TypedStep, PlacesStep, ForwardStep, OutputStep, RestoringStep DEF IInv
<1> QED
  BY <1>1, InitInv, PTL DEF Spec

\* For any session, any output of the shell and any sizes, neither direction of lab1a.c
\* loses, repeats or reorders a character, and no buffer or pipe overflows.
THEOREM StreamsAreIntact == Spec => []StreamsIntact
<1>1. IInv => StreamsIntact
  <2> SUFFICES ASSUME IInv PROVE OutputShown
    BY DEF IInv, Typed, StreamsIntact
  <2>1. /\ to_par \in Seq(ShellChars) /\ Len(to_par) \in Nat
        /\ written \in Seq(ShellChars) /\ Len(written) \in Nat
        /\ shown \in Seq(ShellChars) /\ Len(shown) \in Nat
    BY DEF IInv, Typed, TypeOK
  <2>2. Len(shown) <= Len(written) /\ \A j \in 1..Len(shown) : shown[j] = written[j]
    BY DEF IInv, Output
  <2>3. CASE pc \in {"exit", "restore"}
    <3>1. Len(shown) \in 0..Len(written)
      BY <2>1, <2>2
    <3>2. /\ SubSeq(written, 1, Len(shown)) \in Seq(ShellChars)
          /\ Len(SubSeq(written, 1, Len(shown))) = Len(shown)
          /\ \A j \in 1..Len(shown) : SubSeq(written, 1, Len(shown))[j] = written[j]
      BY <2>1, <3>1, PartOf
    <3>3. SubSeq(written, 1, Len(shown)) = shown
      BY <2>1, <2>2, <3>2, SeqEqual
    <3>4. SubSeq(shown, 1, Len(shown)) = shown
      BY <2>1, SubSeqFull
    <3> QED
      BY <2>2, <2>3, <3>3, <3>4 DEF OutputShown, IsPrefix
  <2>4. CASE pc \notin {"exit", "restore"}
    <3>1. /\ Len(written) = Len(shown) + Len(to_par)
          /\ \A j \in 1..Len(to_par) : to_par[j] = written[Len(shown) + j]
      BY <2>4 DEF IInv, Output
    <3>2. PICK w \in Seq(ShellChars) : w = shown \o to_par
      <4>1. shown \o to_par \in Seq(ShellChars)
        BY <2>1, ConcatProperties
      <4> QED
        BY <4>1
    <3>3. /\ Len(w) = Len(shown) + Len(to_par)
          /\ \A j \in 1..(Len(shown) + Len(to_par)) :
               w[j] = IF j <= Len(shown) THEN shown[j] ELSE to_par[j - Len(shown)]
      BY <2>1, <3>2, ConcatProperties
    <3>4. ASSUME NEW j \in 1..Len(written) PROVE written[j] = w[j]
      <4>1. CASE j <= Len(shown)
        BY <2>1, <2>2, <3>1, <3>3, <4>1
      <4>2. CASE ~(j <= Len(shown))
        <5>1. j - Len(shown) \in 1..Len(to_par) /\ Len(shown) + (j - Len(shown)) = j
          BY <2>1, <3>1, <4>2
        <5> QED
          BY <3>1, <3>3, <4>2, <5>1
      <4> QED
        BY <4>1, <4>2
    <3>5. written = w
      BY <2>1, <3>1, <3>3, <3>4, SeqEqual
    <3> QED
      BY <2>4, <3>2, <3>5 DEF OutputShown
  <2> QED
    BY <2>3, <2>4
<1> QED
  BY <1>1, Inductive, PTL

\* However exit() is reached, by a key, the shell's end, SIGPIPE or an error, the
\* process has waited for its shell and given the terminal back when it ends.
THEOREM RestoredWhenItExits == Spec => []RestoredAtExit
<1>1. IInv => RestoredAtExit
  BY DEF IInv, Restoring
<1> QED
  BY <1>1, Inductive, PTL
=============================================================================
