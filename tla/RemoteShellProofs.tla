--------------------------- MODULE RemoteShellProofs ---------------------------
(***************************************************************************)
(* Proofs about RemoteShell, for any keys, any output of the shell and any *)
(* sizes of the pipes and buffers.                                         *)
(***************************************************************************)
EXTENDS RemoteShell, WellFoundedInduction, SequenceTheorems, TLAPS

-----------------------------------------------------------------------------
\* The inductive invariant, part by part.

K    == scenario.keys
Logs == Seq(Chars \cup {"sp"})
Buffers == [capacity : Nat, avaliable : Int, data : Logs]

ClientTyped ==
  /\ c_pc \in {"connect", "tty", "poll", "read", "key", "sock", "inflate", "exit"}
  /\ c_code \in {0, 1} /\ c_status \in {Running, 0, 1, SigPipe, SigAbrt}
  /\ tty \in {"user", "raw", "zeroed"} /\ original_settings \in {"user", "zeroed"}
  /\ keys \in Seq(Keys) /\ c_buf \in Seq(Keys) /\ Len(c_buf) <= read_len
  /\ read_len \in 0..READ_SIZE
  /\ sent_buf \in Buffers /\ recv_buf \in Buffers /\ shown \in Seq(Chars)

NetTyped == up \in Seq(Chars) /\ down \in Seq(Chars)

ServerTyped ==
  /\ s_pc \in {"bind", "accept", "poll", "sock", "inflate", "key", "pipe", "store", "hup",
               "exit"}
  /\ s_status \in {Running, 1, SigPipe}
  /\ s_buf \in Seq(Chars) /\ s_out \in Seq(Chars) /\ stored \in 0..Len(s_out)
  /\ kerntosock \in 0..PIPE_CAP

ChildTyped ==
  /\ shell \in {None, "running", "zombie", "reaped"} /\ pending \in {None} \cup Chars
  /\ to_chld \in Seq(Chars) /\ Len(to_chld) <= PIPE_CAP
  /\ to_par \in Seq(Chars) /\ Len(to_par) <= PIPE_CAP
  /\ got \in Seq(Chars) /\ written \in Seq(Chars)

Typed == scenario \in Scenarios /\ ClientTyped /\ NetTyped /\ ServerTyped /\ ChildTyped

\* The terminal's modes are saved before they are changed, and put back by shutdown_client().
Modes ==
  /\ c_pc = "connect" => tty = "user" /\ original_settings = "zeroed" /\ ~connected
                         /\ c_status = Running
  /\ c_pc = "tty" => tty = "user" /\ connected /\ c_status = Running
  /\ c_pc \notin {"connect", "tty", "exit"} =>
       original_settings = "user" /\ connected /\ c_status \notin {0, 1}
  /\ c_pc = "exit" => /\ ~connected => original_settings = "zeroed"
                      /\ original_settings = "zeroed" => tty # "raw"
                      /\ c_status \in {0, 1} =>
                           tty # "raw" /\ (original_settings = "user" => tty = "user")

\* Which buffers are in use where, and who is gone when a reset has come.
Places ==
  /\ c_pc # "key" => c_buf = <<>>
  /\ s_pc \notin {"key", "exit", "inflate"} => s_buf = <<>>
  /\ s_pc # "store" => s_out = <<>>
  /\ s_pc \in {"bind", "accept"} => shell = None /\ got = <<>> /\ to_chld = <<>>
  /\ c_rst => SrvClosed
  /\ s_rst => CliClosed

\* The keys the client has read, and those it has not, are those typed.
Handled == Len(K) - (Len(c_buf) + Len(keys))
KeysLeft == /\ Handled \in 0..Len(K)
            /\ c_buf \o keys = SubSeq(K, Handled + 1, Len(K))

Past == Len(K) - Len(OnTheWay)
EofSeen == \E j \in 1..Past : K[j] = "^D"
Here == got \o to_chld

\* The pipe to the shell is open from exec_prgm() to the first ^D.
Open == ~scenario.compress /\ ~c_rst =>
          IF s_pc \in {"bind", "accept"} THEN Past = 0 ELSE wr_open <=> ~EofSeen

COk == c_status = Running /\ c_pc \notin {"exit", "inflate"}
SOk == s_status = Running /\ s_pc # "exit"

\* What has been displayed, and what is on its way to the display, is what was written.
Output ==
  /\ \E r \in Seq(Chars) : written = shown \o r
  /\ COk => \E r \in Seq(Chars) : written = (shown \o down) \o r
  /\ COk /\ SOk => written = ((shown \o down) \o s_out) \o to_par

\* A text with a space for every end of a line.
Spaced(s) == [j \in DOMAIN s |-> NoNewline(s[j])]

LogOK ==
  scenario.log /\ ~scenario.compress /\ c_status \in {Running, 0, 1} =>
    /\ sent_buf.data = [j \in 1..Handled |-> NoNewline(K[j])]
    /\ c_status = Running => \E r \in Seq(Chars) : recv_buf.data = shown \o r
    /\ c_status # Running => \E r \in Seq(Chars) : recv_buf.data = Spaced(shown \o r)
    /\ c_status = Running /\ c_pc # "exit" => recv_buf.data = shown

IInv == Typed /\ Modes /\ Places /\ KeysLeft /\ Open /\ KeysInOrder /\ Output /\ LogOK

-----------------------------------------------------------------------------
\* Sequences

\* A set of naturals has a least element: what the induction below rests on.
LEMMA Least ==
  ASSUME NEW T \in SUBSET Nat, T # {}
  PROVE  \E x \in T : \A y \in T : x <= y
<1>1. PICK x \in T : \A y \in T : ~ (<<y, x>> \in OpToRel(<, Nat))
  BY WFMin, NatLessThanWellFounded
<1>2. \A y \in T : ~(y < x)
  BY <1>1 DEF OpToRel
<1> QED
  BY <1>2

\* A part of a sequence from its start, and what follows it.
LEMMA PartOf ==
  ASSUME NEW S, NEW s \in Seq(S), NEW m \in 0..Len(s)
  PROVE  /\ SubSeq(s, 1, m) \in Seq(S) /\ Len(SubSeq(s, 1, m)) = m
         /\ \A j \in 1..m : SubSeq(s, 1, m)[j] = s[j]
         /\ SubSeq(s, m + 1, Len(s)) \in Seq(S) /\ Len(SubSeq(s, m + 1, Len(s))) = Len(s) - m
         /\ \A j \in 1..(Len(s) - m) : SubSeq(s, m + 1, Len(s))[j] = s[m + j]
<1>0. Len(s) \in Nat /\ m \in Nat /\ m <= Len(s)
  OBVIOUS
<1>1. /\ SubSeq(s, 1, m) \in Seq(S) /\ Len(SubSeq(s, 1, m)) = m
      /\ \A j \in 1..m : SubSeq(s, 1, m)[j] = s[j]
  BY <1>0
<1>2. /\ SubSeq(s, m + 1, Len(s)) \in Seq(S) /\ Len(SubSeq(s, m + 1, Len(s))) = Len(s) - m
      /\ \A j \in 1..(Len(s) - m) : SubSeq(s, m + 1, Len(s))[j] = s[m + j]
  BY <1>0
<1> QED
  BY <1>1, <1>2

\* What is displayed of a chunk is a part of it from its start, all of it if there
\* is no ^D in it.
LEMMA UpToEofIs ==
  ASSUME NEW S, NEW s \in Seq(S)
  PROVE  \E m \in 0..Len(s) : /\ UpToEof(s) = SubSeq(s, 1, m)
                              /\ ~Contains(s, "^D") => m = Len(s)
<1>0. Len(s) \in Nat
  OBVIOUS
<1>1. CASE ~Contains(s, "^D")
  <2>1. UpToEof(s) = SubSeq(s, 1, Len(s))
    BY <1>1, SubSeqFull DEF UpToEof
  <2> QED
    BY <1>0, <2>1
<1>2. CASE Contains(s, "^D")
  <2> DEFINE I == {j \in 1..Len(s) : s[j] = "^D"}
  <2>1. I # {} /\ I \in SUBSET Nat
    BY <1>0, <1>2 DEF Contains
  <2>2. \E x \in I : \A y \in I : x <= y
    BY <2>1, Least
  <2>3. Min(I) \in I
    <3> HIDE DEF I
    <3> QED
      BY <2>2 DEF Min
  <2>4. SelectInSeq(s, LAMBDA c : c = "^D") = Min(I)
    BY <2>1 DEF SelectInSeq
  <2>5. Min(I) - 1 \in 0..Len(s)
    BY <1>0, <2>3
  <2> HIDE DEF I
  <2>6. UpToEof(s) = SubSeq(s, 1, Min(I) - 1)
    BY <1>2, <2>4 DEF UpToEof
  <2> QED
    BY <1>2, <2>5, <2>6
<1> QED
  BY <1>1, <1>2

\* Sequences put together: in any grouping, with the empty one, with one element more.
LEMMA Joining ==
  ASSUME NEW S, NEW a \in Seq(S), NEW b \in Seq(S), NEW c \in Seq(S)
  PROVE  a \o b \in Seq(S) /\ (a \o b) \o c = a \o (b \o c)
<1>1. a \o b \in Seq(S)
  OBVIOUS
<1>2. (a \o b) \o c = a \o (b \o c)
  OBVIOUS
<1> QED
  BY <1>1, <1>2

\* The empty sequence adds nothing.
LEMMA JoiningNone ==
  ASSUME NEW S, NEW a \in Seq(S)
  PROVE  a \o <<>> = a /\ <<>> \o a = a
  OBVIOUS

\* An element added to the second of two sequences.
LEMMA JoiningOne ==
  ASSUME NEW S, NEW a \in Seq(S), NEW b \in Seq(S), NEW x \in S
  PROVE  a \o Append(b, x) = Append(a \o b, x) /\ Append(b, x) \in Seq(S)
  OBVIOUS

\* Two texts, one after the other.
Text(a)   == a \in Seq(Chars)
Cat(a, b) == a \o b

\* Texts can be put together in any grouping.
LEMMA CatAssoc ==
  ASSUME NEW a, NEW b, NEW c, Text(a), Text(b), Text(c)
  PROVE  Cat(Cat(a, b), c) = Cat(a, Cat(b, c))
  BY DEF Text, Cat

\* Texts put together are a text.
LEMMA CatText ==
  ASSUME NEW a, NEW b, Text(a), Text(b)
  PROVE  Text(Cat(a, b))
  BY DEF Text, Cat

\* Five texts in two groupings: the part displayed of what was received moves to what is shown.
LEMMA CatFive ==
  ASSUME NEW a, NEW b, NEW c, NEW d, NEW e, Text(a), Text(b), Text(c), Text(d), Text(e)
  PROVE  Cat(Cat(a, Cat(Cat(b, c), d)), e) = Cat(Cat(a, b), Cat(c, Cat(d, e)))
<1>1. Text(Cat(b, c)) /\ Text(Cat(d, e)) /\ Text(Cat(a, b))
  BY CatText
<1>2. Cat(a, Cat(Cat(b, c), d)) = Cat(Cat(a, Cat(b, c)), d)
  BY <1>1, CatAssoc
<1>3. Cat(a, Cat(b, c)) = Cat(Cat(a, b), c)
  BY CatAssoc
<1>4. Text(Cat(Cat(a, b), c))
  BY <1>1, CatText
<1>5. Cat(Cat(Cat(Cat(a, b), c), d), e) = Cat(Cat(Cat(a, b), c), Cat(d, e))
  BY <1>4, CatAssoc
<1>6. Cat(Cat(Cat(a, b), c), Cat(d, e)) = Cat(Cat(a, b), Cat(c, Cat(d, e)))
  BY <1>1, CatAssoc
<1> QED
  BY <1>2, <1>3, <1>5, <1>6

\* A sequence is its first m elements and the others.
LEMMA Splitting ==
  ASSUME NEW S, NEW s \in Seq(S), NEW m \in 0..Len(s)
  PROVE  /\ SubSeq(s, 1, m) \in Seq(S) /\ SubSeq(s, m + 1, Len(s)) \in Seq(S)
         /\ SubSeq(s, 1, m) \o SubSeq(s, m + 1, Len(s)) = s
         /\ Len(SubSeq(s, 1, m)) = m /\ Len(SubSeq(s, m + 1, Len(s))) = Len(s) - m
<1> DEFINE a == SubSeq(s, 1, m)
           b == SubSeq(s, m + 1, Len(s))
<1>1. /\ a \in Seq(S) /\ Len(a) = m /\ \A j \in 1..m : a[j] = s[j]
      /\ b \in Seq(S) /\ Len(b) = Len(s) - m /\ \A j \in 1..(Len(s) - m) : b[j] = s[m + j]
  BY PartOf
<1>2. m \in Nat /\ Len(s) \in Nat /\ m <= Len(s)
  OBVIOUS
<1> HIDE DEF a, b
<1>3. /\ a \o b \in Seq(S) /\ Len(a \o b) = Len(a) + Len(b)
      /\ \A j \in 1..(Len(a) + Len(b)) : (a \o b)[j] = IF j <= Len(a) THEN a[j] ELSE b[j - Len(a)]
  BY <1>1, ConcatProperties
<1>4. ASSUME NEW j \in 1..Len(s) PROVE (a \o b)[j] = s[j]
  <2>1. CASE j <= m
    BY <1>1, <1>2, <1>3, <2>1
  <2>2. CASE ~(j <= m)
    <3>1. j - m \in 1..(Len(s) - m) /\ m + (j - m) = j
      BY <1>2, <2>2
    <3> QED
      BY <1>1, <1>2, <1>3, <2>2, <3>1
  <2> QED
    BY <2>1, <2>2
<1>5. Len(a \o b) = Len(s)
  BY <1>1, <1>2, <1>3
<1>6. a \o b = s
  BY <1>3, <1>4, <1>5, SeqEqual
<1> QED
  BY <1>1, <1>6 DEF a, b

\* The first element, and the others.
LEMMA Taking ==
  ASSUME NEW S, NEW s \in Seq(S), s # <<>>
  PROVE  /\ Head(s) \in S /\ Tail(s) \in Seq(S) /\ s = <<Head(s)>> \o Tail(s)
         /\ Len(s) \in Nat \ {0} /\ Len(Tail(s)) = Len(s) - 1 /\ Head(s) = s[1]
  OBVIOUS

\* What is logged is added at the end of the buffer.
LEMMA LoggedIs ==
  ASSUME NEW buf \in Buffers, NEW s \in Logs
  PROVE  /\ Logged(buf, s) \in Buffers
         /\ scenario.log => Logged(buf, s).data = buf.data \o s
<1>1. buf.capacity \in Nat /\ buf.data \in Logs /\ buf.avaliable \in Int
  BY DEF Buffers
<1>2. grow_buffer(buf) \in Buffers /\ grow_buffer(buf).data = buf.data
  <2> DEFINE c == 2 * buf.capacity
             v == 2 * buf.capacity - Len(buf.data)
  <2>1. c \in Nat /\ v \in Int
    BY <1>1 DEF Logs
  <2>2. grow_buffer(buf) = [buf EXCEPT !.capacity = c, !.avaliable = v]
    BY DEF grow_buffer
  <2> HIDE DEF c, v
  <2> QED
    BY <2>1, <2>2 DEF Buffers
<1> DEFINE room == IF Len(s) > buf.avaliable THEN grow_buffer(buf) ELSE buf
<1>3. room \in Buffers /\ room.data = buf.data
  BY <1>2
<1> HIDE DEF room
<1>4. [room EXCEPT !.data = @ \o s] \in Buffers /\ [room EXCEPT !.data = @ \o s].data = buf.data \o s
  <2>1. buf.data \o s \in Logs
    BY <1>1 DEF Logs
  <2>2. PICK d \in Logs : d = buf.data \o s
    BY <2>1
  <2>3. [room EXCEPT !.data = d] \in Buffers /\ [room EXCEPT !.data = d].data = d
    BY <1>3 DEF Buffers
  <2> QED
    BY <1>3, <2>2, <2>3
<1>5. Logged(buf, s) = IF scenario.log THEN [room EXCEPT !.data = @ \o s] ELSE buf
  BY DEF Logged, room
<1> QED
  BY <1>4, <1>5

-----------------------------------------------------------------------------
\* Types

\* What a scenario is.
LEMMA ScenarioIs ==
  ASSUME scenario \in Scenarios
  PROVE  /\ K \in Seq(Keys) /\ Len(K) \in Nat /\ scenario.chars \subseteq Chars
         /\ scenario.compress \in BOOLEAN /\ scenario.log \in BOOLEAN
         /\ READ_SIZE \in Nat \ {0} /\ PIPE_CAP \in Nat \ {0}
<1>1. scenario \in Scenario
  BY BoundsAssumption
<1>2. /\ K \in Seq(Keys) /\ scenario.chars \in SUBSET {"y", "lf", "^D"}
      /\ scenario.compress \in BOOLEAN /\ scenario.log \in BOOLEAN
  BY <1>1 DEF Scenario, K
<1> QED
  BY <1>2, BoundsAssumption DEF Chars, Keys

\* Keys are characters.
LEMMA KeysAreChars == Keys \subseteq Chars /\ \A s \in Seq(Keys) : s \in Seq(Chars)
<1>1. Keys \subseteq Chars
  BY DEF Chars
<1> QED
  BY <1>1

\* What goes out for a key is characters.
LEMMA SentIs ==
  ASSUME NEW c \in Keys, NEW g \in {"?", "^D"}, read_len \in Nat
  PROVE  Sent(c, g) \in Seq(Chars) /\ Sent(c, g) \in Logs
<1>1. c \in Chars /\ g \in Chars /\ "lf" \in Chars
  BY DEF Chars, Keys
<1>2. Sent(c, g) \in Seq(Chars)
  <2>1. CASE scenario.compress
    <3>1. [j \in 1..(read_len - 1) |-> g] \in Seq(Chars)
      <4>1. CASE read_len = 0
        BY <1>1, <4>1
      <4>2. CASE read_len # 0
        <5>1. read_len - 1 \in Nat
          BY <4>2
        <5> QED
          BY <1>1, <5>1, IsASeq
      <4> QED
        BY <4>1, <4>2
    <3> QED
      BY <1>1, <2>1, <3>1 DEF Sent
  <2>2. CASE ~scenario.compress
    BY <1>1, <2>2 DEF Sent
  <2> QED
    BY <2>1, <2>2
<1> QED
  BY <1>2 DEF Logs

\* What is logged of a text can be logged; without --compress it is the text.
LEMMA BytesAre ==
  ASSUME NEW s \in Logs, NEW b \in Bytes(s), READ_SIZE \in Nat
  PROVE  b \in Logs /\ (~scenario.compress => b = s)
<1>1. CASE scenario.compress
  <2>1. PICK n \in 1..READ_SIZE : b = [j \in 1..n |-> "?"]
    BY <1>1 DEF Bytes
  <2>2. n \in Nat /\ "?" \in Chars \cup {"sp"}
    BY DEF Chars
  <2>3. [j \in 1..n |-> "?"] \in Seq(Chars \cup {"sp"})
    BY <2>2, IsASeq
  <2> QED
    BY <1>1, <2>1, <2>3 DEF Logs
<1>2. CASE ~scenario.compress
  BY <1>2 DEF Bytes
<1> QED
  BY <1>1, <1>2

\* A key is logged as a character.
LEMMA NoNewlineIs ==
  ASSUME NEW c \in Chars \cup {"sp"}
  PROVE  NoNewline(c) \in Chars \cup {"sp"} /\ <<NoNewline(c)>> \in Logs
<1>1. NoNewline(c) \in Chars \cup {"sp"}
  BY DEF NoNewline
<1> QED
  BY <1>1 DEF Logs

\* What is written of a text received is a text of the same length.
LEMMA SpacedIs ==
  ASSUME NEW s \in Logs
  PROVE  /\ [j \in DOMAIN s |-> NoNewline(s[j])] \in Logs
         /\ Len([j \in DOMAIN s |-> NoNewline(s[j])]) = Len(s)
<1>1. Len(s) \in Nat /\ DOMAIN s = 1..Len(s) /\ \A j \in 1..Len(s) : s[j] \in Chars \cup {"sp"}
  BY DEF Logs
<1>2. \A j \in 1..Len(s) : NoNewline(s[j]) \in Chars \cup {"sp"}
  BY <1>1, NoNewlineIs
<1>3. [j \in 1..Len(s) |-> NoNewline(s[j])] \in Seq(Chars \cup {"sp"})
  BY <1>1, <1>2, IsASeq
<1>4. Len([j \in 1..Len(s) |-> NoNewline(s[j])]) = Len(s)
  BY <1>1, <1>3
<1> QED
  BY <1>1, <1>3, <1>4 DEF Logs

\* The client keeps its types and sends and displays characters.
LEMMA ClientTypedStep ==
  ASSUME Typed, Modes, Client
  PROVE  Typed'
<1> USE DEF CMoves, CExits, CKilled, client, server, child, net
<1>0. /\ scenario' = scenario /\ UNCHANGED server /\ UNCHANGED child
      /\ scenario' \in Scenarios /\ ServerTyped' /\ ChildTyped'
  <2>1. scenario' = scenario /\ UNCHANGED server /\ UNCHANGED child
    BY DEF Client, connect_to_server, tty_config, CPoll, CRead, CKey, CKeysDone, CSock,
           shutdown_client
  <2> QED
    BY <2>1 DEF Typed, ServerTyped, ChildTyped
<1>1. SUFFICES ClientTyped' /\ NetTyped'
  BY <1>0 DEF Typed
<1>2. CASE connect_to_server
  BY <1>2 DEF Typed, ClientTyped, NetTyped, connect_to_server
<1>3. CASE tty_config
  <2>1. tty = "user"
    BY <1>3 DEF Modes, tty_config
  <2> QED
    BY <1>3, <2>1 DEF Typed, ClientTyped, NetTyped, tty_config
<1>4. CASE CPoll
  BY <1>4 DEF Typed, ClientTyped, NetTyped, CPoll
<1>5. CASE CRead
  <2>1. PICK n \in 1..READ_SIZE :
          /\ n <= Len(keys)
          /\ c_buf' = SubSeq(keys, 1, n) /\ keys' = SubSeq(keys, n + 1, Len(keys))
          /\ read_len' = n
    BY <1>5 DEF CRead
  <2>2. keys \in Seq(Keys) /\ n \in 0..Len(keys) /\ n \in 0..READ_SIZE /\ n \in Nat
    BY <2>1, ScenarioIs DEF Typed, ClientTyped
  <2>3. c_buf' \in Seq(Keys) /\ keys' \in Seq(Keys) /\ Len(c_buf') = n
    BY <2>1, <2>2, Splitting
  <2> QED
    BY <1>5, <2>1, <2>2, <2>3 DEF Typed, ClientTyped, NetTyped, CRead
<1>6. CASE CKey
  <2>1. PICK g \in {"?", "^D"} :
          \E s \in Bytes(<<NoNewline(Head(c_buf))>>) :
          LET bytes == Sent(Head(c_buf), g) IN
          /\ sent_buf' = Logged(sent_buf, s)
          /\ \/ Overrun(sent_buf') /\ CKilled(SigAbrt) /\ UNCHANGED <<c_buf, up>>
             \/ c_rst /\ CKilled(SigPipe) /\ UNCHANGED <<c_buf, up>>
             \/ c_rst /\ CMoves("key") /\ c_buf' = Tail(c_buf) /\ UNCHANGED up
             \/ ~c_rst /\ CMoves("key") /\ c_buf' = Tail(c_buf) /\ up' = up \o bytes
    BY <1>6 DEF CKey
  <2>2. /\ c_buf \in Seq(Keys) /\ c_buf # <<>> /\ read_len \in Nat /\ up \in Seq(Chars)
        /\ sent_buf \in Buffers /\ Len(c_buf) <= read_len
    BY <1>6, ScenarioIs DEF Typed, ClientTyped, NetTyped, CKey
  <2>3. /\ Head(c_buf) \in Keys /\ Tail(c_buf) \in Seq(Keys) /\ Len(Tail(c_buf)) = Len(c_buf) - 1
        /\ Len(c_buf) \in Nat
    BY <2>2, Taking
  <2> DEFINE bytes == Sent(Head(c_buf), g)
  <2>4. bytes \in Seq(Chars) /\ bytes \in Logs
    BY <2>2, <2>3, SentIs
  <2>5. PICK logged \in Bytes(<<NoNewline(Head(c_buf))>>) : sent_buf' = Logged(sent_buf, logged)
    BY <2>1
  <2>6. logged \in Logs
    <3>1. <<NoNewline(Head(c_buf))>> \in Logs /\ READ_SIZE \in Nat
      BY <2>3, KeysAreChars, NoNewlineIs, BoundsAssumption
    <3> QED
      BY <2>5, <3>1, BytesAre
  <2>7. c_buf' \in {c_buf, Tail(c_buf)} /\ up' \in {up, up \o bytes}
    BY <2>1
  <2> HIDE DEF bytes
  <2>8. sent_buf' \in Buffers
    BY <2>2, <2>5, <2>6, LoggedIs
  <2>9. up' \in Seq(Chars) /\ c_buf' \in Seq(Keys) /\ Len(c_buf') <= read_len
    <3>1. up \o bytes \in Seq(Chars)
      BY <2>2, <2>4
    <3>2. Len(Tail(c_buf)) <= read_len
      BY <2>2, <2>3
    <3>3. up' \in Seq(Chars)
      BY <2>2, <2>7, <3>1
    <3>4. CASE c_buf' = c_buf
      BY <2>2, <3>3, <3>4
    <3>5. CASE c_buf' = Tail(c_buf)
      BY <2>3, <3>2, <3>3, <3>5
    <3> QED
      BY <2>7, <3>4, <3>5
  <2>10. c_pc' = c_pc /\ c_code' = c_code /\ c_status' \in {c_status, SigAbrt, SigPipe}
    BY <1>6, <2>1 DEF CKey
  <2> QED
    BY <1>6, <2>8, <2>9, <2>10 DEF Typed, ClientTyped, NetTyped, CKey
<1>7. CASE CKeysDone
  BY <1>7 DEF Typed, ClientTyped, NetTyped, CKeysDone
<1>8. CASE CSock
  <2>1. CASE UNCHANGED <<down, recv_buf, shown>>
    BY <1>8, <2>1 DEF Typed, ClientTyped, NetTyped, CSock
  <2>2. CASE ~(UNCHANGED <<down, recv_buf, shown>>)
    <3>1. PICK n \in 1..MaxRead :
             /\ n <= Len(down)
             /\ LET s == SubSeq(down, 1, n) IN
                /\ down' = SubSeq(down, n + 1, Len(down))
                /\ \E b \in Bytes(s) : recv_buf' = Logged(recv_buf, b)
                /\ \/ Overrun(recv_buf') /\ CKilled(SigAbrt) /\ UNCHANGED shown
                   \/ n > READ_SIZE /\ CMoves("inflate") /\ UNCHANGED shown
                   \/ /\ n <= READ_SIZE
                      /\ shown' = shown \o UpToEof(s)
                      /\ IF Contains(s, "^D") THEN CExits(0) ELSE CMoves("poll")
      BY <1>8, <2>2 DEF CSock
    <3>2. /\ down \in Seq(Chars) /\ n \in 0..Len(down) /\ shown \in Seq(Chars)
          /\ recv_buf \in Buffers
      BY <3>1, ScenarioIs DEF Typed, ClientTyped, NetTyped, MaxRead
    <3> DEFINE s == SubSeq(down, 1, n)
    <3>3. s \in Seq(Chars) /\ down' \in Seq(Chars)
      BY <3>1, <3>2, Splitting
    <3>4. /\ shown' \in {shown, shown \o UpToEof(s)}
          /\ \E b \in Bytes(s) : recv_buf' = Logged(recv_buf, b)
      BY <3>1
    <3>5. /\ c_pc' \in {c_pc, "inflate", "exit", "poll"} /\ c_code' \in {c_code, 0}
          /\ c_status' \in {c_status, SigAbrt}
      BY <3>1
    <3> HIDE DEF s
    <3>6. recv_buf' \in Buffers
      <4>1. s \in Logs /\ READ_SIZE \in Nat
        BY <3>3, BoundsAssumption DEF Logs
      <4>2. PICK b \in Bytes(s) : recv_buf' = Logged(recv_buf, b)
        BY <3>4
      <4>3. b \in Logs
        BY <4>1, <4>2, BytesAre
      <4> QED
        BY <3>2, <4>2, <4>3, LoggedIs
    <3>7. UpToEof(s) \in Seq(Chars)
      BY <3>3, UpToEofIs, PartOf
    <3>8. shown' \in Seq(Chars)
      <4>1. shown \o UpToEof(s) \in Seq(Chars)
        BY <3>2, <3>7, ConcatProperties
      <4> QED
        BY <3>2, <3>4, <4>1
    <3> QED
      BY <1>8, <3>3, <3>5, <3>6, <3>8 DEF Typed, ClientTyped, NetTyped, CSock
  <2> QED
    BY <2>1, <2>2
<1>9. CASE shutdown_client
  <2>1. recv_buf \in Buffers /\ recv_buf.data \in Logs
    BY DEF Typed, ClientTyped, Buffers
  <2>2. recv_buf' \in Buffers
    <3>1. PICK d \in Logs : d = [j \in DOMAIN recv_buf.data |-> NoNewline(recv_buf.data[j])]
      BY <2>1, SpacedIs
    <3>2. [recv_buf EXCEPT !.data = d] \in Buffers
      BY <2>1 DEF Buffers
    <3>3. recv_buf' \in {recv_buf, [recv_buf EXCEPT !.data = d]}
      BY <1>9, <3>1 DEF shutdown_client
    <3> QED
      BY <2>1, <3>2, <3>3
  <2> QED
    BY <1>9, <2>2 DEF Typed, ClientTyped, NetTyped, shutdown_client, restore_tty
<1> QED
  BY <1>2, <1>3, <1>4, <1>5, <1>6, <1>7, <1>8, <1>9 DEF Client

\* The server keeps its types and hands on characters.
LEMMA ServerTypedStep ==
  ASSUME Typed, Server
  PROVE  Typed'
<1> USE DEF SMoves, SKilled, client, server, child, net
<1>0. scenario' \in Scenarios /\ ClientTyped'
  <2>1. scenario' = scenario /\ UNCHANGED client
    BY DEF Server, Listen, Accept, SPoll, SRead, SKey, SKeysDone, SPipe, SStore, SSend, SHup,
           shutdown_server
  <2> QED
    BY <2>1 DEF Typed, ClientTyped
<1>1. SUFFICES NetTyped' /\ ServerTyped' /\ ChildTyped'
  BY <1>0 DEF Typed
<1> USE DEF Typed, NetTyped, ServerTyped, ChildTyped
<1>2. CASE Listen
  BY <1>2 DEF Listen
<1>3. CASE Accept
  BY <1>3 DEF Accept, exec_prgm
<1>4. CASE SPoll
  BY <1>4 DEF SPoll
<1>5. CASE SRead
  <2>1. CASE UNCHANGED <<s_buf, up>>
    BY <1>5, <2>1 DEF SRead
  <2>2. CASE ~(UNCHANGED <<s_buf, up>>)
    <3>1. PICK n \in 1..MaxRead :
            /\ n <= Len(up)
            /\ up' = SubSeq(up, n + 1, Len(up)) /\ s_buf' = SubSeq(up, 1, n)
            /\ SMoves(IF n > READ_SIZE THEN "inflate" ELSE "key")
      BY <1>5, <2>2 DEF SRead
    <3>2. n \in 0..Len(up)
      BY <3>1, ScenarioIs DEF MaxRead
    <3>3. up' \in Seq(Chars) /\ s_buf' \in Seq(Chars)
      BY <3>1, <3>2, Splitting
    <3> QED
      BY <1>5, <3>1, <3>3 DEF SRead
  <2> QED
    BY <2>1, <2>2
<1>6. CASE SKey
  <2>1. s_buf \in Seq(Chars) /\ s_buf # <<>>
    BY <1>6 DEF SKey
  <2>2. Head(s_buf) \in Chars /\ Tail(s_buf) \in Seq(Chars)
    BY <2>1, Taking
  <2>3. CASE to_chld' = to_chld
    BY <1>6, <2>2, <2>3 DEF SKey, CtrlD, CtrlC, Forward
  <2>4. CASE to_chld' # to_chld
    <3> DEFINE c == IF Newline(Head(s_buf)) THEN "lf" ELSE Head(s_buf)
    <3>1. c \in Chars
      BY <2>2 DEF Chars, Keys
    <3>2. to_chld' = Append(to_chld, c) /\ Len(to_chld) < PIPE_CAP
      BY <1>6, <2>4 DEF SKey, CtrlD, CtrlC, Forward
    <3> HIDE DEF c
    <3>3. to_chld' \in Seq(Chars) /\ Len(to_chld') <= PIPE_CAP
      BY <3>1, <3>2, ScenarioIs
    <3> QED
      BY <1>6, <2>2, <3>3 DEF SKey, CtrlD, CtrlC, Forward
  <2> QED
    BY <2>3, <2>4
<1>7. CASE SKeysDone
  BY <1>7 DEF SKeysDone
<1>8. CASE SPipe
  <2>1. CASE UNCHANGED <<s_out, to_par, stored>>
    BY <1>8, <2>1 DEF SPipe
  <2>2. CASE ~(UNCHANGED <<s_out, to_par, stored>>)
    <3> DEFINE n == IF Len(to_par) < READ_SIZE THEN Len(to_par) ELSE READ_SIZE
    <3>1. /\ s_out' = SubSeq(to_par, 1, n) /\ to_par' = SubSeq(to_par, n + 1, Len(to_par))
          /\ stored' = 0 /\ SMoves("store")
      BY <1>8, <2>2 DEF SPipe
    <3>2. n \in 0..Len(to_par)
      BY ScenarioIs
    <3> HIDE DEF n
    <3>3. /\ s_out' \in Seq(Chars) /\ to_par' \in Seq(Chars) /\ Len(to_par') = Len(to_par) - n
          /\ Len(s_out') \in Nat
      BY <3>1, <3>2, Splitting
    <3>4. Len(to_par') <= PIPE_CAP
      BY <3>2, <3>3, ScenarioIs
    <3>5. stored' \in 0..Len(s_out')
      BY <3>1, <3>3
    <3>6. /\ s_pc' = "store" /\ s_status' = s_status
          /\ UNCHANGED <<s_buf, kerntosock, shell, pending, to_chld, got, written, up, down>>
      BY <1>8, <3>1 DEF SPipe
    <3>7. ServerTyped'
      BY <3>3, <3>5, <3>6
    <3>8. NetTyped' /\ ChildTyped'
      BY <3>3, <3>4, <3>6
    <3> QED
      BY <3>7, <3>8
  <2> QED
    BY <2>1, <2>2
<1>9. CASE SStore
  <2>1. stored' = stored + 1 /\ stored < Len(s_out) /\ s_out' = s_out
    BY <1>9 DEF SStore
  <2>2. stored' \in 0..Len(s_out')
    BY <2>1
  <2>3. kerntosock' \in 0..PIPE_CAP
    BY <1>9, ScenarioIs DEF SStore
  <2> QED
    BY <1>9, <2>2, <2>3 DEF SStore
<1>10. CASE SSend
  <2>1. down \o s_out \in Seq(Chars)
    OBVIOUS
  <2>2. down' \in Seq(Chars)
    BY <1>10, <2>1 DEF SSend
  <2>3. s_out' = <<>> /\ stored' = 0
    BY <1>10 DEF SSend
  <2>4. s_out' \in Seq(Chars) /\ stored' \in 0..Len(s_out')
    BY <2>3
  <2>5. /\ s_pc' \in {s_pc, "hup", "exit"} /\ s_status' \in {s_status, SigPipe}
        /\ UNCHANGED <<s_buf, kerntosock, up>> /\ UNCHANGED child
    BY <1>10 DEF SSend
  <2>6. ServerTyped'
    BY <2>4, <2>5
  <2>7. NetTyped' /\ ChildTyped'
    BY <2>2, <2>5
  <2> QED
    BY <2>6, <2>7
<1>11. CASE SHup
  BY <1>11 DEF SHup
<1>12. CASE shutdown_server
  BY <1>12 DEF shutdown_server
<1> QED
  BY <1>2, <1>3, <1>4, <1>5, <1>6, <1>7, <1>8, <1>9, <1>10, <1>11, <1>12 DEF Server

\* The shell and the network keep the types.
LEMMA OthersTypedStep ==
  ASSUME Typed, ShellMust \/ ShellMay \/ Reset \/ UNCHANGED vars
  PROVE  Typed'
<1> USE DEF client, server, child, net, Outside
<1>0. scenario' \in Scenarios /\ ClientTyped' /\ NetTyped' /\ ServerTyped'
  <2>1. scenario' = scenario /\ UNCHANGED client /\ UNCHANGED server /\ UNCHANGED <<up, down>>
    BY DEF ShellMust, ShellMay, Reset, vars
  <2> QED
    BY <2>1 DEF Typed, ClientTyped, NetTyped, ServerTyped
<1>1. SUFFICES ChildTyped'
  BY <1>0 DEF Typed
<1> USE DEF Typed, ChildTyped
<1>2. CASE ShellReads
  <2>1. to_chld \in Seq(Chars) /\ to_chld # <<>>
    BY <1>2 DEF ShellReads
  <2>2. /\ Head(to_chld) \in Chars /\ Tail(to_chld) \in Seq(Chars)
        /\ Len(Tail(to_chld)) = Len(to_chld) - 1 /\ Len(to_chld) \in Nat
    BY <2>1, Taking
  <2>3. Len(Tail(to_chld)) <= PIPE_CAP
    BY <2>2, ScenarioIs
  <2> QED
    BY <1>2, <2>2, <2>3 DEF ShellReads
<1>3. CASE ShellEof
  BY <1>3 DEF ShellEof
<1>4. CASE ShellWrites
  <2>1. pending \in Chars /\ Len(to_par) < PIPE_CAP
    BY <1>4 DEF ShellWrites
  <2>2. Len(Append(to_par, pending)) <= PIPE_CAP
    BY <2>1, ScenarioIs
  <2> QED
    BY <1>4, <2>1, <2>2 DEF ShellWrites
<1>5. CASE ShellStartsWrite
  BY <1>5, ScenarioIs DEF ShellStartsWrite
<1>6. CASE ShellExits
  BY <1>6 DEF ShellExits
<1>7. CASE Reset \/ UNCHANGED vars
  BY <1>7 DEF Reset, vars
<1> QED
  BY <1>2, <1>3, <1>4, <1>5, <1>6, <1>7 DEF ShellMust, ShellMay

-----------------------------------------------------------------------------
\* The terminal's modes, and who is where

\* Every step keeps the terminal's modes right.
LEMMA ModesStep ==
  ASSUME Typed, Modes, [Next]_vars
  PROVE  Modes'
<1> USE DEF CMoves, CExits, CKilled, client, server, child, net, Modes, Running, SigPipe, SigAbrt
<1>1. CASE Client
  <2>0. c_status = Running /\ c_code \in {0, 1} /\ original_settings \in {"user", "zeroed"}
    BY <1>1 DEF Client, Typed, ClientTyped
  <2>1. CASE connect_to_server
    BY <2>0, <2>1 DEF connect_to_server
  <2>2. CASE tty_config
    BY <2>0, <2>2 DEF tty_config
  <2>3. CASE CPoll
    BY <2>0, <2>3 DEF CPoll
  <2>4. CASE CRead
    BY <2>0, <2>4 DEF CRead
  <2>5. CASE CKey
    BY <2>0, <2>5 DEF CKey
  <2>6. CASE CKeysDone
    BY <2>0, <2>6 DEF CKeysDone
  <2>7. CASE CSock
    BY <2>0, <2>7 DEF CSock
  <2>8. CASE shutdown_client
    BY <2>0, <2>8 DEF shutdown_client, restore_tty
  <2> QED
    BY <1>1, <2>1, <2>2, <2>3, <2>4, <2>5, <2>6, <2>7, <2>8 DEF Client
<1>2. CASE ~Client
  <2>1. UNCHANGED <<c_pc, c_status, tty, original_settings, connected>>
    <3>1. CASE Server
      BY <3>1 DEF Server, Listen, Accept, SPoll, SRead, SKey, SKeysDone, SPipe, SStore, SSend,
                  SHup, shutdown_server
    <3>2. CASE ShellMust \/ ShellMay \/ Reset \/ UNCHANGED vars
      BY <3>2 DEF ShellMust, ShellMay, Reset, vars, Outside
    <3> QED
      BY <1>2, <3>1, <3>2 DEF Next
  <2> QED
    BY <2>1
<1> QED
  BY <1>1, <1>2

\* Every step keeps the buffers empty where they are not in use.
LEMMA PlacesStep ==
  ASSUME Typed, Places, [Next]_vars
  PROVE  Places'
<1> USE DEF client, server, child, net, Places, SrvClosed, CliClosed, ShellGone, Running, SigPipe,
            SigAbrt, None
<1>1. CASE Client
  <2> USE DEF CMoves, CExits, CKilled
  <2>0. c_status = Running /\ UNCHANGED server /\ UNCHANGED child /\ UNCHANGED <<c_rst, s_rst>>
    BY <1>1 DEF Client, connect_to_server, tty_config, CPoll, CRead, CKey, CKeysDone, CSock,
                shutdown_client
  <2>1. c_pc' # "key" => c_buf' = <<>>
    BY <1>1 DEF Client, connect_to_server, tty_config, CPoll, CRead, CKey, CKeysDone, CSock,
                shutdown_client
  <2> QED
    BY <2>0, <2>1
<1>2. CASE Server
  <2> USE DEF SMoves, SKilled
  <2>0. s_status = Running /\ UNCHANGED client /\ UNCHANGED <<c_rst, s_rst>> /\ ~c_rst
    BY <1>2 DEF Server, Listen, Accept, SPoll, SRead, SKey, SKeysDone, SPipe, SStore, SSend,
                SHup, shutdown_server
  <2>1. CASE Listen
    BY <2>0, <2>1 DEF Listen
  <2>2. CASE Accept
    BY <2>0, <2>2 DEF Accept
  <2>3. CASE SPoll
    BY <2>0, <2>3 DEF SPoll
  <2>4. CASE SRead
    BY <2>0, <2>4 DEF SRead
  <2>5. CASE SKey
    BY <2>0, <2>5 DEF SKey, CtrlD, CtrlC, Forward
  <2>6. CASE SKeysDone
    BY <2>0, <2>6 DEF SKeysDone
  <2>7. CASE SPipe
    BY <2>0, <2>7 DEF SPipe
  <2>8. CASE SStore
    BY <2>0, <2>8 DEF SStore
  <2>9. CASE SSend
    BY <2>0, <2>9 DEF SSend
  <2>10. CASE SHup
    BY <2>0, <2>10 DEF SHup
  <2>11. CASE shutdown_server
    BY <2>0, <2>11 DEF shutdown_server
  <2> QED
    BY <1>2, <2>1, <2>2, <2>3, <2>4, <2>5, <2>6, <2>7, <2>8, <2>9, <2>10, <2>11 DEF Server
<1>3. CASE ShellMust \/ ShellMay
  <2>1. UNCHANGED Outside /\ shell = "running"
    BY <1>3 DEF ShellMust, ShellMay
  <2> QED
    BY <2>1 DEF Outside
<1>4. CASE Reset \/ UNCHANGED vars
  BY <1>4 DEF Reset, vars
<1> QED
  BY <1>1, <1>2, <1>3, <1>4 DEF Next

-----------------------------------------------------------------------------
\* The keys the client takes

\* A step that leaves the client's keys alone.
LEMMA SameKeysLeft ==
  ASSUME KeysLeft, UNCHANGED <<scenario, keys, c_buf>>
  PROVE  KeysLeft' /\ Handled' = Handled
BY DEF KeysLeft, Handled, K

\* What follows the first n + 1 elements of a sequence.
LEMMA NextRest ==
  ASSUME NEW S, NEW s \in Seq(S), NEW n \in Nat, n < Len(s)
  PROVE  /\ SubSeq(s, n + 1, Len(s)) = <<s[n + 1]>> \o SubSeq(s, n + 2, Len(s))
         /\ SubSeq(s, n + 1, Len(s)) # <<>>
         /\ Head(SubSeq(s, n + 1, Len(s))) = s[n + 1]
         /\ Tail(SubSeq(s, n + 1, Len(s))) = SubSeq(s, n + 2, Len(s))
<1> DEFINE a == SubSeq(s, n + 1, Len(s))
           b == SubSeq(s, n + 2, Len(s))
<1>0. Len(s) \in Nat /\ n \in 0..Len(s) /\ n + 1 \in 0..Len(s) /\ (n + 1) + 1 = n + 2
  OBVIOUS
<1>1. /\ a \in Seq(S) /\ Len(a) = Len(s) - n /\ \A j \in 1..(Len(s) - n) : a[j] = s[n + j]
      /\ b \in Seq(S) /\ Len(b) = Len(s) - (n + 1)
      /\ \A j \in 1..(Len(s) - (n + 1)) : b[j] = s[(n + 1) + j]
  BY <1>0, PartOf
<1> HIDE DEF a, b
<1>2. a # <<>>
  BY <1>0, <1>1
<1>3. /\ Head(a) = a[1] /\ Tail(a) \in Seq(S) /\ Len(Tail(a)) = Len(a) - 1
      /\ \A j \in 1..(Len(a) - 1) : Tail(a)[j] = a[j + 1]
  BY <1>1, <1>2, HeadTailProperties
<1>4. ASSUME NEW j \in 1..Len(b) PROVE Tail(a)[j] = b[j]
  <2>1. /\ j \in 1..(Len(a) - 1) /\ j + 1 \in 1..(Len(s) - n) /\ j \in 1..(Len(s) - (n + 1))
        /\ n + (j + 1) = (n + 1) + j
    BY <1>0, <1>1
  <2> QED
    BY <1>1, <1>3, <2>1
<1>5. Len(Tail(a)) = Len(b)
  BY <1>0, <1>1, <1>3
<1>6. Tail(a) = b
  BY <1>1, <1>3, <1>4, <1>5, SeqEqual
<1>7. Head(a) = s[n + 1]
  BY <1>0, <1>1, <1>3
<1>8. a = <<Head(a)>> \o Tail(a)
  BY <1>1, <1>2, Taking
<1> QED
  BY <1>2, <1>6, <1>7, <1>8 DEF a, b

\* The first element of two sequences put together.
LEMMA FirstOfTwo ==
  ASSUME NEW S, NEW a \in Seq(S), NEW b \in Seq(S), a # <<>>
  PROVE  /\ a \o b # <<>> /\ Head(a \o b) = Head(a) /\ Tail(a \o b) = Tail(a) \o b
         /\ a \o b = <<Head(a)>> \o (Tail(a) \o b)
<1>1. Head(a) \in S /\ Tail(a) \in Seq(S) /\ a = <<Head(a)>> \o Tail(a)
  BY Taking
<1>2. PICK h \in S, t \in Seq(S) : h = Head(a) /\ t = Tail(a)
  BY <1>1
<1>3. a \o b = <<h>> \o (t \o b)
  BY <1>1, <1>2, Joining
<1>4. t \o b \in Seq(S)
  BY <1>2, Joining
<1>5. PICK u \in Seq(S) : u = t \o b
  BY <1>4
<1>6. <<h>> \o u # <<>> /\ Head(<<h>> \o u) = h /\ Tail(<<h>> \o u) = u
  OBVIOUS
<1> QED
  BY <1>2, <1>3, <1>5, <1>6

\* The key the client handles next is the next one typed.
LEMMA NextKey ==
  ASSUME Typed, KeysLeft, c_buf # <<>>
  PROVE  /\ Handled \in Nat /\ Handled < Len(K) /\ K[Handled + 1] = Head(c_buf)
         /\ Head(c_buf) \in Keys /\ Tail(c_buf) \in Seq(Keys)
         /\ Len(Tail(c_buf)) = Len(c_buf) - 1 /\ Len(c_buf) \in Nat /\ Len(keys) \in Nat
         /\ Tail(c_buf) \o keys = SubSeq(K, Handled + 2, Len(K))
<1>0. /\ K \in Seq(Keys) /\ Len(K) \in Nat /\ c_buf \in Seq(Keys) /\ keys \in Seq(Keys)
      /\ Len(keys) \in Nat
  BY ScenarioIs DEF Typed, ClientTyped
<1>1. /\ Head(c_buf) \in Keys /\ Tail(c_buf) \in Seq(Keys) /\ Len(c_buf) \in Nat \ {0}
      /\ Len(Tail(c_buf)) = Len(c_buf) - 1
  BY <1>0, Taking
<1>2. Handled \in Nat /\ Handled < Len(K)
  BY <1>0, <1>1 DEF Handled, KeysLeft
<1>3. /\ Head(c_buf \o keys) = Head(c_buf) /\ Tail(c_buf \o keys) = Tail(c_buf) \o keys
  BY <1>0, FirstOfTwo
<1>4. /\ Head(SubSeq(K, Handled + 1, Len(K))) = K[Handled + 1]
      /\ Tail(SubSeq(K, Handled + 1, Len(K))) = SubSeq(K, Handled + 2, Len(K))
  BY <1>0, <1>2, NextRest
<1> QED
  BY <1>0, <1>1, <1>2, <1>3, <1>4 DEF KeysLeft

\* read() takes keys from the front of those typed.
LEMMA ReadKeys ==
  ASSUME Typed, Places, CRead
  PROVE  /\ c_buf' \o keys' = c_buf \o keys /\ Len(c_buf') + Len(keys') = Len(c_buf) + Len(keys)
         /\ scenario' = scenario
<1>1. PICK n \in 1..READ_SIZE :
        /\ n <= Len(keys)
        /\ c_buf' = SubSeq(keys, 1, n) /\ keys' = SubSeq(keys, n + 1, Len(keys))
  BY DEF CRead
<1>2. keys \in Seq(Keys) /\ n \in 0..Len(keys) /\ Len(keys) \in Nat /\ n \in Nat
  BY <1>1, ScenarioIs DEF Typed, ClientTyped
<1>3. c_buf' \o keys' = keys /\ Len(c_buf') = n /\ Len(keys') = Len(keys) - n
  BY <1>1, <1>2, Splitting
<1>4. c_buf = <<>> /\ Len(c_buf) = 0
  BY DEF Places, CRead
<1>5. c_buf \o keys = keys
  BY <1>2, <1>4, JoiningNone
<1> QED
  BY <1>2, <1>3, <1>4, <1>5 DEF CRead

\* What CKey does with the key it takes.
LEMMA CKeyIs ==
  ASSUME Typed, KeysLeft, CKey
  PROVE  \E g \in {"?", "^D"} :
           /\ \E s \in Bytes(<<NoNewline(Head(c_buf))>>) : sent_buf' = Logged(sent_buf, s)
           /\ \/ c_status' \in {SigAbrt, SigPipe} /\ UNCHANGED <<c_buf, up, c_pc>>
              \/ c_status' = c_status /\ c_pc' = c_pc /\ c_buf' = Tail(c_buf)
                 /\ IF c_rst THEN up' = up ELSE up' = up \o Sent(Head(c_buf), g)
  BY DEF CKey, CKilled, CMoves

\* Every step takes the keys from the front of those typed.
LEMMA KeysLeftStep ==
  ASSUME Typed, Places, KeysLeft, [Next]_vars
  PROVE  KeysLeft'
<1> USE DEF client, server, child, net
<1>1. CASE Client
  <2>1. CASE CRead
    BY <2>1, ReadKeys DEF KeysLeft, Handled, K
  <2>2. CASE CKey
    <3>1. c_buf # <<>> /\ scenario' = scenario /\ keys' = keys
      BY <2>2 DEF CKey
    <3>2. CASE c_buf' = c_buf
      BY <3>1, <3>2, SameKeysLeft
    <3>3. CASE c_buf' = Tail(c_buf)
      <4>1. Handled' = Handled + 1
        BY <3>1, <3>3, NextKey, ScenarioIs DEF Handled, K, Typed
      <4>2. Handled' + 1 = Handled + 2 /\ Handled' \in 0..Len(K)
        BY <3>1, <4>1, NextKey, ScenarioIs DEF Typed
      <4>3. c_buf' \o keys' = SubSeq(K, Handled' + 1, Len(K))
        BY <3>1, <3>3, <4>2, NextKey
      <4> QED
        BY <3>1, <4>2, <4>3 DEF KeysLeft, K
    <3> QED
      BY <2>2, <3>2, <3>3, CKeyIs
  <2>3. CASE connect_to_server \/ tty_config \/ CPoll \/ CKeysDone \/ CSock \/ shutdown_client
    <3>1. UNCHANGED <<scenario, keys, c_buf>>
      BY <2>3 DEF connect_to_server, tty_config, CPoll, CKeysDone, CSock, shutdown_client
    <3> QED
      BY <3>1, SameKeysLeft
  <2> QED
    BY <1>1, <2>1, <2>2, <2>3 DEF Client
<1>2. CASE ~Client
  <2>1. UNCHANGED <<scenario, keys, c_buf>>
    <3>1. CASE Server
      BY <3>1 DEF Server, Listen, Accept, SPoll, SRead, SKey, SKeysDone, SPipe, SStore, SSend,
                  SHup, shutdown_server
    <3>2. CASE ShellMust \/ ShellMay \/ Reset \/ UNCHANGED vars
      BY <3>2 DEF ShellMust, ShellMay, Reset, vars, Outside
    <3> QED
      BY <1>2, <3>1, <3>2 DEF Next
  <2> QED
    BY <2>1, SameKeysLeft
<1> QED
  BY <1>1, <1>2

-----------------------------------------------------------------------------
\* From the shell to the display, and the log

\* What is displayed of what was received is a part of it from its start.
LEMMA DisplayIs ==
  ASSUME NEW s \in Seq(Chars)
  PROVE  \E r \in Seq(Chars) : /\ UpToEof(s) \in Seq(Chars) /\ s = UpToEof(s) \o r
                               /\ ~Contains(s, "^D") => UpToEof(s) = s
<1>1. PICK m \in 0..Len(s) : UpToEof(s) = SubSeq(s, 1, m) /\ (~Contains(s, "^D") => m = Len(s))
  BY UpToEofIs
<1>2. /\ SubSeq(s, 1, m) \in Seq(Chars) /\ SubSeq(s, m + 1, Len(s)) \in Seq(Chars)
      /\ SubSeq(s, 1, m) \o SubSeq(s, m + 1, Len(s)) = s
  BY Splitting
<1>3. ~Contains(s, "^D") => UpToEof(s) = s
  BY <1>1, SubSeqFull
<1> QED
  BY <1>1, <1>2, <1>3

\* What get_server_data() does with what it receives.
LEMMA CSockIs ==
  ASSUME Typed, CSock
  PROVE  \/ UNCHANGED <<down, recv_buf, shown, c_status>> /\ c_pc' \in {"exit", "poll"}
         \/ \E s \in Seq(Chars), d \in Seq(Chars) :
              /\ down = s \o d /\ down' = d
              /\ \E b \in Bytes(s) : recv_buf' = Logged(recv_buf, b)
              /\ \/ c_status' = SigAbrt /\ UNCHANGED shown
                 \/ scenario.compress /\ c_pc' = "inflate" /\ UNCHANGED <<shown, c_status>>
                 \/ /\ shown' = shown \o UpToEof(s) /\ c_status' = c_status
                    /\ c_pc' = IF Contains(s, "^D") THEN "exit" ELSE "poll"
<1>1. CASE UNCHANGED <<down, recv_buf, shown, c_status>> /\ c_pc' \in {"exit", "poll"}
  BY <1>1
<1>2. CASE \E n \in 1..MaxRead :
             /\ n <= Len(down)
             /\ LET s == SubSeq(down, 1, n) IN
                /\ down' = SubSeq(down, n + 1, Len(down))
                /\ \E b \in Bytes(s) : recv_buf' = Logged(recv_buf, b)
                /\ \/ Overrun(recv_buf') /\ CKilled(SigAbrt) /\ UNCHANGED shown
                   \/ n > READ_SIZE /\ CMoves("inflate") /\ UNCHANGED shown
                   \/ /\ n <= READ_SIZE
                      /\ shown' = shown \o UpToEof(s)
                      /\ IF Contains(s, "^D") THEN CExits(0) ELSE CMoves("poll")
  <2>1. PICK n \in 1..MaxRead :
             /\ n <= Len(down)
             /\ LET s == SubSeq(down, 1, n) IN
                /\ down' = SubSeq(down, n + 1, Len(down))
                /\ \E b \in Bytes(s) : recv_buf' = Logged(recv_buf, b)
                /\ \/ Overrun(recv_buf') /\ CKilled(SigAbrt) /\ UNCHANGED shown
                   \/ n > READ_SIZE /\ CMoves("inflate") /\ UNCHANGED shown
                   \/ /\ n <= READ_SIZE
                      /\ shown' = shown \o UpToEof(s)
                      /\ IF Contains(s, "^D") THEN CExits(0) ELSE CMoves("poll")
    BY <1>2
  <2> DEFINE s == SubSeq(down, 1, n)
             d == SubSeq(down, n + 1, Len(down))
  <2>2. n \in 0..Len(down) /\ down \in Seq(Chars) /\ n \in Nat
    BY <2>1, ScenarioIs DEF Typed, NetTyped, MaxRead
  <2>3. s \in Seq(Chars) /\ d \in Seq(Chars) /\ down = s \o d
    BY <2>2, Splitting
  <2>4. n > READ_SIZE => scenario.compress
    BY <2>1, ScenarioIs DEF MaxRead, Typed
  <2>5. /\ down' = d /\ \E b \in Bytes(s) : recv_buf' = Logged(recv_buf, b)
        /\ \/ c_status' = SigAbrt /\ UNCHANGED shown
           \/ n > READ_SIZE /\ c_pc' = "inflate" /\ UNCHANGED <<shown, c_status>>
           \/ /\ shown' = shown \o UpToEof(s) /\ c_status' = c_status
              /\ c_pc' = IF Contains(s, "^D") THEN "exit" ELSE "poll"
    BY <2>1 DEF CKilled, CMoves, CExits
  <2> HIDE DEF s, d
  <2> QED
    BY <2>3, <2>4, <2>5
<1> QED
  BY <1>1, <1>2 DEF CSock, CExits, CMoves

\* A step of the client or of another that leaves what is logged and displayed alone.
LEMMA SameLog ==
  ASSUME LogOK, Handled' = Handled, UNCHANGED <<scenario, sent_buf, recv_buf, shown>>,
         c_status' = c_status, c_pc' # "exit" => c_pc # "exit"
  PROVE  LogOK'
BY DEF LogOK, K, Spaced

\* One key more in the log.
LEMMA LogNext ==
  ASSUME NEW h \in Nat, NEW s \in Seq(Keys), h < Len(s)
  PROVE  [j \in 1..h |-> NoNewline(s[j])] \o <<NoNewline(s[h + 1])>> = [j \in 1..(h + 1) |-> NoNewline(s[j])]
<1> DEFINE a == [j \in 1..h |-> NoNewline(s[j])]
           b == [j \in 1..(h + 1) |-> NoNewline(s[j])]
           S == {NoNewline(s[j]) : j \in 1..(h + 1)}
<1>2. a \in Seq(S) /\ Len(a) = h /\ \A j \in 1..h : a[j] = NoNewline(s[j])
  BY IsASeq
<1>3. b \in Seq(S) /\ Len(b) = h + 1 /\ \A j \in 1..(h + 1) : b[j] = NoNewline(s[j])
  BY IsASeq
<1>4. NoNewline(s[h + 1]) \in S
  OBVIOUS
<1> HIDE DEF a, b, S
<1>5. PICK x \in S : x = NoNewline(s[h + 1])
  BY <1>4
<1>6. /\ a \o <<x>> \in Seq(S) /\ Len(a \o <<x>>) = h + 1
      /\ \A j \in 1..h : (a \o <<x>>)[j] = a[j]
      /\ (a \o <<x>>)[h + 1] = x
  BY <1>2
<1>7. \A j \in 1..(h + 1) : (a \o <<x>>)[j] = b[j]
  <2>1. \A j \in 1..(h + 1) : j \in 1..h \/ j = h + 1
    OBVIOUS
  <2> QED
    BY <1>2, <1>3, <1>5, <1>6, <2>1
<1>8. a \o <<x>> = b
  BY <1>3, <1>6, <1>7, SeqEqual
<1> QED
  BY <1>5, <1>8 DEF a, b

\* Every key the client handles is logged.
LEMMA KeyLogged ==
  ASSUME Typed, KeysLeft, LogOK, CKey, c_status = Running
  PROVE  LogOK'
<1>1. PICK g \in {"?", "^D"} :
           /\ \E s \in Bytes(<<NoNewline(Head(c_buf))>>) : sent_buf' = Logged(sent_buf, s)
           /\ \/ c_status' \in {SigAbrt, SigPipe} /\ UNCHANGED <<c_buf, up, c_pc>>
              \/ c_status' = c_status /\ c_pc' = c_pc /\ c_buf' = Tail(c_buf)
                 /\ IF c_rst THEN up' = up ELSE up' = up \o Sent(Head(c_buf), g)
  BY CKeyIs
<1>2. /\ c_buf # <<>> /\ UNCHANGED <<scenario, keys, recv_buf, shown>> /\ c_pc' = c_pc
      /\ c_pc = "key"
  BY <1>1 DEF CKey
<1>3. CASE c_status' \in {SigAbrt, SigPipe}
  BY <1>3 DEF LogOK, SigAbrt, SigPipe, Running
<1>4. CASE c_status' = c_status /\ c_buf' = Tail(c_buf)
  <2> SUFFICES ASSUME scenario.log, ~scenario.compress, c_status \in {Running, 0, 1}
               PROVE  sent_buf'.data = [j \in 1..Handled' |-> NoNewline(K[j])]
    BY <1>2, <1>4 DEF LogOK, K, Spaced
  <2>1. Handled' = Handled + 1 /\ Handled \in Nat /\ Handled < Len(K)
    BY <1>2, <1>4, NextKey, ScenarioIs DEF Handled, K, Typed
  <2>2. K \in Seq(Keys) /\ K[Handled + 1] = Head(c_buf) /\ Head(c_buf) \in Keys
    BY <1>2, NextKey, ScenarioIs DEF Typed
  <2> DEFINE x == NoNewline(Head(c_buf))
  <2>4. <<x>> \in Logs
    BY <2>2, KeysAreChars, NoNewlineIs
  <2>3. sent_buf' = Logged(sent_buf, <<x>>)
    <3>1. PICK b \in Bytes(<<x>>) : sent_buf' = Logged(sent_buf, b)
      BY <1>1
    <3>2. b = <<x>>
      BY <2>4, BytesAre, BoundsAssumption
    <3> QED
      BY <3>1, <3>2
  <2> HIDE DEF x
  <2>5. sent_buf'.data = sent_buf.data \o <<x>>
    BY <2>3, <2>4, LoggedIs DEF Typed, ClientTyped
  <2>6. sent_buf.data = [j \in 1..Handled |-> NoNewline(K[j])]
    BY DEF LogOK
  <2>7. x = NoNewline(K[Handled + 1])
    BY <2>2 DEF x
  <2>8. [j \in 1..Handled |-> NoNewline(K[j])] \o <<NoNewline(K[Handled + 1])>>
          = [j \in 1..(Handled + 1) |-> NoNewline(K[j])]
    BY <2>1, <2>2, LogNext
  <2> QED
    BY <2>1, <2>5, <2>6, <2>7, <2>8
<1> QED
  BY <1>1, <1>3, <1>4

\* Everything the client receives is logged before it is displayed.
LEMMA OutputLogged ==
  ASSUME Typed, LogOK, CSock, c_status = Running
  PROVE  LogOK'
<1>1. c_pc = "sock" /\ UNCHANGED <<scenario, sent_buf, keys, c_buf>> /\ Handled' = Handled
  BY DEF CSock, Handled, K
<1>2. CASE UNCHANGED <<down, recv_buf, shown, c_status>>
  BY <1>1, <1>2, SameLog
<1>3. CASE c_status' = SigAbrt
  BY <1>3 DEF LogOK, SigAbrt, Running
<1>4. ASSUME NEW s \in Seq(Chars), \E b \in Bytes(s) : recv_buf' = Logged(recv_buf, b),
             c_status' = c_status,
             \/ scenario.compress
             \/ /\ shown' = shown \o UpToEof(s)
                /\ c_pc' = IF Contains(s, "^D") THEN "exit" ELSE "poll"
      PROVE  LogOK'
  <2> SUFFICES ASSUME scenario.log, ~scenario.compress, c_status = Running
               PROVE  /\ \E r \in Seq(Chars) : recv_buf'.data = shown' \o r
                      /\ c_pc' # "exit" => recv_buf'.data = shown'
    BY <1>1, <1>4 DEF LogOK, K
  <2>1. recv_buf'.data = recv_buf.data \o s
    <3>1. s \in Logs
      BY DEF Logs
    <3>2. PICK b \in Bytes(s) : recv_buf' = Logged(recv_buf, b)
      BY <1>4
    <3>3. b = s
      BY <3>1, <3>2, BytesAre, BoundsAssumption
    <3> QED
      BY <3>1, <3>2, <3>3, LoggedIs DEF Typed, ClientTyped
  <2>2. recv_buf.data = shown
    BY <1>1 DEF LogOK
  <2>3. PICK r \in Seq(Chars) : /\ UpToEof(s) \in Seq(Chars) /\ s = UpToEof(s) \o r
                                /\ ~Contains(s, "^D") => UpToEof(s) = s
    BY DisplayIs
  <2>4. shown' = shown \o UpToEof(s) /\ c_pc' = IF Contains(s, "^D") THEN "exit" ELSE "poll"
    BY <1>4
  <2>5. shown \o s = (shown \o UpToEof(s)) \o r
    <3>1. shown \in Seq(Chars)
      BY DEF Typed, ClientTyped
    <3>2. (shown \o UpToEof(s)) \o r = shown \o (UpToEof(s) \o r)
      BY <2>3, <3>1, Joining
    <3> QED
      BY <2>3, <3>2
  <2>6. recv_buf'.data = shown' \o r
    BY <2>1, <2>2, <2>4, <2>5
  <2>7. c_pc' # "exit" => recv_buf'.data = shown'
    BY <2>1, <2>2, <2>3, <2>4
  <2> QED
    BY <2>6, <2>7
<1> QED
  BY <1>2, <1>3, <1>4, CSockIs

\* Every step keeps the log complete.
LEMMA LogStep ==
  ASSUME Typed, Places, KeysLeft, LogOK, [Next]_vars
  PROVE  LogOK'
<1> USE DEF client, server, child, net
<1>1. CASE CKey /\ c_status = Running
  BY <1>1, KeyLogged
<1>2. CASE CSock /\ c_status = Running
  BY <1>2, OutputLogged
<1>3. CASE CRead
  <2>1. Handled' = Handled
    BY <1>3, ReadKeys DEF Handled, K
  <2> QED
    BY <1>3, <2>1, SameLog DEF CRead, CMoves
<1>4. CASE /\ c_status = Running
           /\ connect_to_server \/ tty_config \/ CPoll \/ CKeysDone
  <2>1. UNCHANGED <<scenario, keys, c_buf, sent_buf, recv_buf, shown>>
    BY <1>4 DEF connect_to_server, tty_config, CPoll, CKeysDone, CMoves, CExits
  <2>2. c_status' = c_status /\ (c_pc' # "exit" => c_pc # "exit")
    BY <1>4 DEF connect_to_server, tty_config, CPoll, CKeysDone, CMoves, CExits
  <2>3. Handled' = Handled
    BY <2>1 DEF Handled, K
  <2> QED
    BY <1>4, <2>1, <2>2, <2>3, SameLog
<1>5. CASE c_status = Running /\ shutdown_client
  <2>1. /\ UNCHANGED <<scenario, keys, c_buf, sent_buf, shown, c_pc>> /\ c_pc = "exit"
        /\ c_status' \in {0, 1}
    BY <1>5 DEF shutdown_client, Typed, ClientTyped
  <2>2. Handled' = Handled
    BY <2>1 DEF Handled, K
  <2> SUFFICES ASSUME scenario.log, ~scenario.compress
               PROVE  \E r \in Seq(Chars) : recv_buf'.data = Spaced(shown \o r)
    BY <1>5, <2>1, <2>2 DEF LogOK, K, Running
  <2>3. PICK r \in Seq(Chars) : recv_buf.data = shown \o r
    BY <1>5 DEF LogOK
  <2>4. PICK d : d = Spaced(recv_buf.data)
    OBVIOUS
  <2>5. recv_buf' = [recv_buf EXCEPT !.data = d] /\ recv_buf \in Buffers
    BY <1>5, <2>4 DEF shutdown_client, Spaced, Typed, ClientTyped
  <2>6. recv_buf'.data = d
    BY <2>5 DEF Buffers
  <2> QED
    BY <2>3, <2>4, <2>6
<1>6. CASE Server \/ ShellMust \/ ShellMay \/ Reset \/ UNCHANGED vars
  <2>1. UNCHANGED <<scenario, keys, c_buf, sent_buf, recv_buf, shown, c_pc, c_status>>
    <3>1. CASE Server
      BY <3>1 DEF Server, Listen, Accept, SPoll, SRead, SKey, SKeysDone, SPipe, SStore, SSend,
                  SHup, shutdown_server
    <3>2. CASE ShellMust \/ ShellMay \/ Reset \/ UNCHANGED vars
      BY <3>2 DEF ShellMust, ShellMay, Reset, vars, Outside
    <3> QED
      BY <1>6, <3>1, <3>2
  <2>2. Handled' = Handled
    BY <2>1 DEF Handled, K
  <2> QED
    BY <2>1, <2>2, SameLog
<1> QED
  BY <1>1, <1>2, <1>3, <1>4, <1>5, <1>6 DEF Next, Client

\* The streams of the shell's output are sequences of characters.
LEMMA Streams ==
  ASSUME Typed
  PROVE  /\ shown \in Seq(Chars) /\ down \in Seq(Chars) /\ s_out \in Seq(Chars)
         /\ to_par \in Seq(Chars) /\ written \in Seq(Chars)
  BY DEF Typed, ClientTyped, NetTyped, ServerTyped, ChildTyped

\* A step that leaves the shell's output where it is.
LEMMA SameOutput ==
  ASSUME Output, UNCHANGED <<shown, down, s_out, to_par, written>>, COk' => COk, SOk' => SOk
  PROVE  Output'
BY DEF Output

\* The shell writes a character.
LEMMA WriteOutput ==
  ASSUME Typed, Output, ShellWrites, UNCHANGED Outside
  PROVE  Output'
<1>1. pending \in Chars /\ UNCHANGED <<shown, down, s_out>> /\ COk' = COk /\ SOk' = SOk
  BY DEF ShellWrites, Typed, ChildTyped, Outside, client, server, net, COk, SOk
<1>2. written' = Append(written, pending) /\ to_par' = Append(to_par, pending)
  BY DEF ShellWrites
<1>3. ASSUME NEW a \in Seq(Chars), NEW r \in Seq(Chars), written = a \o r
      PROVE  Append(r, pending) \in Seq(Chars) /\ written' = a \o Append(r, pending)
  <2>1. PICK x \in Chars : x = pending
    BY <1>1
  <2>2. Append(r, x) \in Seq(Chars) /\ a \o Append(r, x) = Append(a \o r, x)
    BY JoiningOne
  <2> QED
    BY <1>2, <1>3, <2>1, <2>2
<1>4. \E r \in Seq(Chars) : written' = shown' \o r
  <2>1. PICK r \in Seq(Chars) : written = shown \o r
    BY DEF Output
  <2> QED
    BY <1>1, <1>3, <2>1, Streams
<1>5. ASSUME COk' PROVE \E r \in Seq(Chars) : written' = (shown' \o down') \o r
  <2>1. PICK r \in Seq(Chars) : written = (shown \o down) \o r
    BY <1>1, <1>5 DEF Output
  <2>2. shown \o down \in Seq(Chars)
    BY Streams
  <2> QED
    BY <1>1, <1>3, <2>1, <2>2
<1>6. ASSUME COk', SOk' PROVE written' = ((shown' \o down') \o s_out') \o to_par'
  <2>1. written = ((shown \o down) \o s_out) \o to_par
    BY <1>1, <1>6 DEF Output
  <2>2. (shown \o down) \o s_out \in Seq(Chars)
    BY Streams
  <2> QED
    BY <1>1, <1>2, <1>3, <2>1, <2>2, Streams
<1> QED
  BY <1>4, <1>5, <1>6 DEF Output

\* The server reads what it has room for.
LEMMA PipeOutput ==
  ASSUME Typed, Places, Output, SPipe
  PROVE  Output'
<1>0. UNCHANGED <<shown, down, written>> /\ COk' = COk /\ (SOk' => SOk)
  BY DEF SPipe, SMoves, client, net, COk, SOk
<1>1. CASE UNCHANGED <<s_out, to_par>>
  BY <1>0, <1>1, SameOutput
<1>2. CASE ~(UNCHANGED <<s_out, to_par>>)
  <2> DEFINE n == IF Len(to_par) < READ_SIZE THEN Len(to_par) ELSE READ_SIZE
  <2>1. s_out' = SubSeq(to_par, 1, n) /\ to_par' = SubSeq(to_par, n + 1, Len(to_par))
    BY <1>2 DEF SPipe
  <2>2. n \in 0..Len(to_par)
    BY ScenarioIs, Streams DEF Typed
  <2> HIDE DEF n
  <2>3. s_out' \o to_par' = to_par /\ s_out' \in Seq(Chars) /\ to_par' \in Seq(Chars)
    BY <2>1, <2>2, Splitting, Streams
  <2>4. s_out = <<>>
    BY DEF Places, SPipe
  <2>5. shown \o down \in Seq(Chars)
    BY Streams
  <2>6. ((shown \o down) \o s_out) \o to_par = ((shown \o down) \o s_out') \o to_par'
    <3>1. (shown \o down) \o s_out = shown \o down
      BY <2>4, <2>5, JoiningNone
    <3>2. ((shown \o down) \o s_out') \o to_par' = (shown \o down) \o (s_out' \o to_par')
      <4>1. PICK a \in Seq(Chars), b \in Seq(Chars), c \in Seq(Chars) :
              a = shown \o down /\ b = s_out' /\ c = to_par'
        BY <2>3, <2>5
      <4>2. (a \o b) \o c = a \o (b \o c)
        BY Joining
      <4> QED
        BY <4>1, <4>2
    <3> QED
      BY <2>3, <3>1, <3>2
  <2> QED
    BY <1>0, <2>6 DEF Output
<1> QED
  BY <1>1, <1>2

\* The server sends what it has read.
LEMMA SendOutput ==
  ASSUME Typed, Places, Output, s_status = Running, SSend
  PROVE  Output'
<1>0. /\ UNCHANGED <<shown, to_par, written>> /\ COk' = COk /\ SOk /\ s_out' = <<>>
      /\ s_rst => ~COk
  BY DEF SSend, client, child, COk, SOk, Places, CliClosed
<1>1. CASE s_rst
  <2>1. ~COk'
    BY <1>0, <1>1
  <2> QED
    BY <1>0, <2>1 DEF Output
<1>2. CASE ~s_rst
  <2>1. down' = down \o s_out
    BY <1>2 DEF SSend
  <2>2. shown \o down' = (shown \o down) \o s_out
    <3>1. PICK a \in Seq(Chars), b \in Seq(Chars), c \in Seq(Chars) :
            a = shown /\ b = down /\ c = s_out
      BY Streams
    <3>2. (a \o b) \o c = a \o (b \o c)
      BY Joining
    <3> QED
      BY <2>1, <3>1, <3>2
  <2>3. (shown \o down) \o s_out \in Seq(Chars)
    BY Streams
  <2>4. ((shown \o down) \o s_out) \o <<>> = (shown \o down) \o s_out
    BY <2>3, JoiningNone
  <2>5. COk => written = ((shown \o down) \o s_out) \o to_par
    BY <1>0 DEF Output
  <2>6. COk' => written' = (shown' \o down') \o to_par'
    BY <1>0, <2>2, <2>5
  <2>7. COk' => written' = ((shown' \o down') \o s_out') \o to_par'
    BY <1>0, <2>2, <2>4, <2>5
  <2>8. COk' => \E r \in Seq(Chars) : written' = (shown' \o down') \o r
    BY <1>0, <2>6, Streams
  <2> QED
    BY <1>0, <2>7, <2>8 DEF Output
<1> QED
  BY <1>1, <1>2

\* The client displays what it receives, up to a ^D.
LEMMA DisplayOutput ==
  ASSUME Typed, Output, c_status = Running, CSock
  PROVE  Output'
<1>0. UNCHANGED <<s_out, to_par, written>> /\ COk /\ SOk' = SOk
  BY DEF CSock, server, child, COk, SOk
<1>1. CASE UNCHANGED <<down, recv_buf, shown, c_status>>
  BY <1>0, <1>1, SameOutput
<1>2. ASSUME NEW s \in Seq(Chars), NEW d \in Seq(Chars), down = s \o d, down' = d,
             \/ c_status' = SigAbrt /\ UNCHANGED shown
             \/ scenario.compress /\ c_pc' = "inflate" /\ UNCHANGED <<shown, c_status>>
             \/ /\ shown' = shown \o UpToEof(s) /\ c_status' = c_status
                /\ c_pc' = IF Contains(s, "^D") THEN "exit" ELSE "poll"
      PROVE  Output'
  <2>1. PICK q \in Seq(Chars) : written = (shown \o down) \o q
    BY <1>0 DEF Output
  <2>2. CASE ~COk' /\ UNCHANGED shown
    BY <1>0, <2>2 DEF Output
  <2>3. CASE /\ shown' = shown \o UpToEof(s)
             /\ c_pc' = IF Contains(s, "^D") THEN "exit" ELSE "poll"
    <3>1. PICK r \in Seq(Chars) : /\ UpToEof(s) \in Seq(Chars) /\ s = UpToEof(s) \o r
                                  /\ ~Contains(s, "^D") => UpToEof(s) = s
      BY DisplayIs
    <3>2. PICK e \in Seq(Chars), a \in Seq(Chars) : e = UpToEof(s) /\ a = shown
      BY <3>1, Streams
    <3>3. PICK b \in Seq(Chars), c \in Seq(Chars) : b = d /\ c = s
      BY <1>2
    <3>4. written = (shown \o e) \o (r \o (d \o q))
      <4>1. Text(a) /\ Text(e) /\ Text(r) /\ Text(b) /\ Text(q)
        BY DEF Text
      <4>2. Cat(Cat(a, Cat(Cat(e, r), b)), q) = Cat(Cat(a, e), Cat(r, Cat(b, q)))
        BY <4>1, CatFive
      <4>3. (a \o ((e \o r) \o b)) \o q = (a \o e) \o (r \o (b \o q))
        BY <4>2 DEF Cat
      <4> QED
        BY <1>2, <2>1, <3>1, <3>2, <3>3, <4>3
    <3>5. \E z \in Seq(Chars) : written' = shown' \o z
      <4>1. r \o (d \o q) \in Seq(Chars)
        BY Joining
      <4> QED
        BY <1>0, <2>3, <3>2, <3>4, <4>1
    <3>6. COk' => ~Contains(s, "^D") /\ shown' = shown \o s
      BY <2>3, <3>1 DEF COk
    <3>7. COk' => shown' \o down' = shown \o down
      <4>1. (a \o c) \o b = a \o (c \o b)
        OBVIOUS
      <4> QED
        BY <1>2, <3>2, <3>3, <3>6, <4>1
    <3> QED
      BY <1>0, <3>5, <3>7 DEF Output
  <2> QED
    BY <1>2, <2>2, <2>3 DEF COk, SigAbrt, Running
<1> QED
  BY <1>1, <1>2, CSockIs

\* Every step leaves the shell's output in order and loses none of it.
LEMMA OutputStep ==
  ASSUME Typed, Places, Output, [Next]_vars
  PROVE  Output'
<1> USE DEF client, server, child, net
<1>1. CASE Client /\ CSock
  BY <1>1, DisplayOutput DEF Client
<1>2. CASE Client /\ ~CSock
  <2>1. UNCHANGED <<shown, down, s_out, to_par, written, s_pc, s_status>>
    BY <1>2 DEF Client, connect_to_server, tty_config, CPoll, CRead, CKey, CKeysDone,
                shutdown_client
  <2>2. c_pc \in {"exit", "inflate"} => c_pc' \in {"exit", "inflate"}
    BY <1>2 DEF Client, connect_to_server, tty_config, CPoll, CRead, CKey, CKeysDone,
                shutdown_client
  <2>3. c_status = Running
    BY <1>2 DEF Client
  <2> QED
    BY <2>1, <2>2, <2>3, SameOutput DEF COk, SOk
<1>3. CASE Server /\ SPipe
  BY <1>3, PipeOutput
<1>4. CASE Server /\ SSend
  BY <1>4, SendOutput DEF Server
<1>5. CASE Server /\ ~SPipe /\ ~SSend
  <2>1. UNCHANGED <<shown, down, s_out, to_par, written, c_pc, c_status>>
    BY <1>5 DEF Server, Listen, Accept, SPoll, SRead, SKey, SKeysDone, SStore, SHup,
                shutdown_server
  <2>2. s_pc = "exit" => s_pc' = "exit"
    BY <1>5 DEF Server, Listen, Accept, SPoll, SRead, SKey, SKeysDone, SStore, SHup,
                shutdown_server, SKilled
  <2>3. s_status = Running
    BY <1>5 DEF Server
  <2> QED
    BY <2>1, <2>2, <2>3, SameOutput DEF COk, SOk
<1>6. CASE ShellWrites /\ UNCHANGED Outside
  BY <1>6, WriteOutput
<1>7. CASE (ShellReads \/ ShellEof \/ ShellStartsWrite \/ ShellExits) /\ UNCHANGED Outside
  BY <1>7, SameOutput DEF ShellReads, ShellEof, ShellStartsWrite, ShellExits, Outside, COk, SOk
<1>8. CASE Reset \/ UNCHANGED vars
  BY <1>8, SameOutput DEF Reset, vars, COk, SOk
<1> QED
  BY <1>1, <1>2, <1>3, <1>4, <1>5, <1>6, <1>7, <1>8 DEF Next, ShellMust, ShellMay

-----------------------------------------------------------------------------
\* From the keyboard to the shell

Skipped(s, n) == s[n] = "^C" \/ \E j \in 1..n : s[j] = "^D"

\* The recursion that defines ForShell() has a solution, built key by key.
LEMMA ForShellDef ==
  ASSUME NEW s \in Seq(Keys)
  PROVE  /\ ForShell(s)[0] = <<>>
         /\ \A n \in 1..Len(s) :
              ForShell(s)[n] = IF Skipped(s, n) THEN ForShell(s)[n - 1]
                               ELSE Append(ForShell(s)[n - 1], ToShell(s[n]))
<1> DEFINE Body(f, n) == IF n = 0 THEN <<>>
                         ELSE IF s[n] = "^C" \/ (\E j \in 1..n : s[j] = "^D") THEN f[n - 1]
                         ELSE Append(f[n - 1], ToShell(s[n]))
           P(m) == \E f : f = [n \in 0..m |-> Body(f, n)]
           T == {m \in Nat : ~P(m)}
           F == CHOOSE f : f = [n \in 0..Len(s) |-> Body(f, n)]
<1>1. Len(s) \in Nat
  OBVIOUS
<1>2. P(0)
  <2> DEFINE f == [n \in 0..0 |-> <<>>]
  <2>1. f = [n \in 0..0 |-> Body(f, n)]
    OBVIOUS
  <2> QED
    BY <2>1
<1>3. ASSUME NEW m \in Nat, P(m) PROVE P(m + 1)
  <2>1. PICK f : f = [n \in 0..m |-> Body(f, n)]
    BY <1>3
  <2> DEFINE g == [n \in 0..(m + 1) |-> IF n = m + 1 THEN Body(f, n) ELSE f[n]]
  <2>2. ASSUME NEW n \in 0..(m + 1) PROVE g[n] = Body(g, n)
    <3>1. CASE n = 0
      <4>1. f[0] = Body(f, 0)
        BY <2>1
      <4> QED
        BY <3>1, <4>1
    <3>2. CASE n # 0
      <4>1. n - 1 \in 0..m /\ n - 1 # m + 1 /\ n - 1 \in 0..(m + 1)
        BY <3>2
      <4>2. g[n - 1] = f[n - 1]
        BY <4>1
      <4>3. Body(g, n) = Body(f, n)
        <5> HIDE DEF g
        <5> QED
          BY <3>2, <4>2
      <4>4. n # m + 1 => f[n] = Body(f, n)
        <5> SUFFICES ASSUME n # m + 1 PROVE f[n] = Body(f, n)
          OBVIOUS
        <5>1. n \in 0..m
          OBVIOUS
        <5> HIDE DEF Body
        <5> QED
          BY <5>1, <2>1
      <4> QED
        BY <4>3, <4>4
    <3> QED
      BY <3>1, <3>2
  <2> HIDE DEF Body
  <2>3. g = [n \in 0..(m + 1) |-> Body(g, n)]
    BY <2>2
  <2> QED
    BY <2>3
<1>4. T = {}
  <2> HIDE DEF P
  <2>1. SUFFICES ASSUME T # {} PROVE FALSE
    OBVIOUS
  <2>2. PICK x \in T : \A y \in T : x <= y
    BY <2>1, Least
  <2>3. x \in Nat /\ ~P(x) /\ x # 0
    BY <1>2
  <2>4. x - 1 \in Nat /\ x - 1 \notin T /\ (x - 1) + 1 = x
    BY <2>2, <2>3
  <2>5. P(x - 1)
    BY <2>4
  <2> QED
    BY <2>3, <2>4, <2>5, <1>3
<1>5. P(Len(s))
  <2> HIDE DEF P
  <2> QED
    BY <1>1, <1>4
<1>6. F = [n \in 0..Len(s) |-> Body(F, n)]
  <2> HIDE DEF Body
  <2> QED
    BY <1>5
<1>7. ForShell(s) = F
  BY DEF ForShell
<1> HIDE DEF F
<1>8. \A n \in 0..Len(s) : F[n] = Body(F, n)
  <2> HIDE DEF Body
  <2> QED
    BY <1>6
<1>9. F[0] = <<>>
  BY <1>1, <1>8
<1>10. ASSUME NEW n \in 1..Len(s)
       PROVE  F[n] = IF Skipped(s, n) THEN F[n - 1] ELSE Append(F[n - 1], ToShell(s[n]))
  <2>1. n \in 0..Len(s) /\ n # 0
    BY <1>1
  <2>2. F[n] = Body(F, n)
    BY <1>8, <2>1
  <2> QED
    BY <2>1, <2>2 DEF Skipped
<1> QED
  BY <1>7, <1>9, <1>10

\* Keys as the shell is to see them.
LEMMA PlainIs ==
  ASSUME NEW s \in Seq(Chars)
  PROVE  /\ Plain(s) \in Seq(Chars) /\ Len(Plain(s)) = Len(s)
         /\ \A j \in 1..Len(s) : Plain(s)[j] = ToShell(s[j])
<1>1. \A c \in Chars : ToShell(c) \in Chars
  BY DEF ToShell, Chars, Keys
<1>2. DOMAIN s = 1..Len(s) /\ Len(s) \in Nat /\ \A j \in 1..Len(s) : s[j] \in Chars
  OBVIOUS
<1>3. Plain(s) = [j \in 1..Len(s) |-> ToShell(s[j])]
  BY <1>2 DEF Plain
<1>4. \A j \in 1..Len(s) : ToShell(s[j]) \in Chars
  BY <1>1, <1>2
<1> HIDE DEF Plain
<1> QED
  BY <1>2, <1>3, <1>4, IsASeq

\* ... one text after another
LEMMA PlainCat ==
  ASSUME NEW a, NEW b, Text(a), Text(b)
  PROVE  Plain(Cat(a, b)) = Cat(Plain(a), Plain(b)) /\ Text(Plain(a))
<1>1. a \in Seq(Chars) /\ b \in Seq(Chars) /\ Len(a) \in Nat /\ Len(b) \in Nat
  BY DEF Text
<1>2. /\ a \o b \in Seq(Chars) /\ Len(a \o b) = Len(a) + Len(b)
      /\ \A j \in 1..(Len(a) + Len(b)) : (a \o b)[j] = IF j <= Len(a) THEN a[j] ELSE b[j - Len(a)]
  BY <1>1, ConcatProperties
<1>3. /\ Plain(a) \in Seq(Chars) /\ Len(Plain(a)) = Len(a)
      /\ \A j \in 1..Len(a) : Plain(a)[j] = ToShell(a[j])
  BY <1>1, PlainIs
<1>4. /\ Plain(b) \in Seq(Chars) /\ Len(Plain(b)) = Len(b)
      /\ \A j \in 1..Len(b) : Plain(b)[j] = ToShell(b[j])
  BY <1>1, PlainIs
<1>5. PICK u \in Seq(Chars) : u = Plain(a)
  BY <1>3
<1>6. PICK v \in Seq(Chars) : v = Plain(b)
  BY <1>4
<1>7. PICK w \in Seq(Chars) : w = a \o b
  BY <1>2
<1>8. /\ Plain(w) \in Seq(Chars) /\ Len(Plain(w)) = Len(w)
      /\ \A j \in 1..Len(w) : Plain(w)[j] = ToShell(w[j])
  BY PlainIs
<1>9. /\ u \o v \in Seq(Chars) /\ Len(u \o v) = Len(u) + Len(v)
      /\ \A j \in 1..(Len(u) + Len(v)) : (u \o v)[j] = IF j <= Len(u) THEN u[j] ELSE v[j - Len(u)]
  BY ConcatProperties
<1>10. Len(u) = Len(a) /\ Len(v) = Len(b) /\ Len(w) = Len(a) + Len(b)
  BY <1>2, <1>3, <1>4, <1>5, <1>6, <1>7
<1>11. ASSUME NEW j \in 1..Len(w) PROVE Plain(w)[j] = (u \o v)[j]
  <2>1. Plain(w)[j] = ToShell(w[j]) /\ j \in 1..(Len(a) + Len(b))
    BY <1>8, <1>10
  <2>2. CASE j <= Len(a)
    <3>1. j \in 1..Len(a)
      BY <1>1, <2>1, <2>2
    <3>2. w[j] = a[j]
      BY <1>2, <1>7, <2>1, <2>2
    <3>3. (u \o v)[j] = u[j]
      BY <1>9, <1>10, <2>1, <2>2
    <3> QED
      BY <1>3, <1>5, <2>1, <3>1, <3>2, <3>3
  <2>3. CASE ~(j <= Len(a))
    <3>1. j - Len(a) \in 1..Len(b)
      BY <1>1, <2>1, <2>3
    <3>2. w[j] = b[j - Len(a)]
      BY <1>2, <1>7, <2>1, <2>3
    <3>3. (u \o v)[j] = v[j - Len(a)]
      BY <1>9, <1>10, <2>1, <2>3
    <3> QED
      BY <1>4, <1>6, <2>1, <3>1, <3>2, <3>3
  <2> QED
    BY <2>2, <2>3
<1>12. Plain(w) = u \o v
  BY <1>8, <1>9, <1>10, <1>11, SeqEqual
<1> QED
  BY <1>3, <1>5, <1>6, <1>7, <1>12 DEF Cat, Text

\* ... without its first key
LEMMA PlainTail ==
  ASSUME NEW s \in Seq(Chars), s # <<>>
  PROVE  /\ Plain(s) # <<>> /\ Head(Plain(s)) = ToShell(Head(s))
         /\ Tail(Plain(s)) = Plain(Tail(s))
<1>1. /\ Head(s) = s[1] /\ Tail(s) \in Seq(Chars) /\ Len(Tail(s)) = Len(s) - 1
      /\ Len(s) \in Nat \ {0} /\ \A j \in 1..(Len(s) - 1) : Tail(s)[j] = s[j + 1]
  BY HeadTailProperties, Taking
<1>2. PICK t \in Seq(Chars) : t = Tail(s)
  BY <1>1
<1>3. /\ Plain(s) \in Seq(Chars) /\ Len(Plain(s)) = Len(s)
      /\ \A j \in 1..Len(s) : Plain(s)[j] = ToShell(s[j])
  BY PlainIs
<1>4. /\ Plain(t) \in Seq(Chars) /\ Len(Plain(t)) = Len(t)
      /\ \A j \in 1..Len(t) : Plain(t)[j] = ToShell(t[j])
  BY PlainIs
<1>5. PICK p \in Seq(Chars) : p = Plain(s)
  BY <1>3
<1>6. p # <<>>
  BY <1>1, <1>3, <1>5
<1>7. /\ Head(p) = p[1] /\ Tail(p) \in Seq(Chars) /\ Len(Tail(p)) = Len(p) - 1
      /\ \A j \in 1..(Len(p) - 1) : Tail(p)[j] = p[j + 1]
  BY <1>6, HeadTailProperties
<1>8. ASSUME NEW j \in 1..Len(t) PROVE Tail(p)[j] = Plain(t)[j]
  <2>1. j \in 1..(Len(p) - 1) /\ j \in 1..(Len(s) - 1) /\ j + 1 \in 1..Len(s)
    BY <1>1, <1>2, <1>3, <1>5
  <2> QED
    BY <1>1, <1>2, <1>3, <1>4, <1>5, <1>7, <2>1
<1>9. Tail(p) = Plain(t)
  <2>1. Len(Tail(p)) = Len(Plain(t)) /\ Len(Tail(p)) = Len(t)
    BY <1>1, <1>2, <1>3, <1>4, <1>5, <1>7
  <2> QED
    BY <1>4, <1>7, <1>8, <2>1, SeqEqual
<1>10. Head(p) = ToShell(Head(s))
  BY <1>1, <1>3, <1>5, <1>7
<1> QED
  BY <1>2, <1>5, <1>6, <1>9, <1>10

\* What is on its way is a text, put together from four.
LEMMA WayIs ==
  ASSUME Typed
  PROVE  /\ OnTheWay \in Seq(Chars) /\ Len(OnTheWay) \in Nat /\ K \in Seq(Chars)
         /\ Len(K) \in Nat /\ K \in Seq(Keys)
         /\ Text(s_buf) /\ Text(up) /\ Text(c_buf) /\ Text(keys)
         /\ Text(Cat(c_buf, keys)) /\ Text(Cat(up, Cat(c_buf, keys)))
         /\ OnTheWay = Cat(s_buf, Cat(up, Cat(c_buf, keys)))
<1>1. Text(s_buf) /\ Text(up) /\ Text(c_buf) /\ Text(keys)
  BY KeysAreChars DEF Text, Typed, ServerTyped, NetTyped, ClientTyped
<1>2. Text(Cat(c_buf, keys))
  BY <1>1, CatText
<1>3. Text(Cat(up, Cat(c_buf, keys)))
  BY <1>1, <1>2, CatText
<1>4. Text(Cat(s_buf, Cat(up, Cat(c_buf, keys))))
  BY <1>1, <1>3, CatText
<1>5. OnTheWay = Cat(s_buf, Cat(up, Cat(c_buf, keys)))
  BY DEF OnTheWay, Cat
<1>6. OnTheWay \in Seq(Chars)
  BY <1>4, <1>5 DEF Text
<1>7. Len(OnTheWay) \in Nat
  BY <1>6
<1> QED
  BY <1>1, <1>2, <1>3, <1>5, <1>6, <1>7, ScenarioIs, KeysAreChars DEF Typed

\* Four texts put together are a text.
LEMMA FourText ==
  ASSUME NEW a, NEW b, NEW c, NEW d, Text(a), Text(b), Text(c), Text(d)
  PROVE  Text(Cat(c, d)) /\ Text(Cat(b, Cat(c, d))) /\ Text(Cat(a, Cat(b, Cat(c, d))))
<1>1. Text(Cat(c, d))
  BY CatText
<1>2. Text(Cat(b, Cat(c, d)))
  BY <1>1, CatText
<1> QED
  BY <1>1, <1>2, CatText

\* What is on its way after a step.
LEMMA NextWay ==
  ASSUME Typed'
  PROVE  /\ OnTheWay' \in Seq(Chars) /\ Len(OnTheWay') \in Nat
         /\ Text(s_buf') /\ Text(up') /\ Text(c_buf') /\ Text(keys')
         /\ Text(Cat(c_buf', keys')) /\ Text(Cat(up', Cat(c_buf', keys')))
         /\ OnTheWay' = Cat(s_buf', Cat(up', Cat(c_buf', keys')))
<1>1. Text(s_buf') /\ Text(up') /\ Text(c_buf') /\ Text(keys')
  BY KeysAreChars DEF Text, Typed, ServerTyped, NetTyped, ClientTyped
<1>2. /\ Text(Cat(c_buf', keys')) /\ Text(Cat(up', Cat(c_buf', keys')))
      /\ Text(Cat(s_buf', Cat(up', Cat(c_buf', keys'))))
  BY <1>1, FourText
<1>3. OnTheWay' = Cat(s_buf', Cat(up', Cat(c_buf', keys')))
  BY DEF OnTheWay, Cat
<1>4. OnTheWay' \in Seq(Chars)
  BY <1>2, <1>3 DEF Text
<1>5. Len(OnTheWay') \in Nat
  BY <1>4
<1> QED
  BY <1>1, <1>2, <1>3, <1>4, <1>5

\* KeysInOrder, in the names used here.
LEMMA InOrderIs ==
  KeysInOrder <=>
    (~scenario.compress =>
       /\ \E n \in 0..Len(K) : Here = ForShell(K)[n]
       /\ ~c_rst => /\ Past \in 0..Len(K)
                    /\ Here = ForShell(K)[Past]
                    /\ Plain(OnTheWay) = SubSeq(Plain(K), Past + 1, Len(K)))
  BY DEF KeysInOrder, Here, Past, K

\* A step after which the same keys are on their way.
LEMMA SameWay ==
  ASSUME Typed, Typed', Open, KeysInOrder, UNCHANGED <<scenario, wr_open>>, Here' = Here,
         c_rst => c_rst',
         ~c_rst' /\ ~scenario.compress => Plain(OnTheWay)' = Plain(OnTheWay),
         s_pc \in {"bind", "accept"} <=> s_pc' \in {"bind", "accept"}
  PROVE  Open' /\ KeysInOrder'
<1>1. K' = K
  BY DEF K
<1>2. ~c_rst' /\ ~scenario.compress => Past' = Past /\ EofSeen' = EofSeen
  <2> SUFFICES ASSUME ~c_rst', ~scenario.compress PROVE Past' = Past /\ EofSeen' = EofSeen
    OBVIOUS
  <2>1. OnTheWay \in Seq(Chars) /\ OnTheWay' \in Seq(Chars)
    BY WayIs, NextWay
  <2>2. Len(OnTheWay) = Len(Plain(OnTheWay))
    BY <2>1, PlainIs
  <2>3. PICK w \in Seq(Chars) : w = OnTheWay'
    BY <2>1
  <2>4. Len(w) = Len(Plain(w))
    BY PlainIs
  <2>5. Plain(w) = Plain(OnTheWay)
    BY <2>3 DEF Plain
  <2>6. Past' = Past
    BY <1>1, <2>2, <2>3, <2>4, <2>5 DEF Past
  <2> QED
    BY <1>1, <2>6 DEF EofSeen
<1>3. Open'
  BY <1>2 DEF Open
<1>4. KeysInOrder'
  <2> SUFFICES ASSUME ~scenario.compress
               PROVE  /\ \E n \in 0..Len(K) : Here = ForShell(K)[n]
                      /\ ~c_rst' => /\ Past' \in 0..Len(K)
                                    /\ Here = ForShell(K)[Past']
                                    /\ Plain(OnTheWay)' = SubSeq(Plain(K), Past' + 1, Len(K))
    <3>1. KeysInOrder' <=>
            (~scenario'.compress =>
               /\ \E n \in 0..Len(K') : Here' = ForShell(K')[n]
               /\ ~c_rst' => /\ Past' \in 0..Len(K')
                             /\ Here' = ForShell(K')[Past']
                             /\ Plain(OnTheWay)' = SubSeq(Plain(K'), Past' + 1, Len(K')))
      BY DEF KeysInOrder, Here, Past, K, Plain, ForShell
    <3> QED
      BY <1>1, <3>1
  <2> QED
    BY <1>2, InOrderIs
<1> QED
  BY <1>3, <1>4

\* A step that touches none of it.
LEMMA SameKeys ==
  ASSUME Typed, Typed', Open, KeysInOrder,
         UNCHANGED <<scenario, wr_open, s_buf, up, c_buf, keys, got, to_chld>>,
         c_rst => c_rst', s_pc \in {"bind", "accept"} <=> s_pc' \in {"bind", "accept"}
  PROVE  Open' /\ KeysInOrder'
<1>1. OnTheWay' = OnTheWay /\ Here' = Here
  BY DEF OnTheWay, Here
<1>2. Plain(OnTheWay)' = Plain(OnTheWay)
  BY <1>1 DEF Plain
<1> QED
  BY <1>1, <1>2, SameWay

\* read() of the client moves keys from one of its buffers to the next.
LEMMA CReadWay ==
  ASSUME Typed, Typed', Places, Open, KeysInOrder, CRead
  PROVE  Open' /\ KeysInOrder'
<1>1. c_buf' \o keys' = c_buf \o keys
  BY ReadKeys
<1>2. UNCHANGED <<scenario, wr_open, s_buf, up, got, to_chld, c_rst, s_pc>>
  BY DEF CRead, server, child, net
<1>3. OnTheWay' = OnTheWay
  BY <1>1, <1>2 DEF OnTheWay
<1>4. Plain(OnTheWay)' = Plain(OnTheWay) /\ Here' = Here
  BY <1>2, <1>3 DEF Plain, Here
<1> QED
  BY <1>2, <1>4, SameWay

\* A key that moves from one buffer to the one before, as itself or as a line feed.
LEMMA SentOn ==
  ASSUME NEW a, NEW b, NEW d, NEW k, NEW x, NEW y, Text(a), Text(b), Text(d), Text(k),
         Text(x), Text(y), Plain(x) = Plain(y)
  PROVE  Plain(Cat(a, Cat(Cat(b, x), Cat(d, k)))) = Plain(Cat(a, Cat(b, Cat(Cat(y, d), k))))
<1>1. /\ Text(Cat(d, k)) /\ Text(Cat(x, Cat(d, k))) /\ Text(Cat(b, Cat(x, Cat(d, k))))
      /\ Text(Cat(y, Cat(d, k))) /\ Text(Cat(b, Cat(y, Cat(d, k))))
  BY FourText
<1>2. Cat(Cat(b, x), Cat(d, k)) = Cat(b, Cat(x, Cat(d, k)))
  BY <1>1, CatAssoc
<1>3. Cat(Cat(y, d), k) = Cat(y, Cat(d, k))
  BY CatAssoc
<1>4. Plain(Cat(x, Cat(d, k))) = Plain(Cat(y, Cat(d, k)))
  <2>1. Plain(Cat(x, Cat(d, k))) = Cat(Plain(x), Plain(Cat(d, k)))
    BY <1>1, PlainCat
  <2>2. Plain(Cat(y, Cat(d, k))) = Cat(Plain(y), Plain(Cat(d, k)))
    BY <1>1, PlainCat
  <2> QED
    BY <2>1, <2>2
<1>5. Plain(Cat(b, Cat(x, Cat(d, k)))) = Plain(Cat(b, Cat(y, Cat(d, k))))
  <2>1. Plain(Cat(b, Cat(x, Cat(d, k)))) = Cat(Plain(b), Plain(Cat(x, Cat(d, k))))
    BY <1>1, PlainCat
  <2>2. Plain(Cat(b, Cat(y, Cat(d, k)))) = Cat(Plain(b), Plain(Cat(y, Cat(d, k))))
    BY <1>1, PlainCat
  <2> QED
    BY <1>4, <2>1, <2>2
<1>6. Plain(Cat(a, Cat(b, Cat(x, Cat(d, k))))) = Cat(Plain(a), Plain(Cat(b, Cat(x, Cat(d, k)))))
  BY <1>1, PlainCat
<1>7. Plain(Cat(a, Cat(b, Cat(y, Cat(d, k))))) = Cat(Plain(a), Plain(Cat(b, Cat(y, Cat(d, k)))))
  BY <1>1, PlainCat
<1> QED
  BY <1>2, <1>3, <1>5, <1>6, <1>7

\* The client sends a key.
LEMMA CKeyWay ==
  ASSUME Typed, Typed', KeysLeft, Open, KeysInOrder, CKey
  PROVE  Open' /\ KeysInOrder'
<1>1. PICK g \in {"?", "^D"} :
        \/ c_status' \in {SigAbrt, SigPipe} /\ UNCHANGED <<c_buf, up, c_pc>>
        \/ c_status' = c_status /\ c_pc' = c_pc /\ c_buf' = Tail(c_buf)
           /\ IF c_rst THEN up' = up ELSE up' = up \o Sent(Head(c_buf), g)
  BY CKeyIs
<1>2. UNCHANGED <<scenario, wr_open, s_buf, keys, got, to_chld, c_rst, s_pc>> /\ c_buf # <<>>
  BY DEF CKey, server, child
<1>3. Here' = Here
  BY <1>2 DEF Here
<1>4. CASE UNCHANGED <<c_buf, up>>
  BY <1>2, <1>4, SameKeys
<1>5. CASE c_buf' = Tail(c_buf) /\ IF c_rst THEN up' = up ELSE up' = up \o Sent(Head(c_buf), g)
  <2>1. ~c_rst' /\ ~scenario.compress => Plain(OnTheWay)' = Plain(OnTheWay)
    <3> SUFFICES ASSUME ~c_rst', ~scenario.compress PROVE Plain(OnTheWay)' = Plain(OnTheWay)
      OBVIOUS
    <3>1. PICK h, d : h = Head(c_buf) /\ d = Tail(c_buf)
      OBVIOUS
    <3>2. h \in Chars /\ d \in Seq(Chars) /\ c_buf = <<h>> \o d
      <4>1. c_buf \in Seq(Keys)
        BY DEF Typed, ClientTyped
      <4>2. h \in Keys /\ d \in Seq(Keys) /\ c_buf = <<h>> \o d
        BY <1>2, <3>1, <4>1, Taking
      <4> QED
        BY <4>2, KeysAreChars
    <3>3. Sent(h, g) = <<ToShell(h)>>
      BY DEF Sent, ToShell
    <3>4. ToShell(h) \in Chars /\ ToShell(ToShell(h)) = ToShell(h)
      BY <3>2 DEF ToShell, Newline, Chars, Keys
    <3>5. PICK x, y : x = <<ToShell(h)>> /\ y = <<h>>
      OBVIOUS
    <3>6. Text(x) /\ Text(y) /\ Text(d) /\ Text(s_buf) /\ Text(up) /\ Text(keys)
      BY <3>2, <3>4, <3>5, WayIs DEF Text
    <3>7. Plain(x) = Plain(y)
      <4>1. DOMAIN x = {1} /\ DOMAIN y = {1} /\ x[1] = ToShell(h) /\ y[1] = h
        BY <3>5
      <4> QED
        BY <3>4, <4>1 DEF Plain
    <3>8. up' = Cat(up, x) /\ c_buf = Cat(y, d) /\ c_buf' = d
      BY <1>2, <1>5, <3>1, <3>2, <3>3, <3>5 DEF Cat
    <3>9. OnTheWay' = Cat(s_buf, Cat(Cat(up, x), Cat(d, keys)))
      BY <1>2, <3>8, NextWay
    <3>10. OnTheWay = Cat(s_buf, Cat(up, Cat(Cat(y, d), keys)))
      BY <3>8, WayIs
    <3>11. Plain(OnTheWay)' = Plain(Cat(s_buf, Cat(Cat(up, x), Cat(d, keys))))
      BY <3>9 DEF Plain
    <3> QED
      BY <3>6, <3>7, <3>10, <3>11, SentOn
  <2> QED
    BY <1>2, <1>3, <2>1, SameWay
<1> QED
  BY <1>1, <1>4, <1>5

\* read() of the server.
LEMMA SReadWay ==
  ASSUME Typed, Typed', Places, Open, KeysInOrder, SRead
  PROVE  Open' /\ KeysInOrder'
<1> USE DEF SMoves
<1>1. /\ UNCHANGED <<scenario, wr_open, c_buf, keys, got, to_chld, c_rst>> /\ s_buf = <<>>
      /\ s_pc \notin {"bind", "accept"} /\ s_pc' \notin {"bind", "accept"}
  BY DEF SRead, client, child, Places
<1>2. CASE UNCHANGED <<s_buf, up>>
  BY <1>1, <1>2, SameKeys
<1>3. CASE \E n \in 1..MaxRead : /\ n <= Len(up) /\ up' = SubSeq(up, n + 1, Len(up))
                                 /\ s_buf' = SubSeq(up, 1, n)
  <2>1. PICK n \in 1..MaxRead : /\ n <= Len(up) /\ up' = SubSeq(up, n + 1, Len(up))
                                /\ s_buf' = SubSeq(up, 1, n)
    BY <1>3
  <2>2. up \in Seq(Chars) /\ n \in 0..Len(up)
    <3>1. up \in Seq(Chars) /\ MaxRead \in Nat
      BY ScenarioIs DEF Typed, NetTyped, MaxRead
    <3> QED
      BY <2>1, <3>1
  <2>3. Cat(s_buf', up') = up
    BY <2>1, <2>2, Splitting DEF Cat
  <2>4. PICK r : r = Cat(c_buf, keys)
    OBVIOUS
  <2>5. Text(r) /\ Text(s_buf') /\ Text(up') /\ Text(up) /\ Text(Cat(up, r))
    BY <2>4, WayIs, NextWay
  <2>6. OnTheWay' = Cat(s_buf', Cat(up', r)) /\ OnTheWay = Cat(<<>>, Cat(up, r))
    BY <1>1, <2>4, WayIs, NextWay
  <2>7. Cat(s_buf', Cat(up', r)) = Cat(up, r)
    BY <2>3, <2>5, CatAssoc
  <2>8. Cat(<<>>, Cat(up, r)) = Cat(up, r)
    <3>1. PICK w \in Seq(Chars) : w = Cat(up, r)
      BY <2>5 DEF Text
    <3>2. <<>> \o w = w
      BY JoiningNone
    <3> QED
      BY <3>1, <3>2 DEF Cat
  <2>9. OnTheWay' = OnTheWay
    BY <2>6, <2>7, <2>8
  <2>10. Plain(OnTheWay)' = Plain(OnTheWay) /\ Here' = Here
    BY <1>1, <2>9 DEF Plain, Here
  <2> QED
    BY <1>1, <2>10, SameWay
<1> QED
  BY <1>2, <1>3 DEF SRead

\* The server takes the next key that was typed.
LEMMA TakenKey ==
  ASSUME Typed, Typed', KeysInOrder, ~scenario.compress, ~c_rst, s_buf # <<>>,
         s_buf' = Tail(s_buf), UNCHANGED <<scenario, up, c_buf, keys>>
  PROVE  /\ Past \in Nat /\ Past + 1 \in 1..Len(K) /\ Past' = Past + 1
         /\ K[Past + 1] \in Keys /\ ToShell(K[Past + 1]) = ToShell(Head(s_buf))
         /\ Plain(OnTheWay)' = SubSeq(Plain(K), Past + 2, Len(K))
<1>1. PICK r : r = Cat(up, Cat(c_buf, keys))
  OBVIOUS
<1>2. s_buf \in Seq(Chars) /\ r \in Seq(Chars)
  BY <1>1, WayIs DEF Text
<1>3. OnTheWay = s_buf \o r /\ OnTheWay' = Tail(s_buf) \o r
  BY <1>1, WayIs, NextWay DEF Cat
<1>4. PICK w \in Seq(Chars) : w = OnTheWay
  BY WayIs
<1>5. w # <<>> /\ Head(w) = Head(s_buf) /\ OnTheWay' = Tail(w)
  BY <1>2, <1>3, <1>4, FirstOfTwo
<1>6. /\ Plain(w) # <<>> /\ Head(Plain(w)) = ToShell(Head(s_buf))
      /\ Tail(Plain(w)) = Plain(Tail(w))
  BY <1>5, PlainTail
<1>7. Len(w) \in Nat \ {0} /\ Len(Tail(w)) = Len(w) - 1
  BY <1>5, Taking
<1>8. K \in Seq(Keys) /\ K \in Seq(Chars) /\ Len(K) \in Nat /\ K' = K
  BY WayIs DEF K
<1>9. /\ Past \in 0..Len(K) /\ Past = Len(K) - Len(w) /\ Past' = Len(K) - Len(Tail(w))
      /\ Plain(w) = SubSeq(Plain(K), Past + 1, Len(K))
  BY <1>4, <1>5, <1>8, InOrderIs DEF Past
<1>10. PICK q \in Nat : q = Past
  <2>1. \A m \in Nat : \A x \in 0..m : x \in Nat
    OBVIOUS
  <2> QED
    BY <1>8, <1>9, <2>1
<1>11. q < Len(K) /\ q + 1 \in 1..Len(K) /\ Past' = q + 1
  BY <1>7, <1>8, <1>9, <1>10
<1>12. PICK p \in Seq(Chars) : p = Plain(K) /\ Len(p) = Len(K) /\ p[q + 1] = ToShell(K[q + 1])
  BY <1>8, <1>11, PlainIs
<1>13. /\ Head(SubSeq(p, q + 1, Len(p))) = p[q + 1]
       /\ Tail(SubSeq(p, q + 1, Len(p))) = SubSeq(p, q + 2, Len(p))
  BY <1>11, <1>12, NextRest
<1>14. K[q + 1] \in Keys
  BY <1>8, <1>11
<1>15. Plain(OnTheWay)' = Plain(Tail(w))
  BY <1>5 DEF Plain
<1> QED
  BY <1>6, <1>9, <1>10, <1>11, <1>12, <1>13, <1>14, <1>15

\* ... and does with it what is to be done.
LEMMA KeyTaken ==
  ASSUME Typed, Typed', KeysInOrder, ~scenario.compress, ~c_rst, ~c_rst', s_buf # <<>>,
         s_buf' = Tail(s_buf), UNCHANGED <<scenario, up, c_buf, keys>>,
         s_pc' \notin {"bind", "accept"}, wr_open' <=> ~(EofSeen \/ K[Past + 1] = "^D"),
         Here' = IF Skipped(K, Past + 1) THEN Here ELSE Append(Here, ToShell(Head(s_buf)))
  PROVE  Open' /\ KeysInOrder'
<1>1. /\ Past \in Nat /\ Past + 1 \in 1..Len(K) /\ Past' = Past + 1
      /\ ToShell(K[Past + 1]) = ToShell(Head(s_buf))
      /\ Plain(OnTheWay)' = SubSeq(Plain(K), Past + 2, Len(K))
  BY TakenKey
<1>2. K \in Seq(Chars) /\ Len(K) \in Nat /\ K' = K /\ Here = ForShell(K)[Past]
  BY WayIs, InOrderIs DEF K
<1>3. PICK q \in Nat : q = Past
  BY <1>1
<1>4. ForShell(K)[q + 1] = IF Skipped(K, q + 1) THEN ForShell(K)[q]
                           ELSE Append(ForShell(K)[q], ToShell(K[q + 1]))
  <2>1. (q + 1) - 1 = q
    OBVIOUS
  <2>2. \A n \in 1..Len(K) : ForShell(K)[n] = IF Skipped(K, n) THEN ForShell(K)[n - 1]
                                              ELSE Append(ForShell(K)[n - 1], ToShell(K[n]))
    BY <1>2, ForShellDef, WayIs
  <2> QED
    BY <1>1, <1>3, <2>1, <2>2
<1>5. Here' = ForShell(K)[q + 1]
  BY <1>1, <1>2, <1>3, <1>4
<1>6. EofSeen' <=> EofSeen \/ K[q + 1] = "^D"
  <2>1. EofSeen' <=> \E j \in 1..(q + 1) : K[j] = "^D"
    BY <1>1, <1>2, <1>3 DEF EofSeen
  <2>2. EofSeen <=> \E j \in 1..q : K[j] = "^D"
    BY <1>3 DEF EofSeen
  <2>3. 1..(q + 1) = 1..q \cup {q + 1}
    OBVIOUS
  <2> QED
    BY <2>1, <2>2, <2>3
<1>7. Open'
  BY <1>3, <1>6 DEF Open
<1>8. KeysInOrder'
  <2>1. KeysInOrder' <=>
          (~scenario'.compress =>
             /\ \E n \in 0..Len(K') : Here' = ForShell(K')[n]
             /\ ~c_rst' => /\ Past' \in 0..Len(K')
                           /\ Here' = ForShell(K')[Past']
                           /\ Plain(OnTheWay)' = SubSeq(Plain(K'), Past' + 1, Len(K')))
    BY DEF KeysInOrder, Here, Past, K, Plain, ForShell
  <2>2. q + 1 \in 0..Len(K) /\ (q + 1) + 1 = q + 2
    BY <1>1, <1>3
  <2> QED
    BY <1>1, <1>2, <1>3, <1>5, <2>1, <2>2
<1> QED
  BY <1>7, <1>8

\* The server handles a key.
LEMMA SKeyWay ==
  ASSUME Typed, Typed', Places, Open, KeysInOrder, SKey, s_status = Running
  PROVE  Open' /\ KeysInOrder'
<1> USE DEF SMoves, SKilled
<1>1. /\ UNCHANGED <<scenario, up, c_buf, keys, got, c_rst>> /\ s_buf # <<>>
      /\ s_pc = "key" /\ s_pc' \notin {"bind", "accept"} /\ ~c_rst
  BY DEF SKey, client, net, Places, SrvClosed, CtrlD, CtrlC, Forward
<1>2. CASE UNCHANGED <<s_buf, to_chld, wr_open>>
  BY <1>1, <1>2, SameKeys
<1>3. CASE scenario.compress
  BY <1>1, <1>3 DEF Open, KeysInOrder
<1>4. CASE ~scenario.compress /\ s_buf' = Tail(s_buf)
  <2>1. /\ Past \in Nat /\ Past + 1 \in 1..Len(K) /\ K[Past + 1] \in Keys
        /\ ToShell(K[Past + 1]) = ToShell(Head(s_buf))
    BY <1>1, <1>4, TakenKey
  <2>2. wr_open <=> ~EofSeen
    BY <1>1, <1>4 DEF Open
  <2>3. PICK h, k : h = Head(s_buf) /\ k = K[Past + 1]
    OBVIOUS
  <2>4. (h = "^D" <=> k = "^D") /\ (h = "^C" <=> k = "^C")
    BY <2>1, <2>3 DEF ToShell, Newline
  <2>5. Skipped(K, Past + 1) <=> k = "^C" \/ k = "^D" \/ EofSeen
    <3>1. PICK q \in Nat : q = Past
      BY <2>1
    <3>2. 1..(q + 1) = 1..q \cup {q + 1}
      OBVIOUS
    <3> QED
      BY <2>3, <3>1, <3>2 DEF Skipped, EofSeen
  <2>6. CASE h = "^D"
    <3>1. wr_open /\ wr_open' = FALSE /\ to_chld' = to_chld
      BY <1>1, <1>4, <2>3, <2>6, Taking DEF SKey, CtrlD, Typed, ServerTyped
    <3>2. Here' = Here
      BY <1>1, <3>1 DEF Here
    <3> QED
      BY <1>1, <1>4, <2>3, <2>4, <2>5, <2>6, <3>1, <3>2, KeyTaken
  <2>7. CASE h = "^C"
    <3>1. UNCHANGED <<wr_open, to_chld>>
      BY <2>3, <2>7 DEF SKey, CtrlC
    <3>2. Here' = Here
      BY <1>1, <3>1 DEF Here
    <3> QED
      BY <1>1, <1>4, <2>2, <2>3, <2>4, <2>5, <2>7, <3>1, <3>2, KeyTaken
  <2>8. CASE h \notin {"^D", "^C"}
    <3>1. UNCHANGED wr_open /\ Forward(h)
      BY <2>3, <2>8 DEF SKey
    <3>2. CASE ~wr_open
      <4>1. to_chld' = to_chld
        BY <3>1, <3>2 DEF Forward
      <4>2. Here' = Here
        BY <1>1, <4>1 DEF Here
      <4> QED
        BY <1>1, <1>4, <2>2, <2>3, <2>4, <2>5, <2>8, <3>1, <3>2, <4>2, KeyTaken
    <3>3. CASE wr_open
      <4>1. CASE to_chld' = to_chld /\ s_buf' = s_buf
        BY <1>2, <3>1, <4>1
      <4>2. CASE to_chld' = Append(to_chld, ToShell(h))
        <5>1. got \in Seq(Chars) /\ to_chld \in Seq(Chars) /\ h \in Chars
          <6>1. s_buf \in Seq(Chars)
            BY DEF Typed, ServerTyped
          <6> QED
            BY <1>1, <2>3, <6>1, Taking DEF Typed, ChildTyped
        <5>2. ToShell(h) \in Chars
          BY <5>1 DEF ToShell, Newline, Chars, Keys
        <5>3. Here' = Append(Here, ToShell(h))
          BY <1>1, <4>2, <5>1, <5>2, JoiningOne DEF Here
        <5> QED
          BY <1>1, <1>4, <2>2, <2>3, <2>4, <2>5, <2>8, <3>1, <3>3, <5>3, KeyTaken
      <4> QED
        BY <3>1, <3>3, <4>1, <4>2 DEF Forward, ToShell
    <3> QED
      BY <3>2, <3>3
  <2> QED
    BY <2>6, <2>7, <2>8
<1> QED
  BY <1>2, <1>3, <1>4 DEF SKey, CtrlD, CtrlC, Forward

\* accept() and exec_prgm(): nothing has been taken for the shell yet.
LEMMA AcceptWay ==
  ASSUME Typed, Typed', Open, KeysInOrder, Accept
  PROVE  Open' /\ KeysInOrder'
<1> USE DEF SMoves, SKilled
<1>1. /\ UNCHANGED <<scenario, s_buf, up, c_buf, keys, got, to_chld, c_rst>> /\ s_pc = "accept"
  BY DEF Accept, client, net
<1>2. CASE UNCHANGED <<s_pc, wr_open>>
  BY <1>1, <1>2, SameKeys
<1>3. CASE s_pc' = "poll" /\ wr_open' = TRUE
  <2>1. OnTheWay' = OnTheWay /\ K' = K /\ Here' = Here
    BY <1>1 DEF OnTheWay, K, Here
  <2>2. Past' = Past /\ Plain(OnTheWay)' = Plain(OnTheWay)
    BY <2>1 DEF Past, Plain
  <2>3. ~scenario.compress /\ ~c_rst => ~EofSeen'
    <3>1. ~scenario.compress /\ ~c_rst => Past' = 0
      BY <1>1, <2>2 DEF Open
    <3>2. 1..0 = {}
      OBVIOUS
    <3> QED
      BY <3>1, <3>2 DEF EofSeen
  <2>4. Open'
    BY <1>1, <1>3, <2>3 DEF Open
  <2>5. KeysInOrder'
    BY <1>1 DEF KeysInOrder, OnTheWay
  <2> QED
    BY <2>4, <2>5
<1> QED
  BY <1>2, <1>3 DEF Accept, exec_prgm

\* The shell takes a character out of its pipe.
LEMMA ShellReadsWay ==
  ASSUME Typed, Typed', Open, KeysInOrder, ShellReads, UNCHANGED Outside
  PROVE  Open' /\ KeysInOrder'
<1>1. /\ UNCHANGED <<scenario, wr_open, s_buf, up, c_buf, keys, c_rst, s_pc>>
      /\ got' = Append(got, Head(to_chld)) /\ to_chld' = Tail(to_chld) /\ to_chld # <<>>
      /\ got \in Seq(Chars) /\ to_chld \in Seq(Chars)
  BY DEF Outside, client, server, net, ShellReads, Typed, ChildTyped
<1>2. PICK h, d : h = Head(to_chld) /\ d = Tail(to_chld)
  OBVIOUS
<1>3. h \in Chars /\ d \in Seq(Chars) /\ to_chld = <<h>> \o d
  BY <1>1, <1>2, Taking
<1>4. \A a \in Seq(Chars) : Append(a, h) = a \o <<h>> /\ <<h>> \in Seq(Chars)
  BY <1>3
<1>5. Here' = Here
  BY <1>1, <1>2, <1>3, <1>4, Joining DEF Here
<1>6. OnTheWay' = OnTheWay
  BY <1>1 DEF OnTheWay
<1>7. Plain(OnTheWay)' = Plain(OnTheWay)
  BY <1>6 DEF Plain
<1> QED
  BY <1>1, <1>5, <1>7, SameWay

\* Every step keeps the keys in order.
LEMMA ForwardStep ==
  ASSUME Typed, Typed', Places, KeysLeft, Open, KeysInOrder, Next \/ UNCHANGED vars
  PROVE  Open' /\ KeysInOrder'
<1> USE DEF client, server, child, net
<1>1. CASE Client
  <2>1. CASE CRead
    BY <2>1, CReadWay
  <2>2. CASE CKey
    BY <2>2, CKeyWay
  <2>3. CASE connect_to_server \/ tty_config \/ CPoll \/ CKeysDone \/ CSock \/ shutdown_client
    <3>1. UNCHANGED <<scenario, wr_open, s_buf, up, c_buf, keys, got, to_chld, c_rst, s_pc>>
      BY <2>3 DEF connect_to_server, tty_config, CPoll, CKeysDone, CSock, shutdown_client
    <3> QED
      BY <3>1, SameKeys
  <2> QED
    BY <1>1, <2>1, <2>2, <2>3 DEF Client
<1>2. CASE Server
  <2>1. CASE Accept
    BY <2>1, AcceptWay
  <2>2. CASE SRead
    BY <2>2, SReadWay
  <2>3. CASE SKey
    BY <1>2, <2>3, SKeyWay DEF Server
  <2>4. CASE Listen \/ SPoll \/ SKeysDone \/ SPipe \/ SStore \/ SSend \/ SHup \/ shutdown_server
    <3>1. /\ UNCHANGED <<scenario, wr_open, s_buf, up, c_buf, keys, got, to_chld, c_rst>>
          /\ s_pc \in {"bind", "accept"} <=> s_pc' \in {"bind", "accept"}
      BY <2>4 DEF Listen, SPoll, SKeysDone, SPipe, SStore, SSend, SHup, shutdown_server, SMoves,
                  SKilled
    <3> QED
      BY <3>1, SameKeys
  <2> QED
    BY <1>2, <2>1, <2>2, <2>3, <2>4 DEF Server
<1>3. CASE ShellMust \/ ShellMay
  <2>0. UNCHANGED Outside
    BY <1>3 DEF ShellMust, ShellMay
  <2>1. CASE ShellReads
    BY <2>0, <2>1, ShellReadsWay
  <2>2. CASE ShellEof \/ ShellWrites \/ ShellStartsWrite \/ ShellExits
    <3>1. UNCHANGED <<scenario, wr_open, s_buf, up, c_buf, keys, got, to_chld, c_rst, s_pc>>
      BY <2>0, <2>2 DEF Outside, ShellEof, ShellWrites, ShellStartsWrite, ShellExits
    <3> QED
      BY <3>1, SameKeys
  <2> QED
    BY <1>3, <2>1, <2>2 DEF ShellMust, ShellMay
<1>4. CASE Reset \/ UNCHANGED vars
  <2>1. /\ UNCHANGED <<scenario, wr_open, s_buf, up, c_buf, keys, got, to_chld, s_pc>>
        /\ c_rst => c_rst'
    BY <1>4 DEF Reset, vars
  <2> QED
    BY <2>1, SameKeys
<1> QED
  BY <1>1, <1>2, <1>3, <1>4 DEF Next

-----------------------------------------------------------------------------
\* The invariant is inductive

\* It holds at the start.
LEMMA InitInv == Init => IInv
<1> SUFFICES ASSUME Init PROVE IInv
  OBVIOUS
<1> USE DEF Init
<1>1. Typed
  <2>1. /\ K \in Seq(Keys) /\ READ_SIZE \in Nat \ {0} /\ PIPE_CAP \in Nat \ {0}
    BY ScenarioIs
  <2>2. init_buf \in Buffers
    BY <2>1 DEF init_buf, Buffers, Logs
  <2>3. ClientTyped
    BY <2>1, <2>2 DEF ClientTyped, K, Running
  <2>4. ServerTyped /\ ChildTyped /\ NetTyped
    BY <2>1 DEF ServerTyped, ChildTyped, NetTyped, Running
  <2> QED
    BY <2>3, <2>4 DEF Typed
<1>2. Modes /\ Places
  BY DEF Modes, Places, Running
<1>3. /\ K \in Seq(Keys) /\ K \in Seq(Chars) /\ Len(K) \in Nat /\ keys = K /\ c_buf = <<>>
      /\ Len(c_buf) = 0
  BY <1>1, WayIs DEF K
<1>4. /\ <<>> \o K = K /\ SubSeq(K, 1, Len(K)) = K
  BY <1>3, JoiningNone, SubSeqFull
<1>5. Handled = 0
  BY <1>3 DEF Handled
<1>6. KeysLeft
  BY <1>3, <1>4, <1>5 DEF KeysLeft
<1>7. OnTheWay = K
  BY <1>3, <1>4 DEF OnTheWay
<1>8. Past = 0
  BY <1>3, <1>7 DEF Past
<1>9. Open
  BY <1>8 DEF Open
<1>10. KeysInOrder
  <2>1. Here = <<>> /\ 0 \in 0..Len(K)
    BY <1>3, JoiningNone DEF Here
  <2>2. ForShell(K)[0] = <<>>
    BY <1>3, ForShellDef
  <2>3. PICK p \in Seq(Chars) : p = Plain(K) /\ Len(p) = Len(K)
    BY <1>3, PlainIs
  <2>4. SubSeq(p, 1, Len(p)) = p
    BY SubSeqFull
  <2> QED
    BY <1>7, <1>8, <2>1, <2>2, <2>3, <2>4, InOrderIs
<1>11. Output
  <2>1. <<>> \in Seq(Chars) /\ <<>> \o <<>> = <<>>
    BY JoiningNone
  <2> QED
    BY <2>1 DEF Output
<1>12. LogOK
  <2>1. <<>> \in Seq(Chars) /\ <<>> \o <<>> = <<>>
    BY JoiningNone
  <2>2. sent_buf.data = <<>> /\ recv_buf.data = <<>>
    BY DEF init_buf
  <2>3. [j \in 1..0 |-> NoNewline(K[j])] = <<>>
    OBVIOUS
  <2> QED
    BY <1>5, <2>1, <2>2, <2>3 DEF LogOK
<1> QED
  BY <1>1, <1>2, <1>6, <1>9, <1>10, <1>11, <1>12 DEF IInv

\* Every step of the two programs, the shell and the network keeps it.
LEMMA Inductive == Spec => []IInv
<1>1. IInv /\ [Next]_vars => IInv'
  <2> SUFFICES ASSUME IInv, [Next]_vars PROVE IInv'
    OBVIOUS
  <2>1. Typed /\ Modes /\ Places /\ KeysLeft /\ Open /\ KeysInOrder /\ Output /\ LogOK
    BY DEF IInv
  <2>2. Typed'
    BY <2>1, ClientTypedStep, ServerTypedStep, OthersTypedStep DEF Next
  <2>3. Modes' /\ Places' /\ KeysLeft' /\ Output' /\ LogOK'
    BY <2>1, ModesStep, PlacesStep, KeysLeftStep, OutputStep, LogStep
  <2>4. Open' /\ KeysInOrder'
    BY <2>1, <2>2, ForwardStep
  <2> QED
    BY <2>2, <2>3, <2>4 DEF IInv
<1> QED
  BY <1>1, InitInv, PTL DEF Spec

\* A text and one that starts with it.
LEMMA Starts ==
  ASSUME NEW S, NEW a \in Seq(S), NEW r \in Seq(S)
  PROVE  IsPrefix(a, a \o r)
<1>1. PICK w \in Seq(S) : w = a \o r
  BY Joining
<1>2. /\ Len(w) = Len(a) + Len(r) /\ Len(a) \in Nat /\ Len(r) \in Nat
      /\ \A j \in 1..(Len(a) + Len(r)) : w[j] = IF j <= Len(a) THEN a[j] ELSE r[j - Len(a)]
  BY <1>1, ConcatProperties
<1>3. Len(a) \in 0..Len(w) /\ Len(a) <= Len(w)
  BY <1>2
<1>4. /\ SubSeq(w, 1, Len(a)) \in Seq(S) /\ Len(SubSeq(w, 1, Len(a))) = Len(a)
      /\ \A j \in 1..Len(a) : SubSeq(w, 1, Len(a))[j] = w[j]
  BY <1>3, PartOf
<1>5. \A j \in 1..Len(a) : w[j] = a[j]
  BY <1>2
<1>6. SubSeq(w, 1, Len(a)) = a
  BY <1>4, <1>5, SeqEqual
<1>7. SubSeq(a, 1, Len(a)) = a
  BY SubSeqFull
<1> QED
  BY <1>1, <1>3, <1>6, <1>7 DEF IsPrefix

\* ... as they are written to the log
LEMMA StartsSpaced ==
  ASSUME NEW a \in Seq(Chars), NEW r \in Seq(Chars)
  PROVE  IsPrefix(Spaced(a), Spaced(a \o r))
<1>1. PICK w \in Seq(Chars) : w = a \o r
  BY Joining
<1>2. /\ Len(w) = Len(a) + Len(r) /\ Len(a) \in Nat /\ Len(r) \in Nat
      /\ \A j \in 1..(Len(a) + Len(r)) : w[j] = IF j <= Len(a) THEN a[j] ELSE r[j - Len(a)]
  BY <1>1, ConcatProperties
<1>3. a \in Logs /\ w \in Logs /\ DOMAIN a = 1..Len(a) /\ DOMAIN w = 1..Len(w)
  BY DEF Logs
<1>4. PICK u \in Logs : u = Spaced(a) /\ Len(u) = Len(a) /\ \A j \in 1..Len(a) : u[j] = NoNewline(a[j])
  BY <1>3, SpacedIs DEF Spaced
<1>5. PICK v \in Logs : v = Spaced(w) /\ Len(v) = Len(w) /\ \A j \in 1..Len(w) : v[j] = NoNewline(w[j])
  BY <1>3, SpacedIs DEF Spaced
<1>6. Len(u) \in 0..Len(v) /\ Len(u) <= Len(v)
  BY <1>2, <1>4, <1>5
<1>7. /\ SubSeq(v, 1, Len(u)) \in Logs /\ Len(SubSeq(v, 1, Len(u))) = Len(u)
      /\ \A j \in 1..Len(u) : SubSeq(v, 1, Len(u))[j] = v[j]
  BY <1>6, PartOf DEF Logs
<1>8. \A j \in 1..Len(u) : v[j] = u[j]
  BY <1>2, <1>4, <1>5
<1>9. SubSeq(v, 1, Len(u)) = u
  BY <1>7, <1>8, SeqEqual DEF Logs
<1>10. SubSeq(u, 1, Len(u)) = u
  BY SubSeqFull DEF Logs
<1> QED
  BY <1>1, <1>4, <1>5, <1>6, <1>9, <1>10 DEF IsPrefix

-----------------------------------------------------------------------------
\* The theorems

\* Whatever is typed and written, however it is cut up by read() and send(), and
\* whichever side ends first: the shell gets the keys in order, each once, up to the
\* first ^D (without --compress), and the user sees the shell's output in order and
\* from its start, all of it while both programs run.
THEOREM StreamsAreIntact == Spec => []StreamsIntact
<1>1. IInv => StreamsIntact
  <2> SUFFICES ASSUME IInv PROVE StreamsIntact
    OBVIOUS
  <2>1. Typed /\ KeysInOrder /\ Output
    BY DEF IInv
  <2>2. TypeOK
    BY <2>1 DEF Typed, ClientTyped, NetTyped, ServerTyped, ChildTyped, TypeOK
  <2>3. PICK r \in Seq(Chars) : written = shown \o r
    BY <2>1 DEF Output
  <2>4. IsPrefix(shown, written)
    BY <2>1, <2>3, Starts DEF Typed, ClientTyped
  <2>5. OutputInOrder
    BY <2>1, <2>4 DEF OutputInOrder, Output, COk, SOk
  <2> QED
    BY <2>1, <2>2, <2>5 DEF StreamsIntact
<1> QED
  BY <1>1, Inductive, PTL

\* A client that ends by exit() never leaves the terminal raw, wherever in its loop the
\* end came, and if tty_config() had saved the modes shutdown_client() puts them back.
THEOREM TerminalIsGivenBack == Spec => []TerminalGivenBack
<1>1. IInv => TerminalGivenBack
  BY DEF IInv, Typed, ClientTyped, Modes, TerminalGivenBack, Running
<1> QED
  BY <1>1, Inductive, PTL

\* Without --compress the log a client writes when it ends by exit() holds every key
\* the client handled, in order, and starts with all that was displayed, with a space
\* for the end of a line in both, for any number of reads.
THEOREM LogIsComplete == Spec => []LogMatchesTraffic
<1>1. IInv => LogMatchesTraffic
  <2> SUFFICES ASSUME IInv, scenario.log, ~scenario.compress, c_status \in {0, 1}
               PROVE  LET handled == SubSeq(scenario.keys, 1,
                                            Len(scenario.keys) - Len(keys) - Len(c_buf))
                      IN  /\ sent_buf.data = [j \in DOMAIN handled |->
                                                NoNewline(handled[j])]
                          /\ IsPrefix([j \in DOMAIN shown |-> NoNewline(shown[j])], recv_buf.data)
    BY DEF LogMatchesTraffic
  <2>1. /\ K \in Seq(Keys) /\ Len(K) \in Nat /\ Len(keys) \in Nat /\ Len(c_buf) \in Nat
        /\ Handled \in 0..Len(K)
    BY ScenarioIs DEF IInv, Typed, ClientTyped, KeysLeft
  <2>2. Len(K) - Len(keys) - Len(c_buf) = Handled
    BY <2>1 DEF Handled
  <2>3. PICK h \in Seq(Keys) : /\ h = SubSeq(K, 1, Handled) /\ Len(h) = Handled
                               /\ \A j \in 1..Handled : h[j] = K[j]
    <3>1. PICK m \in 0..Len(K) : m = Handled
      BY <2>1
    <3>2. /\ SubSeq(K, 1, m) \in Seq(Keys) /\ Len(SubSeq(K, 1, m)) = m
          /\ \A j \in 1..m : SubSeq(K, 1, m)[j] = K[j]
      BY <2>1, PartOf
    <3> QED
      BY <3>1, <3>2
  <2>4. DOMAIN h = 1..Handled
    BY <2>3
  <2>5. /\ sent_buf.data = [j \in 1..Handled |-> NoNewline(K[j])]
        /\ \E r \in Seq(Chars) : recv_buf.data = Spaced(shown \o r)
    BY DEF IInv, LogOK, Running
  <2>6. sent_buf.data = [j \in DOMAIN h |-> NoNewline(h[j])]
    BY <2>3, <2>4, <2>5
  <2>7. IsPrefix([j \in DOMAIN shown |-> NoNewline(shown[j])], recv_buf.data)
    BY <2>5, StartsSpaced DEF IInv, Typed, ClientTyped, Spaced
  <2>8. h = SubSeq(scenario.keys, 1, Len(scenario.keys) - Len(keys) - Len(c_buf))
    BY <2>2, <2>3 DEF K
  <2> QED
    BY <2>6, <2>7, <2>8
<1> QED
  BY <1>1, Inductive, PTL
=============================================================================
