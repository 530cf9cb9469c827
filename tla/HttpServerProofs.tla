--------------------------- MODULE HttpServerProofs ---------------------------
(***************************************************************************)
(* Proofs about HttpServer, for any clients and requests, any directory    *)
(* and any limits.                                                         *)
(***************************************************************************)
EXTENDS HttpServer, WellFoundedInduction, FiniteSetTheorems, SequenceTheorems, TLAPS

\* A set of naturals has a least element.
LEMMA Least ==
  ASSUME NEW T \in SUBSET Nat, T # {}
  PROVE  \E x \in T : \A y \in T : x <= y
<1>1. PICK x \in T : \A y \in T : ~ (<<y, x>> \in OpToRel(<, Nat))
  BY WFMin, NatLessThanWellFounded
<1>2. \A y \in T : ~(y < x)
  BY <1>1 DEF OpToRel
<1> QED
  BY <1>2

-----------------------------------------------------------------------------
\* What the lookup finds

\* Folding a name touches nothing but its case, and loses that where the name is short.
LEMMA FoldName ==
  ASSUME host \in Hosts, NEW n \in FileNames
  PROVE  /\ string_To_Lowercase(n) \in FileNames
         /\ string_To_Lowercase(n).stem = n.stem
         /\ string_To_Lowercase(n).ext = n.ext
         /\ string_To_Lowercase(n).long = n.long
         /\ host.build = "folds short" /\ ~n.long => string_To_Lowercase(n).upper = FALSE
         /\ host.build = "folds none" => string_To_Lowercase(n) = n
  BY HostsAssumption DEF string_To_Lowercase, FileNames

\* None is no file name.
LEMMA NoneIsNoName == None \notin FileNames
<1>1. "upper" \notin DOMAIN None
  BY DEF None
<1>2. \A n \in FileNames : "upper" \in DOMAIN n
  BY DEF FileNames
<1> QED
  BY <1>1, <1>2

\* The entries of the directory are file names.
LEMMA EntryIsName == \A k \in DOMAIN Directory : Directory[k] \in FileNames
  BY NamesAssumption

\* A name for which there is a hit is found at one of the hits, and is NotFound otherwise.
LEMMA FoundHit ==
  ASSUME NEW f
  PROVE  /\ f = None \/ Hits(f) = {} => Found(f) = NotFound
         /\ f # None /\ Hits(f) # {} => \E k \in Hits(f) : Found(f) = string_To_Lowercase(Directory[k])
<1>1. Hits(f) \in SUBSET Nat
  BY NamesAssumption DEF Hits
<1>2. Hits(f) # {} => Min(Hits(f)) \in Hits(f)
  BY <1>1, Least DEF Min
<1> QED
  BY <1>2 DEF Found

\* The lookup yields a file name or NotFound.
LEMMA FoundType ==
  ASSUME host \in Hosts, NEW f
  PROVE  Found(f) \in FileNames \cup {NotFound}
<1>1. ASSUME NEW k \in Hits(f) PROVE string_To_Lowercase(Directory[k]) \in FileNames
  <2>1. Directory[k] \in FileNames
    BY NamesAssumption DEF Hits
  <2> QED
    BY <2>1, FoldName
<1> QED
  BY <1>1, FoundHit

\* What is found for a name fits the name, and is an entry of the directory, folded.
LEMMA FoundAsked ==
  ASSUME host \in Hosts, NEW f \in FileNames, Found(f) # NotFound
  PROVE  /\ Fits(f, Found(f))
         /\ \E k \in DOMAIN Directory : /\ Fits(f, Directory[k])
                                        /\ Found(f) = string_To_Lowercase(Directory[k])
<1>2. PICK k \in Hits(f) : Found(f) = string_To_Lowercase(Directory[k])
  BY FoundHit
<1>3. k \in DOMAIN Directory /\ Directory[k] \in FileNames
  BY <1>2, NamesAssumption DEF Hits
<1>4. Hit(string_To_Lowercase(f), string_To_Lowercase(Directory[k]))
  BY <1>2 DEF Hits
<1> DEFINE g == string_To_Lowercase(f)
           d == string_To_Lowercase(Directory[k])
<1>5. /\ g \in FileNames /\ g.stem = f.stem /\ g.ext = f.ext /\ g.long = f.long
      /\ d \in FileNames /\ d.stem = Directory[k].stem /\ d.ext = Directory[k].ext
      /\ d.long = Directory[k].long
  BY <1>3, FoldName
<1> HIDE DEF g, d
<1>6. d.stem = g.stem /\ d.long = g.long /\ g.ext \in {"", d.ext}
  BY <1>4 DEF Hit, g, d
<1> QED
  BY <1>2, <1>3, <1>5, <1>6 DEF Fits, d

\* What is found for a request fits the request, and is an entry of the directory, folded.
LEMMA FoundFits ==
  ASSUME host \in Hosts, req \in Requests, NEW c \in Clients, Found(req[c]) # NotFound
  PROVE  /\ Fits(req[c], Found(req[c]))
         /\ \E k \in DOMAIN Directory : /\ Fits(req[c], Directory[k])
                                        /\ Found(req[c]) = string_To_Lowercase(Directory[k])
<1>1. req[c] \in FileNames
  BY NamesAssumption
<1> QED
  BY <1>1, FoundAsked

\* Nothing is missed that fits a request and is in its case, or that is folded with it.
LEMMA FoundMiss ==
  ASSUME host \in Hosts, req \in Requests, NEW c \in Clients, Found(req[c]) = NotFound,
         NEW k \in DOMAIN Directory,
         \/ req[c].upper = Directory[k].upper
         \/ host.build = "folds short" /\ ~req[c].long
  PROVE  ~Fits(req[c], Directory[k])
<1> SUFFICES ASSUME Fits(req[c], Directory[k]) PROVE FALSE
  OBVIOUS
<1>1. req[c] \in FileNames /\ Directory[k] \in FileNames /\ req[c].stem # NotFound.stem
  <2>1. req \in [Clients -> FileNames] /\ Directory \in Seq(FileNames)
    BY NamesAssumption
  <2>2. req[c].stem # NotFound.stem
    BY NamesAssumption, Zenon
  <2>3. Directory[k] \in FileNames
    BY EntryIsName
  <2> QED
    BY <2>1, <2>2, <2>3
<1> DEFINE g == string_To_Lowercase(req[c])
           d == string_To_Lowercase(Directory[k])
<1>2. Directory[k].stem = req[c].stem /\ Directory[k].long = req[c].long
      /\ req[c].ext \in {"", Directory[k].ext}
  BY DEF Fits
<1>3. /\ g \in FileNames /\ g.stem = req[c].stem /\ g.ext = req[c].ext /\ g.long = req[c].long
      /\ d \in FileNames /\ d.stem = Directory[k].stem /\ d.ext = Directory[k].ext
      /\ d.long = Directory[k].long
  BY <1>1, <1>2, FoldName
<1>u. g.upper = d.upper
  <2>1. CASE host.build = "folds short" /\ ~req[c].long
    BY <1>1, <1>2, <2>1, FoldName
  <2>2. CASE ~(host.build = "folds short" /\ ~req[c].long)
    BY <1>2, <2>2 DEF string_To_Lowercase
  <2> QED
    BY <2>1, <2>2
<1> HIDE DEF g, d
<1>4. Hit(g, d)
  <2>1. CASE g.ext = ""
    BY <1>2, <1>3, <1>u, <2>1 DEF Hit
  <2>2. CASE g.ext # ""
    <3>1. d.stem = g.stem /\ d.ext = g.ext /\ d.upper = g.upper /\ d.long = g.long
      BY <1>2, <1>3, <1>u, <2>2
    <3>2. ASSUME NEW S, NEW B, NEW x \in [stem : S, ext : S, upper : B, long : B]
          PROVE  x = [stem |-> x.stem, ext |-> x.ext, upper |-> x.upper, long |-> x.long]
      OBVIOUS
    <3>3. d = g
      BY <1>3, <3>1, <3>2 DEF FileNames
    <3> QED
      BY <3>3, <2>2 DEF Hit
  <2> QED
    BY <2>1, <2>2
<1>5. k \in Hits(req[c])
  BY <1>4 DEF Hits, g, d
<1>6. req[c] # None
  BY <1>1, NoneIsNoName
<1>7. PICK j \in Hits(req[c]) : Found(req[c]) = string_To_Lowercase(Directory[j])
  BY <1>5, <1>6, FoundHit
<1>8. Hit(string_To_Lowercase(req[c]), string_To_Lowercase(Directory[j]))
  BY <1>7 DEF Hits
<1>9. string_To_Lowercase(Directory[j]).stem = string_To_Lowercase(req[c]).stem
  BY <1>8 DEF Hit
<1> QED
  BY <1>1, <1>3, <1>7, <1>9 DEF g

\* What is found for a request stays: neither the request nor the host changes.
LEMMA FoundSame ==
  ASSUME [Next]_vars
  PROVE  req' = req /\ host' = host /\ \A c \in Clients : Found(req[c])' = Found(req[c])
<1>1. req' = req /\ host' = host
  BY DEF Next, Server, Client, vars, Ends, Accept, RecvError, RecvNothing, Recv, getFileName,
         BadName, lookupFile, lookupFails, send_HTTP_Response, OpenFails, Answer, AnswerNobody,
         Connect, Send, Leave, external
<1> QED
  BY <1>1 DEF Found, Hits, string_To_Lowercase

-----------------------------------------------------------------------------
\* The queue of connections

Members(q)  == {q[i] : i \in 1..Len(q)}
Distinct(q) == \A i, j \in 1..Len(q) : i # j => q[i] # q[j]

\* A newcomer joins a queue.
LEMMA JoinQueue ==
  ASSUME NEW q \in Seq(Clients), NEW c \in Clients
  PROVE  /\ Members(Append(q, c)) = Members(q) \cup {c}
         /\ Distinct(q) /\ c \notin Members(q) => Distinct(Append(q, c))
<1> DEFINE r == Append(q, c)
<1>1. /\ Len(r) = Len(q) + 1 /\ Len(q) \in Nat /\ r[Len(q) + 1] = c
      /\ \A i \in 1..Len(q) : r[i] = q[i]
  BY AppendProperties
<1> HIDE DEF r
<1>2. Members(r) = Members(q) \cup {c}
  <2>1. \A i \in 1..Len(r) : r[i] \in Members(q) \cup {c}
    BY <1>1 DEF Members
  <2>2. \A x \in Members(q) : x \in Members(r)
    BY <1>1 DEF Members
  <2>3. c \in Members(r)
    BY <1>1 DEF Members
  <2> QED
    BY <2>1, <2>2, <2>3 DEF Members
<1>3. ASSUME Distinct(q), c \notin Members(q), NEW i \in 1..Len(r), NEW j \in 1..Len(r), i # j
      PROVE  r[i] # r[j]
  <2>1. \A k \in 1..Len(q) : q[k] # c
    BY <1>3 DEF Members
  <2>2. CASE i \in 1..Len(q) /\ j \in 1..Len(q)
    BY <1>1, <1>3, <2>2 DEF Distinct
  <2>3. CASE i \in 1..Len(q) /\ j = Len(q) + 1
    BY <1>1, <2>1, <2>3
  <2>4. CASE j \in 1..Len(q) /\ i = Len(q) + 1
    BY <1>1, <2>1, <2>4
  <2> QED
    BY <1>1, <1>3, <2>2, <2>3, <2>4
<1> QED
  BY <1>2, <1>3 DEF r, Distinct

\* The first in a queue leaves it.
LEMMA LeaveQueue ==
  ASSUME NEW q \in Seq(Clients), q # <<>>, Distinct(q)
  PROVE  /\ Head(q) \in Members(q) /\ Head(q) \in Clients
         /\ Members(Tail(q)) \subseteq Members(q)
         /\ Distinct(Tail(q)) /\ Head(q) \notin Members(Tail(q))
<1> DEFINE r == Tail(q)
<1>1. /\ Len(q) \in Nat /\ Len(q) > 0 /\ Head(q) = q[1] /\ q[1] \in Clients
      /\ Len(r) = Len(q) - 1
      /\ \A i \in 1..Len(r) : r[i] = q[i + 1]
  BY HeadTailProperties, EmptySeq, ElementOfSeq
<1> HIDE DEF r
<1>2. \A i \in 1..Len(r) : i + 1 \in 1..Len(q) /\ i + 1 # 1
  BY <1>1
<1>3. Members(r) \subseteq Members(q)
  BY <1>1, <1>2 DEF Members
<1>4. Distinct(r)
  BY <1>1, <1>2 DEF Distinct
<1>5. q[1] \notin Members(r)
  BY <1>1, <1>2 DEF Members, Distinct
<1>6. q[1] \in Members(q)
  BY <1>1 DEF Members
<1> QED
  BY <1>1, <1>3, <1>4, <1>5, <1>6 DEF r

-----------------------------------------------------------------------------
\* The inductive invariant, part by part.

Resources == FileNames \cup {None, NotFound}

ControlOK ==
  /\ fds \in 4..LIMIT /\ pc \in {"accept", "recv", "parse", "lookup", "open", "send"}
  /\ conn \in Clients \cup {NoOne} /\ (conn = NoOne <=> pc = "accept")
  /\ pc # "accept" => fds >= 5

ClientsOK ==
  /\ req \in Requests /\ host \in Hosts
  /\ net \in [Clients -> {"off", "wait", "fin", "rst"}]
  /\ segs \in [Clients -> 0..2] /\ got \in [Clients -> 0..2]

QueueOK == queue \in Seq(Clients) /\ Len(queue) <= BACKLOG

BufferOK ==
  /\ message_buf \in [head : FileNames \cup {None}, tail : FileNames \cup {None}]
  /\ pc = "parse" => message_buf.head \in FileNames

NamesOK == reply \in [Clients -> Resources] /\ name \in Resources

Typed == ControlOK /\ ClientsOK /\ QueueOK /\ BufferOK /\ NamesOK
         /\ status \in {Running, 1, Aborted, SigPipe}

\* A client is in one place at a time: it has not connected, waits in the queue once, is
\* being served, or is done with.
Places ==
  /\ Distinct(queue)
  /\ conn \notin Members(queue)
  /\ \A c \in Clients : c = conn \/ c \in Members(queue) => net[c] # "off" /\ reply[c] = None
  /\ \A c \in Clients : net[c] = "off" => reply[c] = None
  /\ \A c \in Clients : c \in Members(queue) \/ net[c] = "off" \/ (c = conn /\ pc = "recv") => got[c] = 0
  /\ \A c \in Clients : c = conn /\ pc # "recv" => got[c] # 0

\* From recv() to send() the server is at work on the request it received last, if that was
\* whole: what an earlier one left in the buffer plays no part.
AtWork ==
  \A c \in Clients : c = conn /\ got[c] = 2 =>
    /\ pc = "parse" => message_buf.head = req[c] /\ message_buf.tail = req[c]
    /\ pc = "lookup" => name = req[c]
    /\ pc \in {"open", "send"} => name = Found(req[c])

\* What ends the buffer is the end of a request that was received whole.
Tails == message_buf.tail # None => \E d \in Clients : got[d] = 2 /\ message_buf.tail = req[d]

\* n has the stem client c asked for and the extension of a request received whole: exactly,
\* or, if that has none, any.
Patched(c, n)   == n.stem = req[c].stem /\ \E d \in Clients : got[d] = 2 /\ n.ext = req[d].ext
PatchedTo(c, n) == n.stem = req[c].stem /\ \E d \in Clients : got[d] = 2 /\ req[d].ext \in {"", n.ext}

\* What the server is at work on, and what it sends, for a request that may have been cut.
AtWorkInPart ==
  \A c \in Clients : c = conn =>
    /\ pc = "parse" => message_buf.head = req[c]
    /\ pc = "lookup" /\ name # None => name \in FileNames /\ Patched(c, name)
    /\ pc \in {"open", "send"} /\ name # NotFound => PatchedTo(c, name)
RepliesInPart == \A c \in Clients : reply[c] \notin {None, NotFound} => PatchedTo(c, reply[c])

\* Whoever sent a whole request got what the lookup finds for it.
Replies == \A c \in Clients : reply[c] # None /\ got[c] = 2 => reply[c] = Found(req[c])

AllProper == \A c \in Clients : Proper(c)

\* The clients whose lookup was a hit: each costs a descriptor, for closedir() is left out.
Looked == {c \in Clients : /\ got[c] = 2 /\ Found(req[c]) # NotFound
                           /\ c = conn => pc \in {"open", "send"}}

\* Where every client is proper, no other descriptor is lost.
Spent       == fds = Cardinality(Looked) + (IF conn = NoOne THEN 4 ELSE 5)
Descriptors == AllProper => Spent

\* What SurvivesProperClients asks of the clients, the directory and the host.
Wanted == {c \in Clients : got[c] = 2 /\ \E k \in DOMAIN Directory : Fits(req[c], Directory[k])}
Calm   == /\ AllProper /\ Cardinality(Wanted) <= LIMIT - 6
          /\ host.build # "damages" /\ Opens(NotFound)
          /\ \A k \in DOMAIN Directory : Opens(string_To_Lowercase(Directory[k]))

IInv == /\ Typed /\ Places /\ AtWork /\ Replies /\ Descriptors /\ SurvivesProperClients
        /\ Tails /\ AtWorkInPart /\ RepliesInPart

-----------------------------------------------------------------------------
\* The steps

\* The process ends, or nothing happens.
Still == UNCHANGED <<external, reply, queue, pc, conn, message_buf, name, fds, got>>

\* What a step is.
LEMMA Steps ==
  ASSUME [Next]_vars
  PROVE  \/ \E c \in Clients : Connect(c) \/ Send(c) \/ Leave(c)
         \/ Accept \/ RecvError \/ Recv \/ getFileName \/ lookupFile \/ send_HTTP_Response \/ Answer
         \/ Still
<1>1. CASE UNCHANGED vars
  BY <1>1 DEF vars, Still
<1>2. CASE RecvNothing \/ BadName \/ lookupFails \/ OpenFails \/ AnswerNobody
  BY <1>2 DEF RecvNothing, BadName, lookupFails, OpenFails, AnswerNobody, Ends, Still
<1> QED
  BY <1>1, <1>2 DEF Next, Server, Client

\* The status of the process, and of what goes on where it has ended.
LEMMA StatusTyped ==
  ASSUME Typed, [Next]_vars
  PROVE  status' \in {Running, 1, Aborted, SigPipe}
  BY DEF Typed, ControlOK, ClientsOK, QueueOK, BufferOK, NamesOK, Next, Server, Client, vars, Ends, Accept, RecvError, RecvNothing, Recv,
         getFileName, BadName, lookupFile, lookupFails, send_HTTP_Response, OpenFails, Answer,
         AnswerNobody, Connect, Send, Leave

\* The server's place, its connection and its descriptors.
LEMMA ControlTyped ==
  ASSUME Typed, [Next]_vars
  PROVE  ControlOK'
<1>1. ASSUME NEW c \in Clients, Connect(c) PROVE ControlOK'
  BY <1>1, LimitsAssumption, ClientsAssumption DEF Typed, ControlOK, ClientsOK, QueueOK, BufferOK, NamesOK, Connect, external
<1>2. ASSUME NEW c \in Clients, Send(c) PROVE ControlOK'
  BY <1>2, LimitsAssumption, ClientsAssumption DEF Typed, ControlOK, ClientsOK, QueueOK, BufferOK, NamesOK, Send, external
<1>3. ASSUME NEW c \in Clients, Leave(c) PROVE ControlOK'
  BY <1>3, LimitsAssumption, ClientsAssumption DEF Typed, ControlOK, ClientsOK, QueueOK, BufferOK, NamesOK, Leave, external
<1>4. CASE Accept
  BY <1>4, LimitsAssumption, ClientsAssumption DEF Typed, ControlOK, ClientsOK, QueueOK, BufferOK, NamesOK, Accept, external
<1>5. CASE RecvError
  BY <1>5, LimitsAssumption, ClientsAssumption DEF Typed, ControlOK, ClientsOK, QueueOK, BufferOK, NamesOK, RecvError, external
<1>6. CASE Recv
  BY <1>6, LimitsAssumption, ClientsAssumption DEF Typed, ControlOK, ClientsOK, QueueOK, BufferOK, NamesOK, Recv, external
<1>7. CASE getFileName
  BY <1>7, LimitsAssumption, ClientsAssumption DEF Typed, ControlOK, ClientsOK, QueueOK, BufferOK, NamesOK, getFileName, external
<1>8. CASE lookupFile
  BY <1>8, LimitsAssumption, ClientsAssumption DEF Typed, ControlOK, ClientsOK, QueueOK, BufferOK, NamesOK, lookupFile, external
<1>9. CASE send_HTTP_Response
  BY <1>9, LimitsAssumption, ClientsAssumption DEF Typed, ControlOK, ClientsOK, QueueOK, BufferOK, NamesOK, send_HTTP_Response, external
<1>10. CASE Answer
  BY <1>10, LimitsAssumption, ClientsAssumption DEF Typed, ControlOK, ClientsOK, QueueOK, BufferOK, NamesOK, Answer, external
<1>11. CASE Still
  BY <1>11, LimitsAssumption, ClientsAssumption DEF Typed, ControlOK, ClientsOK, QueueOK, BufferOK, NamesOK, Still, external
<1> QED
  BY Steps, <1>1, <1>2, <1>3, <1>4, <1>5, <1>6, <1>7, <1>8, <1>9, <1>10, <1>11

\* The queue.
LEMMA QueueTyped ==
  ASSUME Typed, [Next]_vars
  PROVE  QueueOK'
<1>1. ASSUME NEW c \in Clients, Connect(c) PROVE QueueOK'
  BY <1>1, LimitsAssumption, ClientsAssumption DEF Typed, ControlOK, ClientsOK, QueueOK, BufferOK, NamesOK, Connect, external
<1>2. ASSUME NEW c \in Clients, Send(c) PROVE QueueOK'
  BY <1>2, LimitsAssumption, ClientsAssumption DEF Typed, ControlOK, ClientsOK, QueueOK, BufferOK, NamesOK, Send, external
<1>3. ASSUME NEW c \in Clients, Leave(c) PROVE QueueOK'
  BY <1>3, LimitsAssumption, ClientsAssumption DEF Typed, ControlOK, ClientsOK, QueueOK, BufferOK, NamesOK, Leave, external
<1>4. CASE Accept
  BY <1>4, LimitsAssumption, ClientsAssumption DEF Typed, ControlOK, ClientsOK, QueueOK, BufferOK, NamesOK, Accept, external
<1>5. CASE RecvError
  BY <1>5, LimitsAssumption, ClientsAssumption DEF Typed, ControlOK, ClientsOK, QueueOK, BufferOK, NamesOK, RecvError, external
<1>6. CASE Recv
  BY <1>6, LimitsAssumption, ClientsAssumption DEF Typed, ControlOK, ClientsOK, QueueOK, BufferOK, NamesOK, Recv, external
<1>7. CASE getFileName
  BY <1>7, LimitsAssumption, ClientsAssumption DEF Typed, ControlOK, ClientsOK, QueueOK, BufferOK, NamesOK, getFileName, external
<1>8. CASE lookupFile
  BY <1>8, LimitsAssumption, ClientsAssumption DEF Typed, ControlOK, ClientsOK, QueueOK, BufferOK, NamesOK, lookupFile, external
<1>9. CASE send_HTTP_Response
  BY <1>9, LimitsAssumption, ClientsAssumption DEF Typed, ControlOK, ClientsOK, QueueOK, BufferOK, NamesOK, send_HTTP_Response, external
<1>10. CASE Answer
  BY <1>10, LimitsAssumption, ClientsAssumption DEF Typed, ControlOK, ClientsOK, QueueOK, BufferOK, NamesOK, Answer, external
<1>11. CASE Still
  BY <1>11, LimitsAssumption, ClientsAssumption DEF Typed, ControlOK, ClientsOK, QueueOK, BufferOK, NamesOK, Still, external
<1> QED
  BY Steps, <1>1, <1>2, <1>3, <1>4, <1>5, <1>6, <1>7, <1>8, <1>9, <1>10, <1>11

\* What is known of the clients.
LEMMA ClientsTyped ==
  ASSUME Typed, [Next]_vars
  PROVE  ClientsOK'
<1>1. ASSUME NEW c \in Clients, Connect(c) PROVE ClientsOK'
  BY <1>1, LimitsAssumption, ClientsAssumption DEF Typed, ControlOK, ClientsOK, QueueOK, BufferOK, NamesOK, Connect, external
<1>2. ASSUME NEW c \in Clients, Send(c) PROVE ClientsOK'
  BY <1>2, LimitsAssumption, ClientsAssumption DEF Typed, ControlOK, ClientsOK, QueueOK, BufferOK, NamesOK, Send, external
<1>3. ASSUME NEW c \in Clients, Leave(c) PROVE ClientsOK'
  BY <1>3, LimitsAssumption, ClientsAssumption DEF Typed, ControlOK, ClientsOK, QueueOK, BufferOK, NamesOK, Leave, external
<1>4. CASE Accept
  BY <1>4, LimitsAssumption, ClientsAssumption DEF Typed, ControlOK, ClientsOK, QueueOK, BufferOK, NamesOK, Accept, external
<1>5. CASE RecvError
  BY <1>5, LimitsAssumption, ClientsAssumption DEF Typed, ControlOK, ClientsOK, QueueOK, BufferOK, NamesOK, RecvError, external
<1>6. CASE Recv
  BY <1>6, LimitsAssumption, ClientsAssumption DEF Typed, ControlOK, ClientsOK, QueueOK, BufferOK, NamesOK, Recv, external
<1>7. CASE getFileName
  BY <1>7, LimitsAssumption, ClientsAssumption DEF Typed, ControlOK, ClientsOK, QueueOK, BufferOK, NamesOK, getFileName, external
<1>8. CASE lookupFile
  BY <1>8, LimitsAssumption, ClientsAssumption DEF Typed, ControlOK, ClientsOK, QueueOK, BufferOK, NamesOK, lookupFile, external
<1>9. CASE send_HTTP_Response
  BY <1>9, LimitsAssumption, ClientsAssumption DEF Typed, ControlOK, ClientsOK, QueueOK, BufferOK, NamesOK, send_HTTP_Response, external
<1>10. CASE Answer
  BY <1>10, LimitsAssumption, ClientsAssumption DEF Typed, ControlOK, ClientsOK, QueueOK, BufferOK, NamesOK, Answer, external
<1>11. CASE Still
  BY <1>11, LimitsAssumption, ClientsAssumption DEF Typed, ControlOK, ClientsOK, QueueOK, BufferOK, NamesOK, Still, external
<1> QED
  BY Steps, <1>1, <1>2, <1>3, <1>4, <1>5, <1>6, <1>7, <1>8, <1>9, <1>10, <1>11

\* The replies.
LEMMA RepliesTyped ==
  ASSUME Typed, [Next]_vars
  PROVE  reply' \in [Clients -> Resources]
<1>1. ASSUME NEW c \in Clients, Connect(c) PROVE reply' \in [Clients -> Resources]
  BY <1>1, LimitsAssumption, ClientsAssumption DEF Typed, ControlOK, ClientsOK, QueueOK, BufferOK, NamesOK, Resources, Connect, external
<1>2. ASSUME NEW c \in Clients, Send(c) PROVE reply' \in [Clients -> Resources]
  BY <1>2, LimitsAssumption, ClientsAssumption DEF Typed, ControlOK, ClientsOK, QueueOK, BufferOK, NamesOK, Resources, Send, external
<1>3. ASSUME NEW c \in Clients, Leave(c) PROVE reply' \in [Clients -> Resources]
  BY <1>3, LimitsAssumption, ClientsAssumption DEF Typed, ControlOK, ClientsOK, QueueOK, BufferOK, NamesOK, Resources, Leave, external
<1>4. CASE Accept
  BY <1>4, LimitsAssumption, ClientsAssumption DEF Typed, ControlOK, ClientsOK, QueueOK, BufferOK, NamesOK, Resources, Accept, external
<1>5. CASE RecvError
  BY <1>5, LimitsAssumption, ClientsAssumption DEF Typed, ControlOK, ClientsOK, QueueOK, BufferOK, NamesOK, Resources, RecvError, external
<1>6. CASE Recv
  BY <1>6, LimitsAssumption, ClientsAssumption DEF Typed, ControlOK, ClientsOK, QueueOK, BufferOK, NamesOK, Resources, Recv, external
<1>7. CASE getFileName
  BY <1>7, LimitsAssumption, ClientsAssumption DEF Typed, ControlOK, ClientsOK, QueueOK, BufferOK, NamesOK, Resources, getFileName, external
<1>8. CASE lookupFile
  BY <1>8, LimitsAssumption, ClientsAssumption DEF Typed, ControlOK, ClientsOK, QueueOK, BufferOK, NamesOK, Resources, lookupFile, external
<1>9. CASE send_HTTP_Response
  BY <1>9, LimitsAssumption, ClientsAssumption DEF Typed, ControlOK, ClientsOK, QueueOK, BufferOK, NamesOK, Resources, send_HTTP_Response, external
<1>10. CASE Answer
  BY <1>10, LimitsAssumption, ClientsAssumption DEF Typed, ControlOK, ClientsOK, QueueOK, BufferOK, NamesOK, Resources, Answer, external
<1>11. CASE Still
  BY <1>11, LimitsAssumption, ClientsAssumption DEF Typed, ControlOK, ClientsOK, QueueOK, BufferOK, NamesOK, Resources, Still, external
<1> QED
  BY Steps, <1>1, <1>2, <1>3, <1>4, <1>5, <1>6, <1>7, <1>8, <1>9, <1>10, <1>11

\* The buffer of recv().
LEMMA BufferTyped ==
  ASSUME Typed, [Next]_vars
  PROVE  BufferOK'
<1>1. ASSUME NEW c \in Clients, Connect(c) PROVE BufferOK'
  BY <1>1, LimitsAssumption, ClientsAssumption, NamesAssumption DEF Typed, ControlOK, ClientsOK, QueueOK, BufferOK, NamesOK, Resources, Connect, external
<1>2. ASSUME NEW c \in Clients, Send(c) PROVE BufferOK'
  BY <1>2, LimitsAssumption, ClientsAssumption, NamesAssumption DEF Typed, ControlOK, ClientsOK, QueueOK, BufferOK, NamesOK, Resources, Send, external
<1>3. ASSUME NEW c \in Clients, Leave(c) PROVE BufferOK'
  BY <1>3, LimitsAssumption, ClientsAssumption, NamesAssumption DEF Typed, ControlOK, ClientsOK, QueueOK, BufferOK, NamesOK, Resources, Leave, external
<1>4. CASE Accept
  BY <1>4, LimitsAssumption, ClientsAssumption, NamesAssumption DEF Typed, ControlOK, ClientsOK, QueueOK, BufferOK, NamesOK, Resources, Accept, external
<1>5. CASE RecvError
  BY <1>5, LimitsAssumption, ClientsAssumption, NamesAssumption DEF Typed, ControlOK, ClientsOK, QueueOK, BufferOK, NamesOK, Resources, RecvError, external
<1>6. CASE Recv
  <2>1. pc' = "parse" /\ conn \in Clients /\ req[conn] \in FileNames
    BY <1>6, NamesAssumption DEF Typed, ControlOK, ClientsOK, QueueOK, BufferOK, NamesOK, Recv
  <2>2. message_buf.tail \in FileNames \cup {None}
    BY DEF Typed, ControlOK, ClientsOK, QueueOK, BufferOK, NamesOK
  <2>3. \A h, t \in FileNames \cup {None} :
          [head |-> h, tail |-> t] \in [head : FileNames \cup {None}, tail : FileNames \cup {None}]
    OBVIOUS
  <2>4. message_buf' \in [head : FileNames \cup {None}, tail : FileNames \cup {None}]
    BY <1>6, <2>1, <2>2, <2>3 DEF Recv
  <2>5. message_buf'.head = req[conn]
    BY <1>6 DEF Recv
  <2> QED
    BY <2>1, <2>4, <2>5 DEF BufferOK
<1>7. CASE getFileName
  BY <1>7, LimitsAssumption, ClientsAssumption, NamesAssumption DEF Typed, ControlOK, ClientsOK, QueueOK, BufferOK, NamesOK, Resources, getFileName, external
<1>8. CASE lookupFile
  BY <1>8, LimitsAssumption, ClientsAssumption, NamesAssumption DEF Typed, ControlOK, ClientsOK, QueueOK, BufferOK, NamesOK, Resources, lookupFile, external
<1>9. CASE send_HTTP_Response
  BY <1>9, LimitsAssumption, ClientsAssumption, NamesAssumption DEF Typed, ControlOK, ClientsOK, QueueOK, BufferOK, NamesOK, Resources, send_HTTP_Response, external
<1>10. CASE Answer
  BY <1>10, LimitsAssumption, ClientsAssumption, NamesAssumption DEF Typed, ControlOK, ClientsOK, QueueOK, BufferOK, NamesOK, Resources, Answer, external
<1>11. CASE Still
  BY <1>11, LimitsAssumption, ClientsAssumption, NamesAssumption DEF Typed, ControlOK, ClientsOK, QueueOK, BufferOK, NamesOK, Resources, Still, external
<1> QED
  BY Steps, <1>1, <1>2, <1>3, <1>4, <1>5, <1>6, <1>7, <1>8, <1>9, <1>10, <1>11

\* The name at work.
LEMMA NameTyped ==
  ASSUME Typed, [Next]_vars
  PROVE  name' \in Resources
<1>1. ASSUME NEW c \in Clients, Connect(c) PROVE name' \in Resources
  BY <1>1, LimitsAssumption, ClientsAssumption DEF Typed, ControlOK, ClientsOK, QueueOK, BufferOK, NamesOK, Resources, Connect, external
<1>2. ASSUME NEW c \in Clients, Send(c) PROVE name' \in Resources
  BY <1>2, LimitsAssumption, ClientsAssumption DEF Typed, ControlOK, ClientsOK, QueueOK, BufferOK, NamesOK, Resources, Send, external
<1>3. ASSUME NEW c \in Clients, Leave(c) PROVE name' \in Resources
  BY <1>3, LimitsAssumption, ClientsAssumption DEF Typed, ControlOK, ClientsOK, QueueOK, BufferOK, NamesOK, Resources, Leave, external
<1>4. CASE Accept
  BY <1>4, LimitsAssumption, ClientsAssumption DEF Typed, ControlOK, ClientsOK, QueueOK, BufferOK, NamesOK, Resources, Accept, external
<1>5. CASE RecvError
  BY <1>5, LimitsAssumption, ClientsAssumption DEF Typed, ControlOK, ClientsOK, QueueOK, BufferOK, NamesOK, Resources, RecvError, external
<1>6. CASE Recv
  BY <1>6, LimitsAssumption, ClientsAssumption DEF Typed, ControlOK, ClientsOK, QueueOK, BufferOK, NamesOK, Resources, Recv, external
<1>7. CASE getFileName
  <2>1. ASSUME message_buf.tail # None PROVE Asked \in FileNames
    <3>1. message_buf.head \in FileNames /\ message_buf.tail \in FileNames
      BY <1>7, <2>1 DEF Typed, BufferOK, getFileName
    <3>2. \A h, t \in FileNames : [h EXCEPT !.ext = t.ext] \in FileNames
      BY DEF FileNames
    <3> QED
      BY <3>1, <3>2 DEF Asked
  <2> QED
    BY <1>7, <2>1 DEF getFileName, Resources
<1>8. CASE lookupFile
  <2>1. host \in Hosts
    BY DEF Typed, ControlOK, ClientsOK, QueueOK, BufferOK, NamesOK
  <2> QED
    BY <1>8, <2>1, FoundType DEF lookupFile, Resources
<1>9. CASE send_HTTP_Response
  BY <1>9, LimitsAssumption, ClientsAssumption DEF Typed, ControlOK, ClientsOK, QueueOK, BufferOK, NamesOK, Resources, send_HTTP_Response, external
<1>10. CASE Answer
  BY <1>10, LimitsAssumption, ClientsAssumption DEF Typed, ControlOK, ClientsOK, QueueOK, BufferOK, NamesOK, Resources, Answer, external
<1>11. CASE Still
  BY <1>11, LimitsAssumption, ClientsAssumption DEF Typed, ControlOK, ClientsOK, QueueOK, BufferOK, NamesOK, Resources, Still, external
<1> QED
  BY Steps, <1>1, <1>2, <1>3, <1>4, <1>5, <1>6, <1>7, <1>8, <1>9, <1>10, <1>11

\* Every step keeps the types.
LEMMA TypedStep ==
  ASSUME Typed, [Next]_vars
  PROVE  Typed'
  BY StatusTyped, ControlTyped, QueueTyped, ClientsTyped, RepliesTyped, BufferTyped, NameTyped DEF Typed, NamesOK

\* Every step keeps each client in one place.
LEMMA PlacesStep ==
  ASSUME Typed, Places, [Next]_vars
  PROVE  Places'
<1>0. Members(queue) \subseteq Clients
  BY ElementOfSeq DEF Typed, QueueOK, Members
<1>1. ASSUME NEW c \in Clients, Connect(c) PROVE Places'
  <2>1. /\ Members(queue') = Members(queue) \cup {c}
        /\ c \notin Members(queue) => Distinct(queue')
    BY <1>1, JoinQueue DEF Connect, Typed, QueueOK, Places
  <2>2. c \notin Members(queue) /\ c # conn
    BY <1>1 DEF Connect, Places
  <2>3. net' = [net EXCEPT ![c] = "wait"] /\ UNCHANGED <<conn, pc, reply, got>>
    BY <1>1 DEF Connect
  <2> QED
    BY <1>1, <2>1, <2>2, <2>3 DEF Connect, Places, Typed, ClientsOK
<1>2. ASSUME NEW c \in Clients, Send(c) PROVE Places'
  BY <1>0, <1>2, ClientsAssumption DEF Typed, ControlOK, ClientsOK, QueueOK, NamesOK, Places, Send, external
<1>3. ASSUME NEW c \in Clients, Leave(c) PROVE Places'
  BY <1>0, <1>3, ClientsAssumption DEF Typed, ControlOK, ClientsOK, QueueOK, NamesOK, Places, Leave, external
<1>4. CASE Accept
  <2>1. /\ Head(queue) \in Members(queue) /\ Head(queue) \in Clients
        /\ Members(Tail(queue)) \subseteq Members(queue)
        /\ Distinct(Tail(queue)) /\ Head(queue) \notin Members(Tail(queue))
    BY <1>4, LeaveQueue DEF Accept, Typed, QueueOK, Places
  <2>2. conn' = Head(queue) /\ queue' = Tail(queue) /\ pc' = "recv" /\ UNCHANGED <<net, reply, got>>
    BY <1>4 DEF Accept, external
  <2> QED
    BY <2>1, <2>2 DEF Places
<1>5. CASE RecvError
  BY <1>0, <1>5, ClientsAssumption DEF Typed, ControlOK, ClientsOK, QueueOK, NamesOK, Places, RecvError, external
<1>6. CASE Recv
  BY <1>0, <1>6, ClientsAssumption DEF Typed, ControlOK, ClientsOK, QueueOK, NamesOK, Places, Recv, external
<1>7. CASE getFileName
  BY <1>0, <1>7, ClientsAssumption DEF Typed, ControlOK, ClientsOK, QueueOK, NamesOK, Places, getFileName, external
<1>8. CASE lookupFile
  BY <1>0, <1>8, ClientsAssumption DEF Typed, ControlOK, ClientsOK, QueueOK, NamesOK, Places, lookupFile, external
<1>9. CASE send_HTTP_Response
  BY <1>0, <1>9, ClientsAssumption DEF Typed, ControlOK, ClientsOK, QueueOK, NamesOK, Places, send_HTTP_Response, external
<1>10. CASE Answer
  BY <1>0, <1>10, ClientsAssumption DEF Typed, ControlOK, ClientsOK, QueueOK, NamesOK, Places, Answer, external
<1>11. CASE Still
  BY <1>0, <1>11, ClientsAssumption DEF Typed, ControlOK, ClientsOK, QueueOK, NamesOK, Places, Still, external
<1> QED
  BY Steps, <1>1, <1>2, <1>3, <1>4, <1>5, <1>6, <1>7, <1>8, <1>9, <1>10, <1>11

\* Every step keeps the server at the request it received.
LEMMA AtWorkStep ==
  ASSUME Typed, Places, AtWork, [Next]_vars
  PROVE  AtWork'
<1>0. req' = req /\ \A c \in Clients : Found(req[c])' = Found(req[c])
  BY FoundSame
<1>1. ASSUME NEW c \in Clients, Connect(c) PROVE AtWork'
  BY <1>0, <1>1 DEF Typed, ControlOK, ClientsOK, BufferOK, Places, AtWork, Connect, external
<1>2. ASSUME NEW c \in Clients, Send(c) PROVE AtWork'
  BY <1>0, <1>2 DEF Typed, ControlOK, ClientsOK, BufferOK, Places, AtWork, Send, external
<1>3. ASSUME NEW c \in Clients, Leave(c) PROVE AtWork'
  BY <1>0, <1>3 DEF Typed, ControlOK, ClientsOK, BufferOK, Places, AtWork, Leave, external
<1>4. CASE Accept
  BY <1>0, <1>4 DEF Typed, ControlOK, ClientsOK, BufferOK, Places, AtWork, Accept, external
<1>5. CASE RecvError
  BY <1>0, <1>5 DEF Typed, ControlOK, ClientsOK, BufferOK, Places, AtWork, RecvError, external
<1>6. CASE Recv
  <2>1. conn \in Clients /\ conn' = conn /\ pc' = "parse" /\ got' = [got EXCEPT ![conn] = segs[conn]]
        /\ message_buf'.head = req[conn] /\ (segs[conn] = 2 => message_buf'.tail = req[conn])
    BY <1>6 DEF Recv, Typed, ControlOK
  <2> QED
    BY <1>0, <2>1 DEF AtWork, Typed, ClientsOK
<1>7. CASE getFileName
  <2>1. ASSUME NEW c \in Clients, c = conn, got[c] = 2 PROVE name' = req[c]
    <3>1. message_buf.head = req[c] /\ message_buf.tail = req[c]
      BY <1>7, <2>1 DEF AtWork, getFileName
    <3>2. req[c] \in FileNames
      BY NamesAssumption DEF Typed, ClientsOK
    <3>3. Asked = req[c]
      BY <3>1, <3>2 DEF Asked, FileNames
    <3> QED
      BY <1>7, <3>1, <3>2, <3>3, NoneIsNoName DEF getFileName
  <2>2. pc' = "lookup" /\ conn' = conn /\ got' = got
    BY <1>7 DEF getFileName
  <2> QED
    BY <1>0, <2>1, <2>2 DEF AtWork
<1>8. CASE lookupFile
  <2>1. pc = "lookup" /\ pc' = "open" /\ conn' = conn /\ got' = got /\ name' = Found(name)
    BY <1>8 DEF lookupFile
  <2> QED
    BY <1>0, <2>1 DEF AtWork
<1>9. CASE send_HTTP_Response
  BY <1>0, <1>9 DEF Typed, ControlOK, ClientsOK, BufferOK, Places, AtWork, send_HTTP_Response, external
<1>10. CASE Answer
  BY <1>0, <1>10 DEF Typed, ControlOK, ClientsOK, BufferOK, Places, AtWork, Answer, external
<1>11. CASE Still
  BY <1>0, <1>11 DEF Typed, ControlOK, ClientsOK, BufferOK, Places, AtWork, Still, external
<1> QED
  BY Steps, <1>1, <1>2, <1>3, <1>4, <1>5, <1>6, <1>7, <1>8, <1>9, <1>10, <1>11

\* Every step keeps the replies right.
LEMMA RepliesStep ==
  ASSUME Typed, Places, AtWork, Replies, [Next]_vars
  PROVE  Replies'
<1>0. req' = req /\ \A c \in Clients : Found(req[c])' = Found(req[c])
  BY FoundSame
<1>1. ASSUME NEW c \in Clients, Connect(c) PROVE Replies'
  BY <1>0, <1>1 DEF Typed, ControlOK, ClientsOK, NamesOK, Places, AtWork, Replies, Connect, external
<1>2. ASSUME NEW c \in Clients, Send(c) PROVE Replies'
  BY <1>0, <1>2 DEF Typed, ControlOK, ClientsOK, NamesOK, Places, AtWork, Replies, Send, external
<1>3. ASSUME NEW c \in Clients, Leave(c) PROVE Replies'
  BY <1>0, <1>3 DEF Typed, ControlOK, ClientsOK, NamesOK, Places, AtWork, Replies, Leave, external
<1>4. CASE Accept
  BY <1>0, <1>4 DEF Typed, ControlOK, ClientsOK, NamesOK, Places, AtWork, Replies, Accept, external
<1>5. CASE RecvError
  BY <1>0, <1>5 DEF Typed, ControlOK, ClientsOK, NamesOK, Places, AtWork, Replies, RecvError, external
<1>6. CASE Recv
  <2>1. conn \in Clients /\ reply[conn] = None /\ reply' = reply /\ got' = [got EXCEPT ![conn] = segs[conn]]
    BY <1>6 DEF Recv, Typed, ControlOK, Places
  <2> QED
    BY <1>0, <2>1 DEF Replies, Typed, ClientsOK
<1>7. CASE getFileName
  BY <1>0, <1>7 DEF Typed, ControlOK, ClientsOK, NamesOK, Places, AtWork, Replies, getFileName, external
<1>8. CASE lookupFile
  BY <1>0, <1>8 DEF Typed, ControlOK, ClientsOK, NamesOK, Places, AtWork, Replies, lookupFile, external
<1>9. CASE send_HTTP_Response
  BY <1>0, <1>9 DEF Typed, ControlOK, ClientsOK, NamesOK, Places, AtWork, Replies, send_HTTP_Response, external
<1>10. CASE Answer
  <2>1. conn \in Clients /\ pc = "send" /\ reply' = [reply EXCEPT ![conn] = name] /\ got' = got
    BY <1>10 DEF Answer, Typed, ControlOK
  <2> QED
    BY <1>0, <2>1 DEF Replies, AtWork, Typed, NamesOK
<1>11. CASE Still
  BY <1>0, <1>11 DEF Typed, ControlOK, ClientsOK, NamesOK, Places, AtWork, Replies, Still, external
<1> QED
  BY Steps, <1>1, <1>2, <1>3, <1>4, <1>5, <1>6, <1>7, <1>8, <1>9, <1>10, <1>11

\* Every step keeps what is known of requests that were cut.
LEMMA InPartStep ==
  ASSUME Typed, Places, Tails, AtWorkInPart, RepliesInPart, [Next]_vars
  PROVE  Tails' /\ AtWorkInPart' /\ RepliesInPart'
<1>0. req' = req
  BY FoundSame
<1>1. ASSUME NEW d \in Clients, got[d] = 2 PROVE got'[d] = 2
  <2>1. CASE Recv
    BY <1>1, <2>1 DEF Recv, Typed, ControlOK, ClientsOK, Places
  <2> QED
    BY <1>1, <2>1, Steps DEF Connect, Leave, Send, Accept, RecvError, getFileName, lookupFile,
       send_HTTP_Response, Answer, Still
<1>2. ASSUME NEW c, NEW n, Patched(c, n) PROVE Patched(c, n)'
  BY <1>0, <1>1, <1>2 DEF Patched
<1>3. ASSUME NEW c, NEW n, PatchedTo(c, n) PROVE PatchedTo(c, n)'
  BY <1>0, <1>1, <1>3 DEF PatchedTo
<1>4. Tails'
  <2>1. CASE Recv
    <3>1. /\ conn \in Clients /\ got' = [got EXCEPT ![conn] = segs[conn]]
          /\ message_buf'.tail = (IF segs[conn] = 2 THEN req[conn] ELSE message_buf.tail)
      BY <2>1 DEF Recv, Typed, ControlOK
    <3>2. CASE segs[conn] = 2
      BY <1>0, <3>1, <3>2 DEF Tails, Typed, ClientsOK
    <3>3. CASE segs[conn] # 2
      BY <1>0, <1>1, <3>1, <3>3 DEF Tails
    <3> QED
      BY <3>2, <3>3
  <2>2. CASE message_buf' = message_buf
    BY <1>0, <1>1, <2>2 DEF Tails
  <2> QED
    BY <2>1, <2>2, Steps DEF Connect, Leave, Send, Accept, RecvError, getFileName, lookupFile,
       send_HTTP_Response, Answer, Still
<1>5. AtWorkInPart'
  <2>1. CASE Accept \/ RecvError \/ Answer
    BY <2>1 DEF Accept, RecvError, Answer, AtWorkInPart
  <2>2. CASE Recv
    BY <1>0, <2>2 DEF Recv, AtWorkInPart
  <2>3. CASE getFileName
    <3>1. pc = "parse" /\ pc' = "lookup" /\ conn' = conn
          /\ name' = (IF message_buf.tail # None THEN Asked ELSE None)
      BY <2>3 DEF getFileName
    <3>2. ASSUME NEW c \in Clients, c = conn, message_buf.tail # None
          PROVE  Asked \in FileNames /\ Patched(c, Asked)
      <4>1. message_buf.head \in FileNames /\ message_buf.tail \in FileNames /\ message_buf.head = req[c]
        BY <3>1, <3>2 DEF Typed, BufferOK, AtWorkInPart
      <4>2. \A h, t \in FileNames : /\ [h EXCEPT !.ext = t.ext] \in FileNames
                                     /\ [h EXCEPT !.ext = t.ext].stem = h.stem
                                     /\ [h EXCEPT !.ext = t.ext].ext = t.ext
        BY DEF FileNames
      <4>3. Asked \in FileNames /\ Asked.stem = req[c].stem /\ Asked.ext = message_buf.tail.ext
        BY <4>1, <4>2 DEF Asked
      <4>4. PICK d \in Clients : got[d] = 2 /\ message_buf.tail = req[d]
        BY <3>2 DEF Tails
      <4> QED
        BY <4>3, <4>4 DEF Patched
    <3>4. ASSUME NEW c \in Clients, c = conn', name' # None
          PROVE  name' \in FileNames /\ Patched(c, name)'
      <4>1. message_buf.tail # None
        BY <3>1, <3>4
      <4>2. PICK n : n = Asked
        OBVIOUS
      <4>3. n \in FileNames /\ Patched(c, n)
        BY <3>1, <3>2, <3>4, <4>1, <4>2
      <4>4. n \in FileNames /\ Patched(c, n)'
        BY <1>2, <4>3
      <4>5. name' = n
        BY <3>1, <4>1, <4>2
      <4> QED
        BY <4>4, <4>5 DEF Patched
    <3> QED
      BY <3>1, <3>4 DEF AtWorkInPart
  <2>4. CASE lookupFile
    <3>1. pc = "lookup" /\ pc' = "open" /\ conn' = conn /\ name' = Found(name)
      BY <2>4 DEF lookupFile
    <3>2. ASSUME NEW c \in Clients, c = conn, name' # NotFound PROVE PatchedTo(c, name)'
      <4>1. name # None
        BY <3>1, <3>2, FoundHit
      <4>2. name \in FileNames /\ Patched(c, name)
        BY <3>1, <3>2, <4>1 DEF AtWorkInPart
      <4>3. PICK n : n = Found(name)
        OBVIOUS
      <4>4. Fits(name, n)
        BY <3>1, <3>2, <4>2, <4>3, FoundAsked DEF Typed, ClientsOK
      <4>5. PatchedTo(c, n)
        BY <4>2, <4>4 DEF Patched, PatchedTo, Fits
      <4>6. PatchedTo(c, n)'
        BY <1>3, <4>5
      <4>7. name' = n
        BY <3>1, <4>3
      <4> QED
        BY <4>6, <4>7 DEF PatchedTo
    <3> QED
      BY <3>1, <3>2 DEF AtWorkInPart
  <2>5. CASE send_HTTP_Response
    <3>1. pc = "open" /\ pc' = "send" /\ conn' = conn /\ name' = name
      BY <2>5 DEF send_HTTP_Response
    <3>2. ASSUME NEW c \in Clients, c = conn, name # NotFound PROVE PatchedTo(c, name)'
      BY <1>0, <1>1, <3>1, <3>2 DEF AtWorkInPart, PatchedTo
    <3> QED
      BY <3>1, <3>2 DEF AtWorkInPart
  <2>6. CASE UNCHANGED <<conn, pc, name, message_buf>>
    BY <1>0, <1>1, <2>6 DEF AtWorkInPart, Patched, PatchedTo
  <2> QED
    BY <2>1, <2>2, <2>3, <2>4, <2>5, <2>6, Steps DEF Connect, Leave, Send, Still
<1>6. RepliesInPart'
  <2>1. CASE Answer
    <3>1. conn \in Clients /\ pc = "send" /\ reply' = [reply EXCEPT ![conn] = name]
      BY <2>1 DEF Answer, Typed, ControlOK
    <3>2. ASSUME NEW c \in Clients, reply'[c] \notin {None, NotFound} PROVE PatchedTo(c, reply'[c])
      BY <3>1, <3>2 DEF AtWorkInPart, RepliesInPart, Typed, NamesOK
    <3> QED
      BY <1>0, <1>1, <3>2 DEF RepliesInPart, PatchedTo
  <2>2. CASE reply' = reply
    BY <1>0, <1>1, <2>2 DEF RepliesInPart, PatchedTo
  <2> QED
    BY <2>1, <2>2, Steps DEF Connect, Leave, Send, Accept, RecvError, Recv, getFileName, lookupFile,
       send_HTTP_Response, Still
<1> QED
  BY <1>4, <1>5, <1>6

\* Whoever is proper after a step was so before it.
LEMMA ProperBefore ==
  ASSUME Typed, Places, [Next]_vars, AllProper'
  PROVE  AllProper
<1>1. req' = req
  BY FoundSame
<1>2. ASSUME NEW c \in Clients PROVE net[c] # net'[c] => net[c] \in {"off", "wait"}
  <2>1. CASE UNCHANGED net
    BY <2>1
  <2>2. CASE \E d \in Clients : Connect(d) \/ Leave(d)
    BY <2>2 DEF Connect, Leave, Typed, ClientsOK
  <2> QED
    BY <2>1, <2>2, Steps DEF Send, Accept, RecvError, Recv, getFileName, lookupFile,
       send_HTTP_Response, Answer, Still, external
<1>3. ASSUME NEW c \in Clients PROVE got[c] # got'[c] => got[c] = 0
  <2>1. CASE Recv
    BY <2>1 DEF Recv, Typed, ControlOK, ClientsOK, Places
  <2> QED
    BY <2>1, Steps DEF Connect, Leave, Send, Accept, RecvError, getFileName, lookupFile,
       send_HTTP_Response, Answer, Still
<1> QED
  BY <1>1, <1>2, <1>3 DEF AllProper, Proper

\* Those whose lookup was a hit are finitely many clients.
LEMMA LookedFinite == IsFiniteSet(Looked) /\ Cardinality(Looked) \in Nat
  BY ClientsAssumption, FS_Subset, FS_CardinalityType DEF Looked

\* Every step keeps the descriptors accounted for.
LEMMA DescriptorsStep ==
  ASSUME Typed, Places, AtWork, Descriptors, AllProper', [Next]_vars
  PROVE  Spent'
<1>0. req' = req /\ \A c \in Clients : Found(req[c])' = Found(req[c])
  BY FoundSame
<1>spent. AllProper /\ Spent
  BY ProperBefore DEF Descriptors
<1> USE DEF Spent
<1>1. ASSUME NEW c \in Clients, Connect(c) PROVE Spent'
  <2>1. fds' = fds /\ conn' = conn /\ got' = got
        /\ (pc \in {"open", "send"} <=> pc' \in {"open", "send"})
    BY <1>1 DEF Connect
  <2>2. Looked' = Looked
    BY <1>0, <2>1 DEF Looked
  <2> QED
    BY <1>spent, <2>1, <2>2
<1>2. ASSUME NEW c \in Clients, Send(c) PROVE Spent'
  <2>1. fds' = fds /\ conn' = conn /\ got' = got
        /\ (pc \in {"open", "send"} <=> pc' \in {"open", "send"})
    BY <1>2 DEF Send
  <2>2. Looked' = Looked
    BY <1>0, <2>1 DEF Looked
  <2> QED
    BY <1>spent, <2>1, <2>2
<1>3. ASSUME NEW c \in Clients, Leave(c) PROVE Spent'
  <2>1. fds' = fds /\ conn' = conn /\ got' = got
        /\ (pc \in {"open", "send"} <=> pc' \in {"open", "send"})
    BY <1>3 DEF Leave
  <2>2. Looked' = Looked
    BY <1>0, <2>1 DEF Looked
  <2> QED
    BY <1>spent, <2>1, <2>2
<1>4. CASE Accept
  <2>1. conn = NoOne /\ conn' = Head(queue) /\ fds' = fds + 1 /\ got' = got
    BY <1>4 DEF Accept, Typed, ControlOK
  <2>2. Head(queue) \in Clients /\ got[Head(queue)] = 0 /\ Head(queue) # NoOne
    BY <1>4, LeaveQueue, ClientsAssumption DEF Accept, Typed, QueueOK, Places
  <2>3. Looked' = Looked
    BY <1>0, <2>1, <2>2, ClientsAssumption DEF Looked
  <2> QED
    BY <1>spent, <2>1, <2>2, <2>3, LookedFinite DEF Typed, ControlOK
<1>5. CASE RecvError
  BY <1>5, <1>spent, ClientsAssumption DEF RecvError, AllProper, Proper, Typed, ControlOK
<1>6. CASE Recv
  <2>1. conn \in Clients /\ pc = "recv" /\ pc' = "parse" /\ UNCHANGED <<conn, fds>>
        /\ got' = [got EXCEPT ![conn] = segs[conn]]
    BY <1>6 DEF Recv, Typed, ControlOK
  <2>2. Looked' = Looked
    BY <1>0, <2>1 DEF Looked, Typed, ClientsOK
  <2> QED
    BY <1>spent, <2>1, <2>2
<1>7. CASE getFileName
  <2>1. fds' = fds /\ conn' = conn /\ got' = got
        /\ (pc \in {"open", "send"} <=> pc' \in {"open", "send"})
    BY <1>7 DEF getFileName
  <2>2. Looked' = Looked
    BY <1>0, <2>1 DEF Looked
  <2> QED
    BY <1>spent, <2>1, <2>2
<1>8. CASE lookupFile
  <2>1. conn \in Clients /\ conn # NoOne /\ pc = "lookup" /\ pc' = "open" /\ UNCHANGED <<conn, got>>
        /\ fds' = (IF Found(name) = NotFound THEN fds ELSE fds + 1)
    BY <1>8, ClientsAssumption DEF lookupFile, Typed, ControlOK
  <2>2. got[conn] = 2
    BY <1>spent, <2>1 DEF AllProper, Proper, Places, Typed, ClientsOK
  <2>3. name = req[conn]
    BY <2>1, <2>2 DEF AtWork
  <2>4. conn \notin Looked
    BY <2>1 DEF Looked
  <2>5. CASE Found(name) = NotFound
    <3>1. Looked' = Looked
      BY <1>0, <2>1, <2>3, <2>5 DEF Looked
    <3> QED
      BY <1>spent, <2>1, <2>5, <3>1
  <2>6. CASE Found(name) # NotFound
    <3>1. Looked' = Looked \cup {conn}
      BY <1>0, <2>1, <2>2, <2>3, <2>6 DEF Looked
    <3>2. Cardinality(Looked') = Cardinality(Looked) + 1
      BY <2>4, <3>1, LookedFinite, FS_AddElement
    <3> QED
      BY <1>spent, <2>1, <2>6, <3>2, LookedFinite DEF Typed, ControlOK
  <2> QED
    BY <2>5, <2>6
<1>9. CASE send_HTTP_Response
  <2>1. fds' = fds /\ conn' = conn /\ got' = got
        /\ (pc \in {"open", "send"} <=> pc' \in {"open", "send"})
    BY <1>9 DEF send_HTTP_Response
  <2>2. Looked' = Looked
    BY <1>0, <2>1 DEF Looked
  <2> QED
    BY <1>spent, <2>1, <2>2
<1>10. CASE Answer
  <2>1. conn \in Clients /\ conn # NoOne /\ pc = "send" /\ conn' = NoOne /\ fds' = fds - 1 /\ got' = got
    BY <1>10, ClientsAssumption DEF Answer, Typed, ControlOK
  <2>2. Looked' = Looked
    BY <1>0, <2>1, ClientsAssumption DEF Looked
  <2> QED
    BY <1>spent, <2>1, <2>2, LookedFinite DEF Typed, ControlOK
<1>11. CASE Still
  <2>1. fds' = fds /\ conn' = conn /\ got' = got
        /\ (pc \in {"open", "send"} <=> pc' \in {"open", "send"})
    BY <1>11 DEF Still
  <2>2. Looked' = Looked
    BY <1>0, <2>1 DEF Looked
  <2> QED
    BY <1>spent, <2>1, <2>2
<1> QED
  BY Steps, <1>1, <1>2, <1>3, <1>4, <1>5, <1>6, <1>7, <1>8, <1>9, <1>10, <1>11

\* While it serves a proper client the server has descriptors to spare.
LEMMA ToSpare ==
  ASSUME Typed, Descriptors, Calm, conn # NoOne
  PROVE  fds < LIMIT
<1>1. Looked \subseteq Wanted
  BY FoundFits DEF Looked, Wanted, Typed, ClientsOK
<1>2. IsFiniteSet(Wanted)
  BY ClientsAssumption, FS_Subset DEF Wanted
<1>3. Cardinality(Looked) <= Cardinality(Wanted) /\ Cardinality(Wanted) \in Nat
  BY <1>1, <1>2, FS_Subset, FS_CardinalityType
<1> QED
  <2>1. AllProper /\ Cardinality(Wanted) <= LIMIT - 6
    BY DEF Calm
  <2>2. fds = Cardinality(Looked) + 5
    BY <2>1 DEF Descriptors, Spent
  <2> QED
    BY <1>3, <2>1, <2>2, LookedFinite, LimitsAssumption

\* Where everything is calm no call ends the process.
LEMMA NobodyEnds ==
  ASSUME Typed, Places, AtWork, Descriptors, Calm
  PROVE  ~(RecvNothing \/ BadName \/ lookupFails \/ OpenFails \/ AnswerNobody)
<1>1. conn # NoOne => conn \in Clients /\ Proper(conn) /\ fds < LIMIT
  BY ToSpare DEF Typed, ControlOK, Calm, AllProper
<1>2. conn # NoOne /\ pc # "recv" => got[conn] = 2
  BY <1>1 DEF Typed, ControlOK, ClientsOK, Places, Proper
<1>3. ~RecvNothing
  BY <1>1 DEF RecvNothing, Proper, Typed, ControlOK
<1>4. ~AnswerNobody
  BY <1>1 DEF AnswerNobody, Proper, Typed, ControlOK
<1>5. ~BadName
  <2> SUFFICES ASSUME BadName PROVE FALSE
    OBVIOUS
  <2>1. conn \in Clients /\ message_buf.head = req[conn] /\ message_buf.tail = req[conn]
    BY <1>1, <1>2 DEF BadName, AtWork, Typed, ControlOK
  <2>2. req[conn] # None
    BY <2>1, NamesAssumption, NoneIsNoName DEF Typed, ClientsOK
  <2> QED
    BY <1>1, <2>1, <2>2 DEF BadName, Proper, Typed, ControlOK
<1>6. ~lookupFails
  <2>1. host.build # "damages"
    BY DEF Calm
  <2> QED
    BY <1>1, <2>1 DEF lookupFails, Typed, ControlOK
<1>7. ~OpenFails
  <2> SUFFICES ASSUME OpenFails PROVE FALSE
    OBVIOUS
  <2>1. conn \in Clients /\ fds < LIMIT /\ name = Found(req[conn]) /\ ~fopen(name)
    BY <1>1, <1>2 DEF OpenFails, AtWork, Typed, ControlOK
  <2>2. CASE name = NotFound
    BY <2>1, <2>2 DEF fopen, Calm
  <2>3. CASE name # NotFound
    <3>1. PICK k \in DOMAIN Directory : Found(req[conn]) = string_To_Lowercase(Directory[k])
      BY <2>1, <2>3, FoundFits DEF Typed, ClientsOK
    <3> QED
      BY <2>1, <3>1 DEF fopen, Calm
  <2> QED
    BY <2>2, <2>3
<1> QED
  BY <1>3, <1>4, <1>5, <1>6, <1>7

\* Every step leaves the server running where everything is calm.
LEMMA SurvivesStep ==
  ASSUME Typed, Places, AtWork, Descriptors, SurvivesProperClients, [Next]_vars
  PROVE  SurvivesProperClients'
<1>1. SurvivesProperClients <=> (Calm => status = Running)
  BY DEF SurvivesProperClients, Calm, AllProper, Wanted
<1>2. (SurvivesProperClients <=> (Calm => status = Running))'
  BY DEF SurvivesProperClients, Calm, AllProper, Wanted
<1>3. ASSUME Still PROVE Calm' => Calm
  <2>1. net' = net /\ got' = got /\ req' = req /\ host' = host
    BY <1>3 DEF Still, external
  <2>2. AllProper' <=> AllProper
    BY <2>1 DEF AllProper, Proper
  <2>3. Wanted' = Wanted
    BY <2>1 DEF Wanted, Fits
  <2>4. ASSUME NEW n PROVE Opens(n)' <=> Opens(n)
    BY <2>1 DEF Opens
  <2>5. ASSUME NEW k \in DOMAIN Directory
        PROVE  Opens(string_To_Lowercase(Directory[k]))' <=> Opens(string_To_Lowercase(Directory[k]))
    BY <2>1 DEF Opens, string_To_Lowercase
  <2>6. Opens(NotFound)' <=> Opens(NotFound)
    BY <2>1 DEF Opens
  <2> QED
    BY <2>1, <2>2, <2>3, <2>5, <2>6 DEF Calm
<1>4. CASE UNCHANGED vars
  <2>1. Still /\ status' = status
    BY <1>4 DEF vars, Still
  <2> QED
    BY <1>1, <1>2, <1>3, <2>1
<1>5. CASE RecvNothing \/ BadName \/ lookupFails \/ OpenFails \/ AnswerNobody
  <2>1. Still
    BY <1>5 DEF RecvNothing, BadName, lookupFails, OpenFails, AnswerNobody, Ends, Still
  <2> QED
    BY <1>2, <1>3, <1>5, <2>1, NobodyEnds
<1>6. CASE /\ Next
           /\ ~(RecvNothing \/ BadName \/ lookupFails \/ OpenFails \/ AnswerNobody)
  <2>1. status' = Running
    BY <1>6 DEF Next, Server, Client, Accept, RecvError, Recv, getFileName, lookupFile,
       send_HTTP_Response, Answer, Connect, Send, Leave
  <2> QED
    BY <1>2, <2>1
<1> QED
  BY <1>4, <1>5, <1>6

\* Initially the invariant holds.
LEMMA InitIInv ==
  ASSUME Init
  PROVE  IInv
<1>1. ControlOK
  BY LimitsAssumption DEF Init, ControlOK
<1>2. ClientsOK
  BY DEF Init, ClientsOK
<1>3. QueueOK
  BY LimitsAssumption, EmptySeq DEF Init, QueueOK
<1>4. BufferOK
  BY DEF Init, BufferOK
<1>5. NamesOK
  BY DEF Init, NamesOK, Resources
<1>6. Typed
  BY <1>1, <1>2, <1>3, <1>4, <1>5 DEF Init, Typed
<1>7. Members(queue) = {} /\ Distinct(queue)
  BY DEF Init, Members, Distinct
<1>8. Places
  BY <1>7, ClientsAssumption DEF Init, Places
<1>9. AtWork /\ Replies
  BY DEF Init, AtWork, Replies
<1>12. Tails /\ AtWorkInPart /\ RepliesInPart
  BY ClientsAssumption DEF Init, Tails, AtWorkInPart, RepliesInPart
<1>10. Descriptors
  <2>1. Looked = {}
    BY DEF Init, Looked
  <2>2. fds = 4 /\ conn = NoOne
    BY DEF Init
  <2> QED
    BY <2>1, <2>2, FS_EmptySet DEF Descriptors, Spent
<1>11. SurvivesProperClients
  BY DEF Init, SurvivesProperClients
<1> QED
  BY <1>6, <1>8, <1>9, <1>10, <1>11, <1>12 DEF IInv

\* The inductive invariant holds throughout.
LEMMA Inductive == Spec => []IInv
<1>1. Init => IInv
  BY InitIInv
<1>2. IInv /\ [Next]_vars => IInv'
  <2> SUFFICES ASSUME IInv, [Next]_vars PROVE IInv'
    OBVIOUS
  <2>1. /\ Typed /\ Places /\ AtWork /\ Replies /\ Descriptors /\ SurvivesProperClients
        /\ Tails /\ AtWorkInPart /\ RepliesInPart
    BY DEF IInv
  <2>2. Descriptors'
    BY <2>1, DescriptorsStep DEF Descriptors
  <2> QED
    BY <2>1, <2>2, TypedStep, PlacesStep, AtWorkStep, RepliesStep, SurvivesStep, InPartStep DEF IInv
<1> QED
  BY <1>1, <1>2, PTL DEF Spec

-----------------------------------------------------------------------------
\* The results

\* A client whose request recv() got whole is answered with a file that fits it, and with
\* the error page although an entry fits only if the two differ in case and the lookup does
\* not fold them; one whose request was cut is answered with a file of the stem it asked for
\* and an extension another client's request lets through: for any clients, requests,
\* directory and host.
THEOREM AnswersAreRight == Spec => []RightAnswer
<1>1. IInv => RightAnswer
  <2> SUFFICES ASSUME IInv PROVE RightAnswer
    OBVIOUS
  <2>1. Typed /\ Replies /\ host \in Hosts /\ req \in Requests
    BY DEF IInv, Typed, ClientsOK
  <2>2. TypeOK
    BY <2>1 DEF Typed, ControlOK, QueueOK, TypeOK
  <2>3. RightFile
    <3>1. ASSUME NEW c \in Served, got[c] = 2 PROVE Fits(req[c], reply[c])
      BY <2>1, <3>1, FoundFits DEF Served, Answered, Replies
    <3>2. ASSUME NEW c \in Served PROVE PatchedTo(c, reply[c])
      BY DEF IInv, RepliesInPart, Served, Answered
    <3> QED
      BY <3>1, <3>2 DEF RightFile, PatchedTo, Served
  <2>4. NoFalseMiss
    <3> SUFFICES ASSUME NEW c \in Clients, NEW k \in DOMAIN Directory, reply[c] = NotFound, got[c] = 2,
                        ~ (/\ req[c].upper # Directory[k].upper
                           /\ host.build # "folds short" \/ req[c].long)
                 PROVE  ~Fits(req[c], Directory[k])
      BY DEF NoFalseMiss
    <3>1. NotFound # None
      BY DEF NotFound, None
    <3>2. Found(req[c]) = NotFound
      BY <2>1, <3>1 DEF Replies
    <3> QED
      BY <2>1, <3>2, FoundMiss
  <2> QED
    BY <2>2, <2>3, <2>4 DEF RightAnswer
<1> QED
  BY <1>1, Inductive, PTL

\* Clients that send whole requests with plain paths and stay cannot end the process while
\* it has descriptors: the directories lookupFile() leaves open are all it loses.
THEOREM ProperClientsAreSafe == Spec => []SurvivesProperClients
<1>1. IInv => SurvivesProperClients
  BY DEF IInv
<1> QED
  BY <1>1, Inductive, PTL
=============================================================================
