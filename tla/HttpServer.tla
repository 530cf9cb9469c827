------------------------------- MODULE HttpServer -------------------------------
(***************************************************************************)
(* CS118 project 1: server.cpp answers one request per connection, one     *)
(* connection at a time, with a file of its directory.  A file name is a   *)
(* record: stem, extension ("" for none), whether it is in upper case,     *)
(* whether it is, with its extension or without, too long for the string   *)
(* object itself.  The clients, the network and the file system are        *)
(* external.                                                               *)
(***************************************************************************)
EXTENDS Integers, Sequences, SequencesExt, FiniteSets

CONSTANTS Clients,
          Requests,      \* what the clients may ask for: functions on Clients
          Hosts,         \* builds and file systems: see host below
          Directory,     \* the entries of the directory, in readdir()'s order
          BACKLOG,       \* connections that may wait for accept()
          LIMIT          \* descriptors the process may have

FileNames == [stem : STRING, ext : STRING, upper : BOOLEAN, long : BOOLEAN]
None      == [stem |-> "", ext |-> "none"]
NotFound  == [stem |-> "404 Error Page", ext |-> "", upper |-> FALSE, long |-> FALSE]
NoOne     == "nobody"

ASSUME LimitsAssumption == BACKLOG \in Nat \ {0} /\ LIMIT \in Nat /\ LIMIT > 4

ASSUME ClientsAssumption == IsFiniteSet(Clients) /\ NoOne \notin Clients

\* Nobody asks for the error page by its own name.
ASSUME NamesAssumption ==
  /\ Requests \subseteq [Clients -> FileNames]
  /\ \A r \in Requests, c \in Clients : r[c].stem # NotFound.stem
  /\ Directory \in Seq(FileNames)

ASSUME HostsAssumption ==
  Hosts \subseteq [build : {"folds short", "folds none", "damages"}, cased : BOOLEAN, files : SUBSET FileNames]

VARIABLES
  req,           \* what each client asks for
  net,           \* client -> "off", "wait" (connected), "fin" or "rst" (has left)
  segs,          \* client -> segments of its request that have arrived
  reply,         \* client -> the resource it was sent
  queue,         \* connections not yet accepted
  pc, conn,      \* where the server is, and the client it is serving
  message_buf,   \* the buffer of recv(), which keeps what an earlier one left
  name,          \* the file looked for, then the one found
  fds,           \* open descriptors
  host,          \* what string_To_Lowercase() does in this build (build), whether the
                 \* file system keeps upper and lower case apart (cased), and the files
                 \* of the directory the server was started in (files)
  got,           \* history: the segments recv() got of each client's request
  status

external == <<req, net, segs, host>>
vars == <<external, reply, queue, pc, conn, message_buf, name, fds, got, status>>

Running == -1
Aborted == 134
SigPipe == 141

Init ==
  /\ req \in Requests
  /\ net = [c \in Clients |-> "off"] /\ segs = [c \in Clients |-> 0]
  /\ reply = [c \in Clients |-> None]
  /\ queue = <<>> /\ pc = "accept" /\ conn = NoOne
  /\ message_buf = [head |-> None, tail |-> None] /\ name = None
  /\ fds = 4            \* the standard three and sock_listen
  /\ host \in Hosts
  /\ got = [c \in Clients |-> 0]
  /\ status = Running

-----------------------------------------------------------------------------
\* External: a client connects, sends its request in one or two segments, or leaves.
\* What it sends after recv(), or does after the answer, the server does not see.

Connect(c) ==
  /\ net[c] = "off" /\ Len(queue) < BACKLOG
  /\ net' = [net EXCEPT ![c] = "wait"]
  /\ queue' = Append(queue, c)
  /\ UNCHANGED <<req, segs, host, reply, pc, conn, message_buf, name, fds, got, status>>

Send(c) ==
  /\ net[c] = "wait" /\ got[c] = 0 /\ segs[c] < 2
  /\ \E n \in (segs[c] + 1)..2 : segs' = [segs EXCEPT ![c] = n]
  /\ UNCHANGED <<req, net, host, reply, queue, pc, conn, message_buf, name, fds, got, status>>

Leave(c) ==
  /\ net[c] = "wait" /\ reply[c] = None
  /\ \E how \in {"fin", "rst"} : net' = [net EXCEPT ![c] = how]
  /\ UNCHANGED <<req, segs, host, reply, queue, pc, conn, message_buf, name, fds, got, status>>

-----------------------------------------------------------------------------
\* The accept loop

Ends(s) == status' = s /\ UNCHANGED <<external, reply, queue, pc, conn, message_buf, name, fds, got>>

\* Without a descriptor accept() fails and is tried again at once.
Accept ==
  /\ pc = "accept" /\ queue # <<>> /\ fds < LIMIT
  /\ conn' = Head(queue) /\ queue' = Tail(queue)
  /\ fds' = fds + 1 /\ pc' = "recv"
  /\ UNCHANGED <<external, reply, message_buf, name, status, got>>

\* recv() fails: the loop goes on, and the socket stays open.
RecvError ==
  /\ pc = "recv" /\ net[conn] = "rst"
  /\ pc' = "accept" /\ conn' = NoOne
  /\ UNCHANGED <<external, reply, queue, message_buf, name, fds, status, got>>

\* The client has closed the connection: exit(1).
RecvNothing == pc = "recv" /\ net[conn] = "fin" /\ segs[conn] = 0 /\ Ends(1)

\* Mutant of Recv: recv() is called until the request is whole.
RecvWhole ==
  /\ pc = "recv" /\ net[conn] # "rst" /\ segs[conn] = 2
  /\ message_buf' = [head |-> req[conn], tail |-> req[conn]]
  /\ got' = [got EXCEPT ![conn] = 2]
  /\ pc' = "parse"
  /\ UNCHANGED <<external, reply, queue, conn, name, fds, status>>

\* The first segment goes over what is in the buffer, and leaves the rest of it.
Recv ==
  /\ pc = "recv" /\ net[conn] # "rst" /\ segs[conn] > 0
  /\ message_buf' = [head |-> req[conn],
                     tail |-> IF segs[conn] = 2 THEN req[conn] ELSE message_buf.tail]
  /\ got' = [got EXCEPT ![conn] = segs[conn]]
  /\ pc' = "parse"
  /\ UNCHANGED <<external, reply, queue, conn, name, fds, status>>

\* getFileName(): the text between the first slash and the five characters before the
\* next.  Nothing ends the line in a buffer that no whole request has filled.
Asked == [message_buf.head EXCEPT !.ext = message_buf.tail.ext]

getFileName ==
  /\ pc = "parse"
  /\ \/ /\ message_buf.tail # None
        /\ ~(message_buf.head.stem = "path" \/ message_buf.tail.stem = "path")
        /\ name' = Asked /\ pc' = "lookup" /\ UNCHANGED status
     \/ /\ message_buf.tail = None
        /\ name' = None /\ pc' = "lookup" /\ UNCHANGED status
  /\ UNCHANGED <<external, reply, queue, conn, message_buf, fds, got>>

\* A slash among the first characters of the path, or no end of line: erase() throws, or
\* memory is overrun.
BadName ==
  /\ pc = "parse"
  /\ message_buf.tail = None \/ "path" \in {message_buf.head.stem, message_buf.tail.stem}
  /\ Ends(Aborted)

-----------------------------------------------------------------------------
\* lookupFile()

\* string_To_Lowercase() takes the string object for its characters: where a short
\* string is kept in the object this folds it, elsewhere it changes a pointer or nothing.
string_To_Lowercase(n) == IF host.build = "folds short" /\ ~n.long THEN [n EXCEPT !.upper = FALSE] ELSE n

\* Whether entry d is what is asked for as f, both folded.  Without an extension any
\* will do, but for names that begin with a dot.
Hit(f, d) == IF f.ext # "" THEN d = f
             ELSE d.stem = f.stem /\ d.upper = f.upper /\ d.long = f.long

\* Mutant of Hits: the names of the entries are not folded.
HitsAsKept(f) == {k \in DOMAIN Directory : Hit(string_To_Lowercase(f), Directory[k])}

Hits(f) == {k \in DOMAIN Directory : Hit(string_To_Lowercase(f), string_To_Lowercase(Directory[k]))}

\* The first entry that is a hit, folded.
Found(f) == IF f = None \/ Hits(f) = {} THEN NotFound
            ELSE string_To_Lowercase(Directory[Min(Hits(f))])

\* Mutant of lookupFile: closedir() is never called.
lookupFileLeaks ==
  /\ pc = "lookup" /\ fds < LIMIT /\ host.build # "damages"
  /\ name' = Found(name) /\ fds' = fds + 1 /\ pc' = "open"
  /\ UNCHANGED <<external, reply, queue, conn, message_buf, status, got>>

\* A hit returns from inside the loop, before closedir().
lookupFile ==
  /\ pc = "lookup" /\ fds < LIMIT /\ host.build # "damages"
  /\ name' = Found(name)
  /\ fds' = IF Found(name) = NotFound THEN fds ELSE fds + 1
  /\ pc' = "open"
  /\ UNCHANGED <<external, reply, queue, conn, message_buf, status, got>>

\* opendir() fails: exit(1).  A damaged string ends the process.
lookupFails == /\ pc = "lookup"
               /\ \/ fds = LIMIT /\ Ends(1)
                  \/ host.build = "damages" /\ fds < LIMIT /\ Ends(Aborted)

-----------------------------------------------------------------------------
\* send_HTTP_Response()

\* Whether a file can be opened by name n.  The directory looked through is fixed in the
\* program; the name, folded, is opened in the one the server was started in.
AnyCase(n) == [n EXCEPT !.upper = FALSE]
Opens(n)   == n \in host.files \/ (~host.cased /\ \E f \in host.files : AnyCase(f) = AnyCase(n))

fopen(n) == fds < LIMIT /\ Opens(n)

\* The file is read and closed again; the status line says 200 whatever it is.
send_HTTP_Response ==
  /\ pc = "open" /\ fopen(name)
  /\ pc' = "send"
  /\ UNCHANGED <<external, reply, queue, conn, message_buf, name, fds, status, got>>

OpenFails == pc = "open" /\ ~fopen(name) /\ Ends(1)

Answer ==
  /\ pc = "send" /\ net[conn] # "rst"
  /\ reply' = [reply EXCEPT ![conn] = name]
  /\ fds' = fds - 1 /\ pc' = "accept" /\ conn' = NoOne
  /\ UNCHANGED <<external, queue, message_buf, name, status, got>>

\* Nobody ignores SIGPIPE.
AnswerNobody == pc = "send" /\ net[conn] = "rst" /\ Ends(SigPipe)

Server ==
  /\ status = Running
  /\ \/ Accept \/ RecvError \/ RecvNothing \/ Recv \/ getFileName \/ BadName
     \/ lookupFile \/ lookupFails \/ send_HTTP_Response \/ OpenFails
     \/ Answer \/ AnswerNobody

Client(c) == status = Running /\ (Connect(c) \/ Send(c) \/ Leave(c))

Next == Server \/ \E c \in Clients : Client(c)

\* The server is scheduled, and a client that has connected sends or leaves in the end.
Spec == /\ Init /\ [][Next]_vars /\ WF_vars(Server)
        /\ \A c \in Clients : WF_vars(status = Running /\ segs[c] = 0 /\ (Send(c) \/ Leave(c)))

-----------------------------------------------------------------------------
\* The values the variables may take; no more descriptors than the limit.
TypeOK ==
  /\ fds \in 4..LIMIT /\ Len(queue) <= BACKLOG /\ pc \in {"accept", "recv", "parse", "lookup", "open", "send"}
  /\ conn \in Clients \cup {NoOne} /\ (conn = NoOne <=> pc = "accept")
  /\ status \in {Running, 1, Aborted, SigPipe}

Answered(c) == reply[c] # None
Served      == {c \in Clients : Answered(c) /\ reply[c] # NotFound}

\* What a file may be asked for by: its name in any case, with or without extension.
Fits(r, d) == r.stem = d.stem /\ r.long = d.long /\ r.ext \in {"", d.ext}

\* A client whose request was received whole is sent a file that fits the request, whatever
\* requests the buffer held before and however the lookup folded the names.  One whose
\* request was cut is sent a file with the stem it asked for; its extension is one that a
\* client whose request was received whole asked for, or, where that one asked for none, any.
RightFile ==
  \A c \in Served :
    IF got[c] = 2 THEN Fits(req[c], reply[c])
    ELSE /\ reply[c].stem = req[c].stem
         /\ \E d \in Clients : got[d] = 2 /\ req[d].ext \in {"", reply[c].ext}

\* A client whose request was received whole is sent the error page although an entry fits
\* it only if the two are in different cases and the lookup leaves names as they are, which
\* it does with long ones and in builds that keep no string in the string object.
NoFalseMiss ==
  \A c \in Clients : \A k \in DOMAIN Directory :
    reply[c] = NotFound /\ got[c] = 2 /\ Fits(req[c], Directory[k])
      => req[c].upper # Directory[k].upper /\ (host.build # "folds short" \/ req[c].long)

\* Files that fit what is asked for, and no error page but where names are not folded.
RightAnswer == TypeOK /\ RightFile /\ NoFalseMiss

\* Clients that send whole requests with plain paths and stay cannot stop the server
\* while it has descriptors, if the directory it was started in has the error page and
\* whatever the lookup may find, by the names the lookup makes of them.
Proper(c) == net[c] \in {"off", "wait"} /\ got[c] # 1 /\ req[c].stem # "path"
SurvivesProperClients ==
  /\ \A c \in Clients : Proper(c)
  /\ Cardinality({c \in Clients : got[c] = 2 /\ \E k \in DOMAIN Directory :
                    Fits(req[c], Directory[k])}) <= LIMIT - 6
  /\ host.build # "damages" /\ Opens(NotFound)
  /\ \A k \in DOMAIN Directory : Opens(string_To_Lowercase(Directory[k]))
  => status = Running

\* Whoever connects is answered or leaves in the end, unless the server stops or has no
\* descriptor left: nobody is forgotten in the queue.
EveryoneAnswered ==
  \A c \in Clients :
    net[c] = "wait" ~> Answered(c) \/ net[c] # "wait" \/ status # Running \/ fds = LIMIT
=============================================================================
