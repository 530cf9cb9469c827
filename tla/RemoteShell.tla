------------------------------ MODULE RemoteShell ------------------------------
(***************************************************************************)
(* CS111 project 1b: lab1b-client.c and lab1b-server.c.  The client puts   *)
(* the terminal in raw mode and sends every key over TCP; the server hands *)
(* the keys to a shell through a pipe and sends the shell's output back.   *)
(* Both run a poll() loop, both clean up in an atexit() function.  TCP,    *)
(* the shell and the user are external.  Names with c_ belong to the       *)
(* client, names with s_ to the server.                                    *)
(***************************************************************************)
EXTENDS Integers, Sequences, SequencesExt

CONSTANTS Scenarios,    \* what is typed, what the shell writes, and the options
          PIPE_CAP,     \* the capacity of a pipe, in characters
          READ_SIZE     \* the size of the buffers of both programs

Keys  == {"x", "cr", "lf", "^D", "^C"}
Chars == Keys \cup {"y", "?"}

\* A scenario: the keys typed, the characters the shell may write and how many,
\* --compress (given to both programs or to neither) and --log.
Scenario == [keys : Seq(Keys), chars : SUBSET {"y", "lf", "^D"}, out : Nat,
             compress : BOOLEAN, log : BOOLEAN]

ASSUME BoundsAssumption ==
  /\ Scenarios \subseteq Scenario
  /\ PIPE_CAP \in Nat \ {0} /\ READ_SIZE \in Nat \ {0}

Running == -1
SigPipe == 141        \* status of a process killed by SIGPIPE
SigAbrt == 134        \* ... or by abort(), when the heap is found damaged
None    == "none"

VARIABLES
  scenario,
  \* the client
  c_pc, c_code, c_status,
  tty, original_settings,  \* the terminal's modes, and the ones saved
  keys, c_buf, read_len,   \* keys not read yet; keys of the last read; their number
  c_revents,
  sent_buf, recv_buf,      \* what --log collects
  shown,                   \* history: what was displayed of the shell's output
  \* the connection: bytes under way, and resets that have arrived
  connected, up, down, c_rst, s_rst,
  \* the server
  s_pc, s_status,
  s_buf, s_out, stored,    \* keys to handle; output read; how much of it is stored
  s_revents, wr_open,      \* the last poll(); PARENT_WRITE is open
  kerntosock,              \* bytes in the kern_to_sock pipe
  \* the shell and its pipes
  shell, pending, to_chld, to_par, got, written

client == <<c_pc, c_code, c_status, tty, original_settings, keys, c_buf, read_len,
            c_revents, sent_buf, recv_buf, shown>>
server == <<s_pc, s_status, s_buf, s_out, stored, s_revents, wr_open, kerntosock>>
child  == <<shell, pending, to_chld, to_par, got, written>>
net    == <<connected, up, down, c_rst, s_rst>>
vars   == <<scenario, client, server, child, net>>

\* init_buf()
init_buf == [capacity |-> READ_SIZE, avaliable |-> READ_SIZE, data |-> <<>>]

Init ==
  /\ scenario \in Scenarios
  /\ c_pc = "connect" /\ c_code = 0 /\ c_status = Running
  /\ tty = "user" /\ original_settings = "zeroed"
  /\ keys = scenario.keys /\ c_buf = <<>> /\ read_len = 0
  /\ c_revents = [kin |-> FALSE, err |-> FALSE, sin |-> FALSE]
  /\ sent_buf = init_buf /\ recv_buf = init_buf /\ shown = <<>>
  /\ connected = FALSE /\ up = <<>> /\ down = <<>> /\ c_rst = FALSE /\ s_rst = FALSE
  /\ s_pc = "bind" /\ s_status = Running /\ s_buf = <<>> /\ s_out = <<>> /\ stored = 0
  /\ s_revents = [sin |-> FALSE, pin |-> FALSE, phup |-> FALSE]
  /\ wr_open = FALSE /\ kerntosock = 0
  /\ shell = None /\ pending = None /\ to_chld = <<>> /\ to_par = <<>>
  /\ got = <<>> /\ written = <<>>

ShellGone == shell # "running"

\* A descriptor of the connection is closed when nobody holds it any more; the
\* shell inherits the server's.
CliClosed == c_status # Running
SrvClosed == s_status # Running /\ ShellGone

\* What one read() may return: up to READ_SIZE bytes, which under --compress stand
\* for more characters than that.
MaxRead == IF scenario.compress THEN 2 * READ_SIZE ELSE READ_SIZE

-----------------------------------------------------------------------------
\* The client: connect_to_server(), tty_config()

CMoves(l) == c_pc' = l /\ UNCHANGED <<c_code, c_status>>
CExits(c) == c_pc' = "exit" /\ c_code' = c /\ UNCHANGED c_status
CKilled(s) == c_status' = s /\ UNCHANGED <<c_pc, c_code>>

connect_to_server ==
  /\ c_pc = "connect"
  /\ \/ /\ s_pc = "accept" /\ s_status = Running
        /\ connected' = TRUE /\ CMoves("tty")
     \/ s_pc # "accept" /\ UNCHANGED connected /\ CExits(1)
  /\ UNCHANGED <<scenario, tty, original_settings, keys, c_buf, read_len, c_revents,
                 sent_buf, recv_buf, shown, server, child, up, down, c_rst, s_rst>>

\* Mutant of tty_config: the modes are saved after they have been changed.
TtyConfigSavesLate ==
  /\ c_pc = "tty"
  /\ original_settings' = "raw" /\ tty' = "raw"
  /\ CMoves("poll")
  /\ UNCHANGED <<scenario, keys, c_buf, read_len, c_revents, sent_buf, recv_buf, shown,
                 server, child, net>>

\* The modes are saved, then changed; without a terminal, or if its modes cannot be
\* read or set, the client exits with nothing changed and perhaps nothing saved.
tty_config ==
  /\ c_pc = "tty"
  /\ \/ original_settings' = tty /\ tty' = "raw" /\ CMoves("poll")
     \/ original_settings' \in {original_settings, tty} /\ UNCHANGED tty /\ CExits(1)
  /\ UNCHANGED <<scenario, keys, c_buf, read_len, c_revents, sent_buf, recv_buf, shown,
                 server, child, net>>

-----------------------------------------------------------------------------
\* The client's loop

\* poll(); a key that has been typed may not be there yet.
CPoll ==
  /\ c_pc = "poll"
  /\ \E kin \in BOOLEAN :
       /\ kin => keys # <<>>
       /\ c_revents' = [kin |-> kin, err |-> c_rst, sin |-> down # <<>> \/ SrvClosed]
       /\ kin \/ c_revents'.err \/ c_revents'.sin
       /\ CMoves(IF kin THEN "read" ELSE "sock")
  /\ UNCHANGED <<scenario, tty, original_settings, keys, c_buf, read_len, sent_buf,
                 recv_buf, shown, server, child, net>>

CRead ==
  /\ c_pc = "read"
  /\ \E n \in 1..READ_SIZE :
       /\ n <= Len(keys)
       /\ c_buf' = SubSeq(keys, 1, n) /\ keys' = SubSeq(keys, n + 1, Len(keys))
       /\ read_len' = n
  /\ CMoves("key")
  /\ UNCHANGED <<scenario, tty, original_settings, c_revents, sent_buf, recv_buf, shown,
                 server, child, net>>

grow_buffer(buf) ==
  [buf EXCEPT !.capacity = 2 * @, !.avaliable = 2 * buf.capacity - Len(buf.data)]

\* The bytes s are added to a buffer; nobody lowers avaliable.
Logged(buf, s) ==
  LET room == IF Len(s) > buf.avaliable THEN grow_buffer(buf) ELSE buf
  IN  IF scenario.log THEN [room EXCEPT !.data = @ \o s] ELSE buf

Overrun(buf) == Len(buf.data) > buf.capacity

\* What is logged of the text s: itself, or under --compress the bytes that stand for
\* it, at most a buffer of them.
Bytes(s) == IF scenario.compress THEN {[j \in 1..n |-> "?"] : n \in 1..READ_SIZE} ELSE {s}

Newline(c)   == c \in {"cr", "lf"}
NoNewline(c) == IF Newline(c) THEN "sp" ELSE c

\* The bytes that go out for one key.  deflate() is told that read_len bytes start
\* at keybd_char, of which only one is the key: g is what the others may be.
Sent(c, g) ==
  IF scenario.compress THEN <<c>> \o [j \in 1..(read_len - 1) |-> g]
  ELSE IF Newline(c) THEN <<"lf">> ELSE <<c>>

\* Mutant of CKey: the key is logged after the send, and only when that succeeded.
CKeyLogsLate ==
  /\ c_pc = "key" /\ c_buf # <<>>
  /\ \E g \in {"?", "^D"}, s \in Bytes(<<NoNewline(Head(c_buf))>>) :
     LET bytes == Sent(Head(c_buf), g) IN
     /\ sent_buf' = IF c_rst THEN sent_buf ELSE Logged(sent_buf, s)
     /\ \/ Overrun(sent_buf') /\ CKilled(SigAbrt) /\ UNCHANGED <<c_buf, up>>
        \/ c_rst /\ CKilled(SigPipe) /\ UNCHANGED <<c_buf, up>>
        \/ c_rst /\ CMoves("key") /\ c_buf' = Tail(c_buf) /\ UNCHANGED up
        \/ ~c_rst /\ CMoves("key") /\ c_buf' = Tail(c_buf) /\ up' = up \o bytes
  /\ UNCHANGED <<scenario, tty, original_settings, keys, read_len, c_revents, recv_buf,
                 shown, server, child, connected, down, c_rst, s_rst>>

\* One key: it is echoed, logged and sent.  A send() on a connection that was
\* reset fails unnoticed or kills the client; one to a server that is gone succeeds.
CKey ==
  /\ c_pc = "key" /\ c_buf # <<>>
  /\ \E g \in {"?", "^D"}, s \in Bytes(<<NoNewline(Head(c_buf))>>) :
     LET bytes == Sent(Head(c_buf), g) IN
     /\ sent_buf' = Logged(sent_buf, s)
     /\ \/ Overrun(sent_buf') /\ CKilled(SigAbrt) /\ UNCHANGED <<c_buf, up>>
        \/ c_rst /\ CKilled(SigPipe) /\ UNCHANGED <<c_buf, up>>
        \/ c_rst /\ CMoves("key") /\ c_buf' = Tail(c_buf) /\ UNCHANGED up
        \/ ~c_rst /\ CMoves("key") /\ c_buf' = Tail(c_buf) /\ up' = up \o bytes
  /\ UNCHANGED <<scenario, tty, original_settings, keys, read_len, c_revents, recv_buf,
                 shown, server, child, connected, down, c_rst, s_rst>>

CKeysDone ==
  /\ c_pc = "key" /\ c_buf = <<>>
  /\ CMoves("sock")
  /\ UNCHANGED <<scenario, tty, original_settings, keys, c_buf, read_len, c_revents,
                 sent_buf, recv_buf, shown, server, child, net>>

UpToEof(s) == IF Contains(s, "^D")
              THEN SubSeq(s, 1, SelectInSeq(s, LAMBDA c : c = "^D") - 1) ELSE s

\* The end of an iteration: an error or hang-up of the socket, then
\* get_server_data().  Output that stands for more than unzip_buf holds keeps
\* inflate() in its loop for ever.
CSock ==
  /\ c_pc = "sock"
  /\ \/ /\ c_revents.err
        /\ CExits(0) /\ UNCHANGED <<down, recv_buf, shown>>
     \/ /\ ~c_revents.err /\ ~c_revents.sin
        /\ CMoves("poll") /\ UNCHANGED <<down, recv_buf, shown>>
     \/ /\ ~c_revents.err /\ c_revents.sin /\ down = <<>>
        /\ CExits(0) /\ UNCHANGED <<down, recv_buf, shown>>
     \/ /\ ~c_revents.err /\ c_revents.sin
        /\ \E n \in 1..MaxRead :
             /\ n <= Len(down)
             /\ LET s == SubSeq(down, 1, n) IN
                /\ down' = SubSeq(down, n + 1, Len(down))
                /\ \E b \in Bytes(s) : recv_buf' = Logged(recv_buf, b)
                /\ \/ Overrun(recv_buf') /\ CKilled(SigAbrt) /\ UNCHANGED shown
                   \/ n > READ_SIZE /\ CMoves("inflate") /\ UNCHANGED shown
                   \/ /\ n <= READ_SIZE
                      /\ shown' = shown \o UpToEof(s)
                      /\ IF Contains(s, "^D") THEN CExits(0) ELSE CMoves("poll")
  /\ UNCHANGED <<scenario, tty, original_settings, keys, c_buf, read_len, c_revents,
                 sent_buf, server, child, connected, up, c_rst, s_rst>>

\* Where the modes could not be read there may be no terminal to set.
restore_tty ==
  \/ tty' = original_settings
  \/ original_settings = "zeroed" /\ UNCHANGED tty

\* shutdown_client(): the modes saved are put back, the log is written, with a space
\* for every end of a line received, and the socket closed.
shutdown_client ==
  /\ c_pc = "exit"
  /\ restore_tty
  /\ recv_buf' = IF scenario.log
                 THEN [recv_buf EXCEPT !.data = [j \in DOMAIN @ |-> NoNewline(@[j])]]
                 ELSE recv_buf
  /\ c_status' = c_code
  /\ UNCHANGED <<scenario, c_pc, c_code, original_settings, keys, c_buf, read_len,
                 c_revents, sent_buf, shown, server, child, net>>

-----------------------------------------------------------------------------
\* The server: main(), exec_prgm()

SMoves(l)  == s_pc' = l /\ UNCHANGED s_status
SKilled(s) == s_status' = s /\ UNCHANGED s_pc

\* socket(), bind() and listen(); without a child shutdown_server() only fails.
Listen ==
  /\ s_pc = "bind"
  /\ SMoves("accept") \/ SKilled(1)
  /\ UNCHANGED <<scenario, client, s_buf, s_out, stored, s_revents, wr_open, kerntosock,
                 child, net>>

exec_prgm == shell' = "running" /\ wr_open' = TRUE

\* accept() and exec_prgm(), which may find no pipe or no process.
Accept ==
  /\ s_pc = "accept" /\ connected
  /\ \/ SMoves("poll") /\ exec_prgm
     \/ SKilled(1) /\ UNCHANGED <<shell, wr_open>>
  /\ UNCHANGED <<scenario, client, s_buf, s_out, stored, s_revents, kerntosock, pending,
                 to_chld, to_par, got, written, net>>

-----------------------------------------------------------------------------
\* The server: echo_and_forwrd()

SPoll ==
  /\ s_pc = "poll"
  /\ s_revents' = [sin |-> up # <<>> \/ CliClosed \/ s_rst, pin |-> to_par # <<>>,
                   phup |-> ShellGone]
  /\ s_revents'.sin \/ s_revents'.pin \/ s_revents'.phup
  /\ SMoves(IF s_revents'.sin THEN "sock" ELSE "pipe")
  /\ UNCHANGED <<scenario, client, s_buf, s_out, stored, wr_open, kerntosock, child, net>>

\* read() from the socket; that the client has closed it (0) goes unnoticed.
SRead ==
  /\ s_pc = "sock"
  /\ \/ /\ up = <<>> /\ (CliClosed \/ s_rst)
        /\ SMoves("pipe") /\ UNCHANGED <<s_buf, up>>
     \/ s_rst /\ SMoves("exit") /\ UNCHANGED <<s_buf, up>>
     \/ \E n \in 1..MaxRead :
          /\ n <= Len(up)
          /\ up' = SubSeq(up, n + 1, Len(up))
          /\ s_buf' = SubSeq(up, 1, n)
          /\ SMoves(IF n > READ_SIZE THEN "inflate" ELSE "key")
  /\ UNCHANGED <<scenario, client, s_out, stored, s_revents, wr_open, kerntosock, child,
                 connected, down, c_rst, s_rst>>

\* dprintf(PARENT_WRITE): a closed descriptor is an error nobody looks at, a pipe
\* without a reader kills the server, a full pipe blocks it.
Forward(c) ==
  \/ ~wr_open /\ s_buf' = Tail(s_buf) /\ SMoves("key") /\ UNCHANGED to_chld
  \/ wr_open /\ ShellGone /\ SKilled(SigPipe) /\ UNCHANGED <<s_buf, to_chld>>
  \/ /\ wr_open /\ ~ShellGone /\ Len(to_chld) < PIPE_CAP
     /\ to_chld' = Append(to_chld, IF Newline(c) THEN "lf" ELSE c)
     /\ s_buf' = Tail(s_buf) /\ SMoves("key")

\* Mutant of CtrlD: the pipe stays open, the signal is thought to be enough.
CtrlDNoClose ==
  /\ IF wr_open
     THEN s_buf' = Tail(s_buf) /\ SMoves("key") /\ UNCHANGED wr_open
     ELSE SMoves("exit") /\ UNCHANGED <<s_buf, wr_open>>
  /\ UNCHANGED to_chld

\* ^D: SIGHUP for the shell, which may exit of it, and the pipe to it is closed;
\* closing it twice is an error.
CtrlD ==
  /\ IF wr_open
     THEN wr_open' = FALSE /\ s_buf' = Tail(s_buf) /\ SMoves("key")
     ELSE SMoves("exit") /\ UNCHANGED <<s_buf, wr_open>>
  /\ UNCHANGED to_chld

\* ^C: SIGINT for the shell, which may exit of it.
CtrlC ==
  /\ s_buf' = Tail(s_buf) /\ SMoves("key")
  /\ UNCHANGED <<wr_open, to_chld>>

SKey ==
  /\ s_pc = "key" /\ s_buf # <<>>
  /\ LET c == Head(s_buf) IN
     \/ c = "^D" /\ CtrlD
     \/ c = "^C" /\ CtrlC
     \/ c \notin {"^D", "^C"} /\ Forward(c) /\ UNCHANGED wr_open
  /\ UNCHANGED <<scenario, client, s_out, stored, s_revents, kerntosock, shell, pending,
                 to_par, got, written, net>>

SKeysDone ==
  /\ s_pc = "key" /\ s_buf = <<>>
  /\ SMoves("pipe")
  /\ UNCHANGED <<scenario, client, s_buf, s_out, stored, s_revents, wr_open, kerntosock,
                 child, net>>

\* get_and_forward_shell_output(): one read() of the pipe, if there is something.
SPipe ==
  /\ s_pc = "pipe"
  /\ IF s_revents.pin
     THEN LET n == IF Len(to_par) < READ_SIZE THEN Len(to_par) ELSE READ_SIZE IN
          /\ s_out' = SubSeq(to_par, 1, n) /\ to_par' = SubSeq(to_par, n + 1, Len(to_par))
          /\ stored' = 0 /\ SMoves("store")
     ELSE SMoves("hup") /\ UNCHANGED <<s_out, to_par, stored>>
  /\ UNCHANGED <<scenario, client, s_buf, s_revents, wr_open, kerntosock, shell, pending,
                 to_chld, got, written, net>>

\* The characters go one by one into the kern_to_sock pipe, a line feed as two;
\* nothing ever reads that pipe, and a full one blocks the server.
SStore ==
  /\ s_pc = "store" /\ stored < Len(s_out)
  /\ LET n == IF s_out[stored + 1] = "lf" THEN 2 ELSE 1 IN
     /\ kerntosock + n <= PIPE_CAP
     /\ kerntosock' = kerntosock + n
  /\ stored' = stored + 1
  /\ UNCHANGED <<scenario, client, s_pc, s_status, s_buf, s_out, s_revents, wr_open, child,
                 net>>

\* Mutant of SSend: PAYLOAD_SIZE characters are sent, as the client does with a key.
SSendPayload ==
  /\ s_pc = "store" /\ stored = Len(s_out)
  /\ \/ ~s_rst /\ SMoves("hup") /\ down' = Append(down, Head(s_out))
     \/ s_rst /\ SMoves("exit") /\ UNCHANGED down
     \/ s_rst /\ SKilled(SigPipe) /\ UNCHANGED down
  /\ s_out' = <<>> /\ stored' = 0
  /\ UNCHANGED <<scenario, client, s_buf, s_revents, wr_open, kerntosock, child, connected,
                 up, c_rst, s_rst>>

\* send() of what was read; on a connection that was reset it fails, or kills.
SSend ==
  /\ s_pc = "store" /\ stored = Len(s_out)
  /\ \/ ~s_rst /\ SMoves("hup") /\ down' = down \o s_out
     \/ s_rst /\ SMoves("exit") /\ UNCHANGED down
     \/ s_rst /\ SKilled(SigPipe) /\ UNCHANGED down
  /\ s_out' = <<>> /\ stored' = 0
  /\ UNCHANGED <<scenario, client, s_buf, s_revents, wr_open, kerntosock, child, connected,
                 up, c_rst, s_rst>>

SHup ==
  /\ s_pc = "hup"
  /\ SMoves(IF s_revents.phup THEN "exit" ELSE "poll")
  /\ UNCHANGED <<scenario, client, s_buf, s_out, stored, s_revents, wr_open, kerntosock,
                 child, net>>

\* shutdown_server(): waitpid() blocks until the shell has exited; the kill() that
\* follows finds nobody.  PARENT_WRITE is still open meanwhile.
shutdown_server ==
  /\ s_pc = "exit"
  /\ shell = "zombie" /\ shell' = "reaped"
  /\ SKilled(1)
  /\ UNCHANGED <<scenario, client, s_buf, s_out, stored, s_revents, wr_open, kerntosock,
                 pending, to_chld, to_par, got, written, net>>

-----------------------------------------------------------------------------
\* The shell and the network

Outside == <<scenario, client, server, net>>
EndOfInput == to_chld = <<>> /\ (~wr_open \/ s_status # Running)

ShellReads ==
  /\ pending = None /\ to_chld # <<>>
  /\ got' = Append(got, Head(to_chld)) /\ to_chld' = Tail(to_chld)
  /\ UNCHANGED <<shell, pending, to_par, written>>

\* The end of its input, or a pipe with no reader, ends the shell.
ShellEof ==
  /\ (pending = None /\ EndOfInput) \/ (pending # None /\ s_status # Running)
  /\ shell' = "zombie" /\ pending' = None
  /\ UNCHANGED <<to_chld, to_par, got, written>>

ShellWrites ==
  /\ pending # None /\ Len(to_par) < PIPE_CAP /\ s_status = Running
  /\ to_par' = Append(to_par, pending) /\ written' = Append(written, pending)
  /\ pending' = None
  /\ UNCHANGED <<shell, to_chld, got>>

ShellStartsWrite ==
  /\ pending = None /\ Len(written) < scenario.out
  /\ pending' \in scenario.chars
  /\ UNCHANGED <<shell, to_chld, to_par, got, written>>

ShellExits ==
  /\ pending = None
  /\ shell' = "zombie"
  /\ UNCHANGED <<pending, to_chld, to_par, got, written>>

\* TCP: bytes for a peer that has closed bring a reset back.
Reset ==
  /\ \/ SrvClosed /\ up # <<>> /\ ~c_rst /\ c_rst' = TRUE /\ UNCHANGED s_rst
     \/ CliClosed /\ connected /\ down # <<>> /\ ~s_rst /\ s_rst' = TRUE /\ UNCHANGED c_rst
  /\ UNCHANGED <<scenario, client, server, child, connected, up, down>>

-----------------------------------------------------------------------------
Client ==
  /\ c_status = Running
  /\ \/ connect_to_server \/ tty_config \/ CPoll \/ CRead \/ CKey \/ CKeysDone \/ CSock
     \/ shutdown_client

Server ==
  /\ s_status = Running
  /\ \/ Listen \/ Accept \/ SPoll \/ SRead \/ SKey \/ SKeysDone \/ SPipe \/ SStore
     \/ SSend \/ SHup \/ shutdown_server

\* What the shell does once it has something to do, and what it may do.
ShellMust == shell = "running" /\ (ShellReads \/ ShellEof \/ ShellWrites) /\ UNCHANGED Outside
ShellMay  == shell = "running" /\ (ShellStartsWrite \/ ShellExits) /\ UNCHANGED Outside

Next == Client \/ Server \/ ShellMust \/ ShellMay \/ Reset

\* Both loops keep running, and so does a shell that reads its input to the end.
Spec == Init /\ [][Next]_vars /\ WF_vars(Client) /\ WF_vars(Server) /\ WF_vars(ShellMust)

-----------------------------------------------------------------------------
\* The values the variables may take.
TypeOK ==
  /\ c_pc \in {"connect", "tty", "poll", "read", "key", "sock", "inflate", "exit"}
  /\ c_code \in {0, 1} /\ c_status \in {Running, 0, 1, SigPipe, SigAbrt}
  /\ tty \in {"user", "raw", "zeroed"} /\ original_settings \in {"user", "zeroed"}
  /\ keys \in Seq(Keys) /\ c_buf \in Seq(Keys) /\ Len(c_buf) <= read_len
  /\ read_len \in 0..READ_SIZE /\ up \in Seq(Chars) /\ down \in Seq(Chars)
  /\ s_pc \in {"bind", "accept", "poll", "sock", "inflate", "key", "pipe", "store", "hup",
               "exit"}
  /\ s_status \in {Running, 1, SigPipe}
  /\ s_buf \in Seq(Chars) /\ s_out \in Seq(Chars) /\ stored \in 0..Len(s_out)
  /\ kerntosock \in 0..PIPE_CAP /\ Len(to_chld) <= PIPE_CAP /\ Len(to_par) <= PIPE_CAP
  /\ shell \in {None, "running", "zombie", "reaped"}

\* What the shell is to get for the first n keys of s: nothing from the first ^D on,
\* no ^C, and the key of the end of a line as a line feed.
ToShell(c) == IF Newline(c) THEN "lf" ELSE c
ForShell(s) ==
  LET sent[n \in 0..Len(s)] ==
        IF n = 0 THEN <<>>
        ELSE IF s[n] = "^C" \/ (\E j \in 1..n : s[j] = "^D") THEN sent[n - 1]
        ELSE Append(sent[n - 1], ToShell(s[n]))
  IN  sent

\* The keys on their way to the shell, in the buffers of client, network and server.
OnTheWay == s_buf \o (up \o (c_buf \o keys))
Plain(s) == [j \in DOMAIN s |-> ToShell(s[j])]

\* Without --compress the shell gets the keys in order, each once, carriage returns
\* as line feeds, up to the first ^D; until a reset makes the client drop keys, what
\* the shell is still to get is on its way, and nothing else is.
KeysInOrder ==
  LET here  == got \o to_chld
      total == Len(scenario.keys)
      past  == total - Len(OnTheWay)
  IN  ~scenario.compress =>
        /\ \E n \in 0..total : here = ForShell(scenario.keys)[n]
        /\ ~c_rst => /\ past \in 0..total
                     /\ here = ForShell(scenario.keys)[past]
                     /\ Plain(OnTheWay) = SubSeq(Plain(scenario.keys), past + 1, total)

\* The output of the shell reaches the user in order and without loss, as long as
\* neither program exits; what an exit loses is lost at the end.
OutputInOrder ==
  /\ IsPrefix(shown, written)
  /\ s_status = Running /\ c_status = Running /\ c_pc # "exit" /\ c_pc # "inflate"
     /\ s_pc # "exit"
       => shown \o down \o s_out \o to_par = written

\* Neither direction loses, repeats or reorders a character on its way through both
\* programs while they run, whichever way their reads cut the streams.  What an exit
\* loses is not restricted, and neither is what the two buffers of the log hold.
StreamsIntact == TypeOK /\ KeysInOrder /\ OutputInOrder

\* A client that ends by exit() never leaves the terminal raw, and gives it back as it
\* found it if it had saved its modes, whichever side ended first.
TerminalGivenBack ==
  c_status \in {0, 1} => tty # "raw" /\ (original_settings = "user" => tty = "user")

\* The log a client writes when it exits without --compress has every key it took
\* from the keyboard and handled, and starts with everything it displayed, each end
\* of a line as a space.  (That the bytes behind the end of a buffer, which the
\* client writes there if it survives, are still there is not claimed.)
LogMatchesTraffic ==
  LET handled == SubSeq(scenario.keys, 1, Len(scenario.keys) - Len(keys) - Len(c_buf))
  IN  scenario.log /\ ~scenario.compress /\ c_status \in {0, 1} =>
        /\ sent_buf.data = [j \in DOMAIN handled |-> NoNewline(handled[j])]
        /\ IsPrefix([j \in DOMAIN shown |-> NoNewline(shown[j])], recv_buf.data)

\* One ^D as the last key and none from the shell, output that fits the kern_to_sock
\* pipe, no compression, and nothing logged beyond the buffers of the log.
Calm == /\ scenario.log => Len(scenario.keys) <= READ_SIZE /\ scenario.out <= READ_SIZE
        /\ ~scenario.compress /\ Contains(scenario.keys, "^D")
        /\ UpToEof(scenario.keys) = Front(scenario.keys)
        /\ "^D" \notin scenario.chars
        /\ (IF "lf" \in scenario.chars THEN 2 * scenario.out ELSE scenario.out) <= PIPE_CAP

\* Once the shell runs and the terminal is raw, a ^D typed at it ends both programs,
\* in whatever order the keys, the output and an exit of the shell itself meet.
EofEndsBoth ==
  (Calm /\ shell # None /\ tty = "raw") ~> (c_status # Running /\ s_status # Running)

\* lab1b-server.c:357: "Loop broken by ^D or ^C (distally)".
LoopBroken == (s_pc # "bind" /\ shell # None /\ ~wr_open) ~> (s_status # Running)
=============================================================================
