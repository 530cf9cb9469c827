------------------------------- MODULE TermShell -------------------------------
(***************************************************************************)
(* CS111 project 1a: lab1a.c.  A terminal in raw mode echoes the keyboard  *)
(* and, with --shell, forwards it through a pipe to a shell whose output   *)
(* comes back through another pipe.  One poll() loop serves both; exit()   *)
(* runs shutdown(), which waits for the shell and restores the terminal.   *)
(* The shell and the user are external: the shell may write, and exit, at  *)
(* any time.                                                               *)
(***************************************************************************)
EXTENDS Integers, Sequences, SequencesExt

CONSTANTS Sessions,     \* what may be typed: sequences over Keys
          ShellChars,   \* the characters the shell may write
          MaxOut,       \* bound: how many characters the shell writes
          PIPE_CAP,     \* the capacity of a pipe
          READ_SIZE     \* the size of read_buf

Keys == {"x", "cr", "lf", "^D", "^C"}

ASSUME BoundsAssumption ==
  /\ Sessions \subseteq Seq(Keys) /\ ShellChars \subseteq {"y", "lf", "^D"}
  /\ MaxOut \in Nat /\ PIPE_CAP \in Nat \ {0} /\ READ_SIZE \in Nat \ {0}

Running == -1
SigInt  == 130        \* status of a process killed by SIGINT
None    == "none"

VARIABLES
  shell_flag,
  tty,             \* "canon" or "raw"
  keys, read_buf,  \* keys not read yet; keys read and not processed yet
  calm,            \* nothing fails in this run, and the shell writes no ^D
  hup,             \* the keyboard has hung up
  revents,         \* what the last poll() found
  wr_open,         \* PARENT_WRITE is open
  to_chld, to_par, \* the contents of the two pipes
  shell, pending,  \* the child, and the character it is about to write
  pc, code, status,
  typed,           \* history: the session typed
  got,             \* history: the characters the shell has read
  written, shown   \* history: what the shell wrote, and what was displayed of it

user    == <<keys, typed, calm>>
child   == <<to_par, shell, pending, got, written>>
control == <<read_buf, revents>>
vars    == <<shell_flag, tty, user, control, hup, wr_open, to_chld, child, shown,
             pc, code, status>>

NoEvents == [kin |-> FALSE, khup |-> FALSE, pin |-> FALSE, phup |-> FALSE]

Init ==
  /\ shell_flag = FALSE /\ tty = "canon"
  /\ typed \in Sessions /\ keys = typed /\ read_buf = <<>> /\ hup = FALSE
  /\ calm \in BOOLEAN /\ revents = NoEvents
  /\ wr_open = FALSE /\ to_chld = <<>> /\ to_par = <<>>
  /\ shell = None /\ pending = None
  /\ pc = "opts" /\ code = 0 /\ status = Running
  /\ got = <<>> /\ written = <<>> /\ shown = <<>>

At(l)    == pc = l
Moves(l) == pc' = l /\ UNCHANGED <<code, status>>

\* exit(c): before shutdown() is registered the process just ends.
Exit(c)   == pc' = "exit" /\ code' = c /\ UNCHANGED status
EndNow(c) == status' = c /\ UNCHANGED <<pc, code>>

-----------------------------------------------------------------------------
\* get_opts(), start_shell(), tty_config()

\* A bad option, pipes or a child that cannot be created, or standard input that
\* is no terminal.
StartFails ==
  /\ pc \in {"opts", "start", "tty"}
  /\ EndNow(1)
  /\ UNCHANGED <<shell_flag, tty, user, control, hup, wr_open, to_chld, child, shown>>

get_opts ==
  /\ At("opts")
  /\ shell_flag' \in BOOLEAN
  /\ Moves(IF shell_flag' THEN "start" ELSE "tty")
  /\ UNCHANGED <<tty, user, control, hup, wr_open, to_chld, child, shown>>

start_shell ==
  /\ At("start")
  /\ shell' = "running" /\ wr_open' = TRUE
  /\ Moves("tty")
  /\ UNCHANGED <<shell_flag, tty, user, control, hup, to_chld, to_par, pending, got,
                 written, shown>>

tty_config ==
  /\ At("tty")
  /\ tty' = "raw"
  /\ Moves("poll")
  /\ UNCHANGED <<shell_flag, user, control, hup, wr_open, to_chld, child, shown>>

-----------------------------------------------------------------------------
\* echo_and_forward()

ShellGone == shell \in {"zombie", "reaped"}

\* poll() on both descriptors; a key that has been typed may not be there yet.
\* When nothing is ready the loop goes round.
Poll ==
  /\ At("poll")
  /\ \E kin \in BOOLEAN :
       /\ kin => keys # <<>>
       /\ revents' = [kin |-> kin, khup |-> hup, pin |-> to_par # <<>>,
                      phup |-> shell_flag /\ ShellGone]
  /\ revents' # NoEvents
  /\ IF revents'.khup THEN Exit(1) ELSE Moves(IF revents'.kin THEN "read" ELSE "pipe")
  /\ UNCHANGED <<shell_flag, tty, user, read_buf, hup, wr_open, to_chld, child, shown>>

\* poll() or read() fails.
IoError ==
  /\ ~calm /\ pc \in {"poll", "read"}
  /\ Exit(1)
  /\ UNCHANGED <<shell_flag, tty, user, control, hup, wr_open, to_chld, child, shown>>

ReadKeys ==
  /\ At("read")
  /\ \E n \in 1..READ_SIZE :
       /\ n <= Len(keys)
       /\ read_buf' = SubSeq(keys, 1, n)
       /\ keys' = SubSeq(keys, n + 1, Len(keys))
  /\ Moves("key")
  /\ UNCHANGED <<shell_flag, tty, typed, calm, revents, hup, wr_open, to_chld, child, shown>>

\* A carriage return goes to the shell as a line feed.
ToShell(c) == IF c = "cr" THEN "lf" ELSE c

\* Mutant of Forward: a write to a full pipe fails instead of blocking.
ForwardDrops(c) ==
  \/ /\ ~shell_flag \/ ~wr_open \/ Len(to_chld) = PIPE_CAP
     /\ read_buf' = Tail(read_buf) /\ Moves("key")
     /\ UNCHANGED to_chld
  \/ /\ shell_flag /\ wr_open /\ ShellGone
     /\ Exit(0)
     /\ UNCHANGED <<read_buf, to_chld>>
  \/ /\ shell_flag /\ wr_open /\ ~ShellGone /\ Len(to_chld) < PIPE_CAP
     /\ to_chld' = Append(to_chld, ToShell(c))
     /\ read_buf' = Tail(read_buf) /\ Moves("key")

\* dprintf(PARENT_WRITE): a closed descriptor is an error nobody looks at; with
\* no reader left SIGPIPE runs shellhalt_handler(), which calls exit(0); a full
\* pipe blocks.
Forward(c) ==
  \/ /\ ~shell_flag \/ ~wr_open
     /\ read_buf' = Tail(read_buf) /\ Moves("key")
     /\ UNCHANGED to_chld
  \/ /\ shell_flag /\ wr_open /\ ShellGone
     /\ Exit(0)
     /\ UNCHANGED <<read_buf, to_chld>>
  \/ /\ shell_flag /\ wr_open /\ ~ShellGone /\ Len(to_chld) < PIPE_CAP
     /\ to_chld' = Append(to_chld, ToShell(c))
     /\ read_buf' = Tail(read_buf) /\ Moves("key")

\* ^D closes the pipe to the shell; closing it again, or without a shell, fails.
CtrlD ==
  /\ IF wr_open
     THEN wr_open' = FALSE /\ read_buf' = Tail(read_buf) /\ Moves("key")
     ELSE Exit(1) /\ UNCHANGED <<wr_open, read_buf>>
  /\ UNCHANGED to_chld

\* ^C: kill(cpid, SIGINT).  Without a shell cpid is 0 and the signal goes to the
\* process group of the terminal itself; the shell may exit of it or not.
CtrlC ==
  /\ IF shell_flag
     THEN read_buf' = Tail(read_buf) /\ Moves("key")
     ELSE EndNow(SigInt) /\ UNCHANGED read_buf
  /\ UNCHANGED <<wr_open, to_chld>>

Key ==
  /\ At("key") /\ read_buf # <<>>
  /\ LET c == Head(read_buf) IN
     \/ c = "^D" /\ CtrlD
     \/ c = "^C" /\ CtrlC
     \/ c \notin {"^D", "^C"} /\ Forward(c) /\ UNCHANGED wr_open
  /\ UNCHANGED <<shell_flag, tty, user, revents, hup, child, shown>>

KeysDone ==
  /\ At("key") /\ read_buf = <<>>
  /\ Moves("pipe")
  /\ UNCHANGED <<shell_flag, tty, user, control, hup, wr_open, to_chld, child, shown>>

\* read_pipe() takes what there is, up to READ_SIZE, and displays it up to a ^D.
Chunk == SubSeq(to_par, 1, IF Len(to_par) < READ_SIZE THEN Len(to_par) ELSE READ_SIZE)
UpToEof(s) == IF Contains(s, "^D")
              THEN SubSeq(s, 1, SelectInSeq(s, LAMBDA c : c = "^D") - 1) ELSE s

\* Mutant of ShellOutput: the hang-up of the shell is not looked at.
ShellOutputNoHup ==
  /\ At("pipe")
  /\ IF shell_flag /\ revents.pin
     THEN /\ to_par' = SubSeq(to_par, Len(Chunk) + 1, Len(to_par))
          /\ shown' = shown \o UpToEof(Chunk)
          /\ IF Contains(Chunk, "^D") THEN Exit(1) ELSE Moves("poll")
     ELSE UNCHANGED <<to_par, shown>> /\ Moves("poll")
  /\ UNCHANGED <<shell_flag, tty, user, control, hup, wr_open, to_chld, shell, pending,
                 got, written>>

ShellOutput ==
  /\ At("pipe")
  /\ IF shell_flag /\ revents.pin
     THEN /\ to_par' = SubSeq(to_par, Len(Chunk) + 1, Len(to_par))
          /\ shown' = shown \o UpToEof(Chunk)
          /\ IF Contains(Chunk, "^D") \/ revents.phup THEN Exit(1) ELSE Moves("poll")
     ELSE /\ UNCHANGED <<to_par, shown>>
          /\ IF revents.phup THEN Exit(1) ELSE Moves("poll")
  /\ UNCHANGED <<shell_flag, tty, user, control, hup, wr_open, to_chld, shell, pending,
                 got, written>>

-----------------------------------------------------------------------------
\* exit(): shutdown()

\* waitpid() blocks until the shell has exited.
Wait ==
  /\ At("exit") /\ shell_flag
  /\ shell = "zombie"
  /\ shell' = "reaped"
  /\ Moves("restore")
  /\ UNCHANGED <<shell_flag, tty, user, control, hup, wr_open, to_chld, to_par, pending,
                 got, written, shown>>

\* Mutant of Restore: the shell is not waited for.
RestoreNoWait ==
  /\ At("restore") \/ At("exit")
  /\ tty' = IF hup THEN tty ELSE "canon"
  /\ EndNow(code)
  /\ UNCHANGED <<shell_flag, user, control, hup, wr_open, to_chld, child, shown>>

\* restore_tty(); a terminal that has hung up cannot be restored.
Restore ==
  /\ At("restore") \/ (At("exit") /\ ~shell_flag)
  /\ tty' = IF hup THEN tty ELSE "canon"
  /\ EndNow(code)
  /\ UNCHANGED <<shell_flag, user, control, hup, wr_open, to_chld, child, shown>>

-----------------------------------------------------------------------------
\* The shell and the keyboard

ShellReads ==
  /\ shell = "running" /\ pending = None /\ to_chld # <<>>
  /\ got' = Append(got, Head(to_chld))
  /\ to_chld' = Tail(to_chld)
  /\ UNCHANGED <<to_par, shell, pending, written>>

\* A shell that finds the end of its input exits.
ShellEof ==
  /\ shell = "running" /\ pending = None /\ to_chld = <<>> /\ ~wr_open
  /\ shell' = "zombie"
  /\ UNCHANGED <<to_chld, to_par, pending, got, written>>

ShellStartsWrite ==
  /\ shell = "running" /\ pending = None /\ Len(written) < MaxOut
  /\ pending' \in ShellChars /\ (calm => pending' # "^D")
  /\ UNCHANGED <<to_chld, to_par, shell, got, written>>

ShellWrites ==
  /\ shell = "running" /\ pending # None /\ Len(to_par) < PIPE_CAP
  /\ to_par' = Append(to_par, pending)
  /\ written' = Append(written, pending)
  /\ pending' = None
  /\ UNCHANGED <<to_chld, shell, got>>

ShellExits ==
  /\ shell = "running" /\ pending = None
  /\ shell' = "zombie"
  /\ UNCHANGED <<to_chld, to_par, pending, got, written>>

Hangup ==
  /\ ~calm /\ ~hup /\ tty = "raw"
  /\ hup' = TRUE
  /\ UNCHANGED <<shell_flag, tty, user, control, wr_open, to_chld, child, shown, pc, code, status>>

-----------------------------------------------------------------------------
Main ==
  /\ status = Running
  /\ \/ get_opts \/ start_shell \/ tty_config \/ Poll \/ ReadKeys \/ Key \/ KeysDone
     \/ ShellOutput \/ Wait \/ Restore

Terminal == <<shell_flag, tty, user, control, hup, wr_open, shown, pc, code, status>>

\* What the shell does once it has something to do, and what it may do.
ShellMust == status = Running /\ (ShellReads \/ ShellEof \/ ShellWrites) /\ UNCHANGED Terminal
ShellMay  == status = Running /\ (ShellStartsWrite \/ ShellExits) /\ UNCHANGED Terminal

Faults == status = Running /\ (StartFails \/ IoError \/ Hangup)

\* The process has ended, or it waits for keys nobody types.
Idle == (status # Running \/ (At("poll") /\ keys = <<>>)) /\ UNCHANGED vars

Next == Main \/ ShellMust \/ ShellMay \/ Faults \/ Idle

\* The loop keeps running, and so does a shell that reads its input to the end.
Spec == Init /\ [][Next]_vars /\ WF_vars(Main) /\ WF_vars(ShellMust)

-----------------------------------------------------------------------------
\* The values the variables may take.
TypeOK ==
  /\ shell_flag \in BOOLEAN /\ tty \in {"canon", "raw"} /\ calm \in BOOLEAN /\ hup \in BOOLEAN
  /\ keys \in Seq(Keys) /\ read_buf \in Seq(Keys) /\ Len(read_buf) <= READ_SIZE
  /\ revents \in [kin : BOOLEAN, khup : BOOLEAN, pin : BOOLEAN, phup : BOOLEAN] /\ wr_open \in BOOLEAN
  /\ to_chld \in Seq(Keys) /\ Len(to_chld) <= PIPE_CAP
  /\ to_par \in Seq(ShellChars) /\ Len(to_par) <= PIPE_CAP
  /\ shell \in {None, "running", "zombie", "reaped"} /\ pending \in ShellChars \cup {None}
  /\ pc \in {"opts", "start", "tty", "poll", "read", "key", "pipe", "exit", "restore"}
  /\ code \in {0, 1} /\ status \in {Running, 0, 1, SigInt}

\* What the shell is to get of the first n keys: those before the first ^D, without
\* the ^C and with line feeds for carriage returns.
Sent(s) ==
  LET upTo[n \in 0..Len(s)] ==
        IF n = 0 THEN <<>>
        ELSE IF s[n] = "^C" \/ (\E j \in 1..n : s[j] = "^D") THEN upTo[n - 1]
        ELSE Append(upTo[n - 1], IF s[n] = "cr" THEN "lf" ELSE s[n])
  IN  upTo

\* How many keys have been processed.
Processed == Len(typed) - Len(keys) - Len(read_buf)

\* The shell gets, or finds in the pipe, what the keys processed call for: in order
\* and each once.
ForwardedInOrder == shell_flag => got \o to_chld = Sent(typed)[Processed]

\* What the shell writes is displayed in order and without loss until exit() is
\* called; after that what is left in the pipe is lost.
OutputShown ==
  IF pc \in {"exit", "restore"} THEN IsPrefix(shown, written) ELSE written = shown \o to_par

\* Neither direction loses, repeats or reorders a character, and no buffer or pipe
\* holds more than it can.
StreamsIntact == TypeOK /\ ForwardedInOrder /\ OutputShown

\* A process that ends by exit() has given the terminal back and has waited for
\* its shell, whatever made it exit.
RestoredAtExit ==
  status \in {0, 1} /\ pc \in {"exit", "restore"} =>
    /\ tty = "canon" \/ hup
    /\ shell_flag => shell = "reaped"

\* The pipe holds all the keys to forward, and ^D is typed once at most: two blocking
\* writes cannot wait for each other, and close() is not called twice.
Fits ==
  /\ Len(Sent(typed)[Len(typed)]) <= PIPE_CAP
  /\ \A j, k \in DOMAIN typed : typed[j] = "^D" /\ typed[k] = "^D" => j = k

\* Once ^D has closed the pipe to the shell, the process ends: the shell finds the
\* end of its input, its hang-up is noticed, and waitpid() returns.
EofEnds ==
  (calm /\ Fits /\ shell_flag /\ pc = "poll" /\ ~wr_open) ~> (status # Running)

\* Every key is processed in the end, if the keys typed fit into the pipe.
KeysProcessed ==
  (calm /\ Fits) ~> ((keys = <<>> /\ read_buf = <<>>) \/ status # Running)

\* The session goes on to its end: all keys are processed, and ^D ends it.
SessionEnds == KeysProcessed /\ EofEnds
=============================================================================
