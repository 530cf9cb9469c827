------------------------------ MODULE TempSensor ------------------------------
(***************************************************************************)
(* CS111 project 4: lab4b.c.  main() assembles command lines from standard *)
(* input, read in pieces of any size, and executes them; a thread reads    *)
(* the temperature sensor and reports; the button's interrupt handler      *)
(* clears run_flag.  The flags are shared without a lock, and either       *)
(* thread may call exit(), which runs shutdown() while the other goes on.  *)
(***************************************************************************)
EXTENDS Integers, Sequences

CONSTANTS Sessions,   \* what may be typed: sequences of lines [cmd, arg, len]
          Periods,    \* the values considered for --period
          CMD_SIZE,   \* the size of cmd_str
          BUF_SIZE,   \* the size of read_buf
          UINT        \* bound: how many values an unsigned int has

\* "The width of cmd_str is length of the largest possible command string"
\* (lab4b.c:296): a line and its terminator fit.
ASSUME LinesAssumption ==
  /\ CMD_SIZE \in Nat \ {0} /\ BUF_SIZE \in Nat \ {0} /\ UINT \in Nat \ {0, 1}
  /\ Periods \subseteq Int
  /\ \A s \in Sessions :
       /\ Len(s) \in Nat /\ DOMAIN s = 1..Len(s)
       /\ \A l \in DOMAIN s :
            /\ s[l].cmd \in {"OFF", "START", "STOP", "LOG", "SCALE", "PERIOD", "other"}
            /\ s[l].len \in 0..(CMD_SIZE - 1)
            /\ s[l].cmd = "PERIOD" => s[l].arg \in Int

\* Character j of line l is <<l, j>>, its newline <<l, 0>>; in cmd_str, <<l, 0>> is the
\* terminator stored for that newline.
Nul == <<0, 0>>
IsNewline(c) == c[2] = 0
Input(s) ==
  LET upTo[n \in 0..Len(s)] ==
        IF n = 0 THEN <<>>
        ELSE upTo[n - 1] \o [j \in 1..s[n].len |-> <<n, j>>] \o << <<n, 0>> >>
  IN  upTo[Len(s)]

MainT   == "main"
Sensor  == "sensor"
Threads == {MainT, Sensor}
NoThread == "nobody"
Running == -1
SHUTDOWN == -1        \* the log line written by shutdown()
Unrecognized == 0     \* a logged line that is none of those typed

VARIABLES
  run_flag, period, scale, log_flag, report_flag,
  lines,                          \* the lines the user types
  input,                          \* their characters not read yet
  read_buf, cmd_str, cmd_str_idx, \* read_buf: those not yet copied to cmd_str
  pc, code,                       \* place and exit() argument of each thread
  temp_sensor,                    \* "none", "open" or "closed"
  unit,                           \* the unit temp was converted to
  handler,                        \* the thread that runs shutdown()
  log,                            \* commands and SHUTDOWN lines in the log file
  status,
  executed, late, stale           \* history: lines executed, reports since STOP, and
                                  \* reports not in the scale last set

options == <<lines, period, scale, log_flag>>
reading == <<input, read_buf, cmd_str, cmd_str_idx>>
history == <<executed, late, stale>>
vars == <<run_flag, options, report_flag, reading, pc, code, temp_sensor, unit,
          handler, log, status, history>>

Init ==
  /\ run_flag = 1 /\ period = 1 /\ scale = "F" /\ log_flag = FALSE /\ report_flag = TRUE
  /\ lines \in Sessions /\ input = Input(lines) /\ read_buf = <<>>
  /\ cmd_str = [j \in 0..(CMD_SIZE - 1) |-> Nul] /\ cmd_str_idx = 0
  /\ pc = [t \in Threads |-> IF t = MainT THEN "opts" ELSE "none"]
  /\ code = [t \in Threads |-> 0]
  /\ temp_sensor = "none" /\ unit = "C" /\ handler = NoThread /\ log = <<>>
  /\ status = Running
  /\ executed = <<>> /\ late = 0 /\ stale = 0

At(t, l)    == pc[t] = l
Moves(t, l) == pc' = [pc EXCEPT ![t] = l]

\* exit(c), called by thread t; and before shutdown() is registered.
Exit(t, c) == Moves(t, "exit") /\ code' = [code EXCEPT ![t] = c]
ExitEarly  == Moves(MainT, "_exit") /\ code' = [code EXCEPT ![MainT] = 1]

Goes(t, l) == Moves(t, l) /\ UNCHANGED code

\* strtol() into an unsigned int.
Unsigned(n) == n % UINT

-----------------------------------------------------------------------------
\* main(): options and set-up

\* The exits in get_opts(): a period or a scale that is refused, a log file that cannot
\* be opened, a bad option.  --log may have come before.
OptsFail ==
  /\ At(MainT, "opts")
  /\ scale' \in {"F", "C", "other"} /\ log_flag' \in BOOLEAN
  /\ lines' = lines /\ period' \in {Unsigned(n) : n \in Periods}
  /\ ExitEarly
  /\ UNCHANGED <<run_flag, report_flag, reading, temp_sensor, unit, handler, log,
                 status, history>>

GetOpts ==
  /\ At(MainT, "opts")
  /\ scale' \in {"F", "C"} /\ log_flag' \in BOOLEAN
  /\ lines' = lines /\ period' \in {Unsigned(n) : n \in Periods} /\ period' >= 1
  /\ Goes(MainT, "setup")
  /\ UNCHANGED <<run_flag, report_flag, reading, temp_sensor, unit, handler, log,
                 status, history>>

\* atexit(), the sensor, the button and its handler, non-blocking input, the thread.
Setup ==
  /\ At(MainT, "setup")
  /\ \/ /\ temp_sensor' = "open"
        /\ pc' = [t \in Threads |-> IF t = MainT THEN "read" ELSE "loop"]
        /\ UNCHANGED code
     \/ temp_sensor' \in {"none", "open"} /\ Exit(MainT, 1)
     \/ UNCHANGED temp_sensor /\ ExitEarly
  /\ UNCHANGED <<run_flag, options, report_flag, reading, unit, handler, log, status, history>>

-----------------------------------------------------------------------------
\* main(): the loop over the input

\* Mutant of Read: cmd_str_idx is declared inside the loop, so that every read
\* starts a new command.
ReadForgets ==
  /\ At(MainT, "read")
  /\ IF run_flag = 0
     THEN Exit(MainT, 0) /\ UNCHANGED <<input, read_buf, cmd_str_idx>>
     ELSE \E n \in 1..BUF_SIZE :
            /\ n <= Len(input)
            /\ read_buf' = SubSeq(input, 1, n)
            /\ input' = SubSeq(input, n + 1, Len(input))
            /\ cmd_str_idx' = 0
            /\ Goes(MainT, "char")
  /\ UNCHANGED <<run_flag, options, report_flag, cmd_str, temp_sensor, unit, handler,
                 log, status, history>>

\* Mutant of Read: the loop does not look at run_flag.
ReadForever ==
  /\ At(MainT, "read")
  /\ \E n \in 1..BUF_SIZE :
       /\ n <= Len(input)
       /\ read_buf' = SubSeq(input, 1, n)
       /\ input' = SubSeq(input, n + 1, Len(input))
  /\ Goes(MainT, "char")
  /\ UNCHANGED <<run_flag, options, report_flag, cmd_str, cmd_str_idx, temp_sensor,
                 unit, handler, log, status, history>>

\* read() finds any number of characters; when it finds none the loop goes round.
Read ==
  /\ At(MainT, "read")
  /\ IF run_flag = 0
     THEN Exit(MainT, 0) /\ UNCHANGED <<input, read_buf>>
     ELSE \E n \in 1..BUF_SIZE :
            /\ n <= Len(input)
            /\ read_buf' = SubSeq(input, 1, n)
            /\ input' = SubSeq(input, n + 1, Len(input))
            /\ Goes(MainT, "char")
  /\ UNCHANGED <<run_flag, options, report_flag, cmd_str, cmd_str_idx, temp_sensor,
                 unit, handler, log, status, history>>

\* read() fails with an error other than EAGAIN.
ReadError ==
  /\ At(MainT, "read") /\ run_flag = 1
  /\ Exit(MainT, 1)
  /\ UNCHANGED <<run_flag, options, report_flag, reading, temp_sensor, unit, handler,
                 log, status, history>>

\* One character goes to cmd_str, a newline as the terminator; after the last
\* one the characters read are echoed.
Char ==
  /\ At(MainT, "char")
  /\ IF read_buf = <<>>
     THEN Goes(MainT, "read") /\ UNCHANGED <<read_buf, cmd_str, cmd_str_idx>>
     ELSE LET c == Head(read_buf) IN
          /\ cmd_str' = [cmd_str EXCEPT ![cmd_str_idx] = c]
          /\ IF IsNewline(c)
             THEN Goes(MainT, "exec") /\ UNCHANGED <<read_buf, cmd_str_idx>>
             ELSE /\ read_buf' = Tail(read_buf)
                  /\ cmd_str_idx' = cmd_str_idx + 1
                  /\ Goes(MainT, "char")
  /\ UNCHANGED <<run_flag, options, report_flag, input, temp_sensor, unit, handler,
                 log, status, history>>

\* The line in cmd_str, up to its terminator.
Holds(l) ==
  /\ \A j \in 1..lines[l].len : cmd_str[j - 1] = <<l, j>>
  /\ cmd_str[lines[l].len] = <<l, 0>>
Line == IF \E l \in DOMAIN lines : Holds(l)
        THEN CHOOSE l \in DOMAIN lines : Holds(l) ELSE Unrecognized
Is(name) == Line # Unrecognized /\ lines[Line].cmd = name

\* exec_cmd() logs the command first.
LogCmd ==
  /\ At(MainT, "exec")
  /\ log' = IF log_flag THEN Append(log, Line) ELSE log
  /\ Goes(MainT, "cmd")
  /\ UNCHANGED <<run_flag, options, report_flag, reading, temp_sensor, unit, handler,
                 status, history>>

\* The command is done: cmd_str_idx becomes -1 and is incremented with i.
NextChar ==
  /\ read_buf' = Tail(read_buf)
  /\ cmd_str_idx' = 0
  /\ Goes(MainT, "char")
  /\ UNCHANGED <<input, cmd_str>>

exec_cmd ==
  /\ At(MainT, "cmd")
  /\ executed' = Append(executed, Line)
  /\ \/ /\ Is("OFF") /\ Exit(MainT, 0)
        /\ UNCHANGED <<period, scale, report_flag, late, stale, reading>>
     \/ /\ Is("START") /\ report_flag' = TRUE /\ late' = 0 /\ NextChar
        /\ UNCHANGED <<period, scale, stale>>
     \/ /\ Is("STOP") /\ report_flag' = FALSE /\ NextChar
        /\ UNCHANGED <<period, scale, late, stale>>
     \/ /\ Is("SCALE") /\ scale' = lines[Line].arg /\ stale' = 0 /\ Goes(MainT, "scaled")
        /\ UNCHANGED <<period, report_flag, late, reading>>
     \/ /\ Is("PERIOD") /\ period' = Unsigned(lines[Line].arg)
        /\ Goes(MainT, "timed")
        /\ UNCHANGED <<scale, report_flag, late, stale, reading>>
     \/ /\ Is("LOG") \/ Is("other") \/ Line = Unrecognized
        /\ NextChar
        /\ UNCHANGED <<period, scale, report_flag, late, stale>>
  /\ UNCHANGED <<lines, run_flag, log_flag, temp_sensor, unit, handler, log, status>>

\* Mutant of CheckArg: only negative periods are refused, which an unsigned int has not.
CheckArgNegative ==
  /\ \/ /\ At(MainT, "scaled")
        /\ IF scale \in {"F", "C"} THEN NextChar ELSE Exit(MainT, 1) /\ UNCHANGED reading
     \/ /\ At(MainT, "timed")
        /\ IF period >= 0 THEN NextChar ELSE Exit(MainT, 1) /\ UNCHANGED reading
  /\ UNCHANGED <<run_flag, options, report_flag, temp_sensor, unit, handler, log,
                 status, history>>

\* scale and period are checked after they have been set.
CheckArg ==
  /\ \/ /\ At(MainT, "scaled")
        /\ IF scale \in {"F", "C"} THEN NextChar ELSE Exit(MainT, 1) /\ UNCHANGED reading
     \/ /\ At(MainT, "timed")
        /\ IF period >= 1 THEN NextChar ELSE Exit(MainT, 1) /\ UNCHANGED reading
  /\ UNCHANGED <<run_flag, options, report_flag, temp_sensor, unit, handler, log,
                 status, history>>

-----------------------------------------------------------------------------
\* sensor_read_thrd()

\* Mutant of SensorLoop: the thread ends when reporting is off.
SensorLoopEnds ==
  /\ At(Sensor, "loop")
  /\ Goes(Sensor, IF run_flag = 0 \/ ~report_flag THEN "returned" ELSE "read")
  /\ UNCHANGED <<run_flag, options, report_flag, reading, temp_sensor, unit, handler,
                 log, status, history>>

SensorLoop ==
  /\ At(Sensor, "loop")
  /\ Goes(Sensor, IF run_flag = 0 THEN "returned" ELSE "read")
  /\ UNCHANGED <<run_flag, options, report_flag, reading, temp_sensor, unit, handler,
                 log, status, history>>

\* mraa_aio_read() gives a reading, also from a sensor closed by shutdown().
ReadSensor ==
  /\ At(Sensor, "read")
  /\ Goes(Sensor, "convert")
  /\ UNCHANGED <<run_flag, options, report_flag, reading, temp_sensor, unit, handler,
                 log, status, history>>

SensorError ==
  /\ At(Sensor, "read")
  /\ Exit(Sensor, 1)
  /\ UNCHANGED <<run_flag, options, report_flag, reading, temp_sensor, unit, handler,
                 log, status, history>>

UnitOf(s) == IF s = "F" THEN "F" ELSE "C"

Convert ==
  /\ At(Sensor, "convert")
  /\ unit' = UnitOf(scale)
  /\ Goes(Sensor, "flag")
  /\ UNCHANGED <<run_flag, options, report_flag, reading, temp_sensor, handler, log,
                 status, history>>

\* Mutant of TestReportFlag: the flag is not looked at.
NoTest ==
  /\ At(Sensor, "flag")
  /\ Goes(Sensor, "print")
  /\ UNCHANGED <<run_flag, options, report_flag, reading, temp_sensor, unit, handler,
                 log, status, history>>

TestReportFlag ==
  /\ At(Sensor, "flag")
  /\ Goes(Sensor, IF report_flag THEN "print" ELSE "loop")
  /\ UNCHANGED <<run_flag, options, report_flag, reading, temp_sensor, unit, handler,
                 log, status, history>>

\* The report goes to standard output and, with log_flag, to the log.
PrintReport ==
  /\ At(Sensor, "print")
  /\ late' = IF report_flag THEN late ELSE late + 1
  /\ stale' = IF unit = UnitOf(scale) THEN stale ELSE stale + 1
  /\ Goes(Sensor, "sleep")
  /\ UNCHANGED <<run_flag, options, report_flag, reading, temp_sensor, unit, handler,
                 log, status, executed>>

Sleep ==
  /\ At(Sensor, "sleep")
  /\ Goes(Sensor, "loop")
  /\ UNCHANGED <<run_flag, options, report_flag, reading, temp_sensor, unit, handler,
                 log, status, history>>

-----------------------------------------------------------------------------
\* The button, from the interrupt thread of the mraa library.
do_when_interrupted ==
  /\ status = Running /\ temp_sensor # "none" /\ run_flag = 1
  /\ run_flag' = 0
  /\ UNCHANGED <<options, report_flag, reading, pc, code, temp_sensor, unit, handler,
                 log, status, history>>

\* exit() runs shutdown() once: it closes the devices, then writes its message.
ShutdownCloses(t) ==
  /\ At(t, "exit") /\ handler = NoThread
  /\ handler' = t
  /\ temp_sensor' = "closed"
  /\ Goes(t, "closed")
  /\ UNCHANGED <<run_flag, options, report_flag, reading, unit, log, status, history>>

\* Mutant of ShutdownWrites: the log is closed before the message is written.
ShutdownNoLog(t) ==
  /\ At(t, "closed")
  /\ Goes(t, "_exit")
  /\ UNCHANGED <<run_flag, options, report_flag, reading, temp_sensor, unit, handler,
                 log, status, history>>

ShutdownWrites(t) ==
  /\ At(t, "closed")
  /\ log' = IF log_flag THEN Append(log, SHUTDOWN) ELSE log
  /\ Goes(t, "_exit")
  /\ UNCHANGED <<run_flag, options, report_flag, reading, temp_sensor, unit, handler,
                 status, history>>

\* A second thread in exit() finds no handler left and ends the process; newer C
\* libraries make it wait instead.
ExitAgain(t) ==
  /\ At(t, "exit") /\ handler # NoThread
  /\ Goes(t, "_exit")
  /\ UNCHANGED <<run_flag, options, report_flag, reading, temp_sensor, unit, handler,
                 log, status, history>>

EndProcess(t) ==
  /\ At(t, "_exit")
  /\ status' = code[t]
  /\ UNCHANGED <<run_flag, options, report_flag, reading, pc, code, temp_sensor, unit,
                 handler, log, history>>

Exits(t) == ShutdownCloses(t) \/ ShutdownWrites(t) \/ EndProcess(t)

Main ==
  /\ status = Running
  /\ \/ GetOpts \/ Setup \/ Read \/ Char \/ LogCmd \/ exec_cmd \/ CheckArg \/ Exits(MainT)

SensorThread ==
  /\ status = Running
  /\ \/ SensorLoop \/ ReadSensor \/ Convert \/ TestReportFlag \/ PrintReport \/ Sleep
     \/ Exits(Sensor)

\* What may happen at any time and need never happen.
Faults ==
  /\ status = Running
  /\ OptsFail \/ ReadError \/ SensorError \/ (\E t \in Threads : ExitAgain(t))

\* The process has ended, or it waits for input that never comes.
Idle == (status # Running \/ (At(MainT, "read") /\ input = <<>>)) /\ UNCHANGED vars

Next == Main \/ SensorThread \/ do_when_interrupted \/ Faults \/ Idle

\* Both threads keep being scheduled; the lines are all typed sooner or later.
Spec == Init /\ [][Next]_vars /\ WF_vars(Main) /\ WF_vars(SensorThread)
-----------------------------------------------------------------------------
\* The values the variables may take; in particular cmd_str is only written
\* inside its bounds.
TypeOK ==
  /\ run_flag \in {0, 1} /\ period \in 0..(UINT - 1)
  /\ log_flag \in BOOLEAN /\ report_flag \in BOOLEAN
  /\ Len(input) <= Len(Input(lines)) /\ Len(read_buf) <= BUF_SIZE
  /\ DOMAIN cmd_str = 0..(CMD_SIZE - 1) /\ cmd_str_idx \in 0..(CMD_SIZE - 1)
  /\ pc[MainT] \in {"opts", "setup", "read", "char", "exec", "cmd", "scaled", "timed",
                    "exit", "closed", "_exit"}
  /\ pc[Sensor] \in {"none", "loop", "read", "convert", "flag", "print", "sleep",
                     "returned", "exit", "closed", "_exit"}
  /\ code \in [Threads -> {0, 1}] /\ temp_sensor \in {"none", "open", "closed"}
  /\ unit \in {"F", "C"} /\ handler \in Threads \cup {NoThread}
  /\ status \in {Running, 0, 1} /\ late \in Nat /\ stale \in Nat

\* How many of the first k entries of a log are SHUTDOWN lines, of which there is
\* at most one (ShutdownLogged).
Said(l, k) == IF \E j \in 1..k : l[j] = SHUTDOWN THEN 1 ELSE 0

\* However read() cuts the input into pieces, the lines are executed whole, once
\* and in order, and the log names them so, ahead by the one being executed; a
\* SHUTDOWN line of the other thread may stand between them.
CommandsWhole ==
  /\ \A j \in DOMAIN executed : executed[j] = j
  /\ log_flag =>
       /\ \A j \in DOMAIN log : log[j] # SHUTDOWN => log[j] = j - Said(log, j)
       /\ Len(log) - Said(log, Len(log)) = Len(executed) + (IF pc[MainT] = "cmd" THEN 1 ELSE 0)

\* ... and no character is stored outside cmd_str on the way.
CommandsIntact == TypeOK /\ CommandsWhole

\* After STOP at most the one report already under way is still made, and after
\* SCALE= at most one report in the old scale: the thread looks at each flag once
\* per report (lab4b.c:211, 222).
OnlyOneUnderWay == late <= 1 /\ stale <= 1

Exiting(t) == pc[t] \in {"exit", "closed", "_exit"}

\* The log never gets two SHUTDOWN lines, and it has one when the process ends, unless
\* the other thread called exit() meanwhile and cut shutdown() short, or main() left
\* before shutdown() was registered, with the sensor untouched (lab4b.c:91-113, 247).
ShutdownLogged ==
  LET messages == {j \in DOMAIN log : log[j] = SHUTDOWN}
  IN  /\ \A j, k \in messages : j = k
      /\ status # Running /\ log_flag /\ temp_sensor # "none"
         /\ (\E t \in Threads : ~Exiting(t)) => messages # {}

\* A scale or a period that is refused stays in force only while main() checks it and
\* then leaves with status 1; the sensor thread sees it that long, and no line is
\* executed under it.  What is refused is the value after the conversion to unsigned.
RefusedArgsEnd ==
  (period < 1 \/ scale \notin {"F", "C"}) =>
    \/ pc[MainT] \in {"scaled", "timed"}
    \/ Exiting(MainT) /\ code[MainT] = 1

\* A line OFF and the button both end the process, whatever the sensor thread is
\* doing and wherever main() is in a command.
ShutsDown ==
  (run_flag = 0 \/ \E l \in DOMAIN lines : lines[l].cmd = "OFF") ~> (status # Running)

\* While reporting is on, also after STOP and START, the next report comes.
ReportsComing ==
  report_flag ~> (pc[Sensor] = "print" \/ ~report_flag \/ status # Running)
=============================================================================
