# UCLA coursework: TLA+ models, checks and proofs

A verification development for the programs of this repository: TLA+ modules,
TLC configurations, TLAPS proofs, and `PROJECT.json`, which ties every
definition to the source lines it models and lists the runs, the hazards they
are aimed at, the findings and the theorems.

The repository is a collection of independent course programs. Most do not call
one another; the exceptions are `lab1b-client` and `lab1b-server`, which talk
over TCP, and `lab3a` and `lab3b.py`, where one reads what the other prints.
Within a program the parts interact by calls, shared memory, pipes, signals and
`exit()`.

## Inventory

| Component | State | Operations | What is hard | What makes it correct |
|---|---|---|---|---|
| `CS111/project2/Part_1/lab2_add.c` | counter, mutex, spin word, options | `add`, `add_thrd`, `main` | every interleaving of read, add and store; retry and spin loops | no addition lost; the run ends |
| `CS111/project2/Part_2/SortedList.c` | links of circular lists | insert, delete, lookup, length | each function is several loads and stores of shared links | links inverse, exact contents, corruption detected and never made |
| `CS111/project2/Part_2/lab2_list.c` | sublists, a lock each, wait times | `list_thrd`, `main`, `sig_corrupt` | the right lock for the right sublist; lengths while others work; accounting | sublists behave as sets; the run ends with status 0 |
| `CS111/project1/project1a/lab1a.c` | terminal modes, two pipes, child | poll loop, `shutdown` at exit | hang-ups, EOF, SIGPIPE, full pipes, `waitpid` with a pipe still open | order of keys and output; the terminal is given back; ^D ends it |
| `CS111/project1/project1b/lab1b-{client,server}.c` | socket, pipes, child, terminal modes, log and zlib buffers | two poll loops, two shutdowns | either side, the shell or the connection may end first; SIGPIPE; a pipe nobody reads | order over both hops; the terminal given back; ^D ends both |
| `CS111/project3/part_1/lab3a.c` | ext2 image | free lists, inodes, directories, indirect blocks | bounds of the bitmaps, buffers partly filled | the summary says what the image says |
| `CS111/project3/part_2/lab3b.py` | dictionaries of blocks, inodes, entries | one reader per line type, six scans | checks made while tables are still being filled | 0 exactly for consistent file systems |
| `CS111/project4/Part_2/lab4b.c` | flags, period, scale, command buffer, log | command loop, sensor thread, button handler, `shutdown` | commands split over reads; flags without a lock; two threads in `exit()` | commands whole and in order; one SHUTDOWN; OFF and the button end it |
| `CS118/project_1/server.cpp` | listening socket, one connection, a static buffer, descriptors | accept, recv, parse, look up, answer | short reads, clients that leave, leaks, names without case | the right file for every whole request; nobody forgotten |
| `CS32/Project 2/BballRoster.cpp` | doubly linked lists on the heap | 9 members, join, check | pointer cases at the ends; aliased arguments | a sorted map per roster; no leak, no dangling pointer |
| `CS32/Project 4, Pt2` (TunnelMan) | player, list of actors, counters, lives | `move()`, a `doSomething()` per kind of actor | counters changed by one actor and read by another, later in the tick or in the next | the books of a level agree with its actors; levels end fairly |
| the other programs of `CS32`, `CS31`, `CS33`; `CS111/project0` | arrays, lists, trees | - | sequential | - |

`PROJECT.json` lists every component with its status, and under `hazards` what
is hard to test in each, at its line.

## Modules

Every program is one module with its state as VARIABLES and one action per step
that another thread, process or actor could see. Definitions named *Mutant of
...* are plausible bugs; nothing uses them except the mutation entries of
`PROJECT.json`.

* `AtomicCounter`: what a counter promises: one indivisible addition at a time
  if it is synchronised, as many additions of any effect if not.
* `AddCounter` (`lab2_add.c`): an action per access to shared memory (`Load`,
  `Store`, `CompareAndSwap`, `MutexLock`, `TestAndSet`, `Spin`, `Unlock`);
  `Call` is the loop of `add_thrd()` and the switch of `add()`. `main()` is
  `GetOpts`, `Create`, `LoopEnds`, `Join`, `Report`; `Fail` is its error exits.
  A worker runs from its creation on, while `main()` is still creating others.
* `SortedList` (`SortedList.c`): a call runs in a frame (cursor `lookup`,
  registers `ra`, `rb`, `count`); each load or store of a link is a step.
* `ListExerciser` (`lab2_list.c`): composes `SortedList` with the sublists, the
  hash, the locks and the three loops of `list_thrd()`; `main()` uses the same
  frames for the final lengths. A lock wait counts 1, so that
  `total_lock_wait` is the number of waits timed.
* `ListSets`: what the sublists promise, sets changed in one step.
* `TermShell` (`lab1a.c`): `Poll`, `ReadKeys`, `Key` (one key: `CtrlD`, `CtrlC`,
  `Forward`), `ShellOutput`, then `Wait` and `Restore` for `shutdown()`. The
  pipes are bounded sequences; writing to a full one blocks. The shell is
  external: it may write, read or exit at any time, and exits at the end of its
  input. `calm` runs are those without errors, hang-ups or a ^D from the shell.
* `RemoteShell` (`lab1b-client.c`, `lab1b-server.c`): client, server, shell and
  connection composed. The client is `connect_to_server`, `tty_config`, `CPoll`,
  `CRead`, `CKey`, `CSock` and its exit; the server `Listen`, `Accept`, `SPoll`,
  `SRead`, `SKey`, `SPipe`, `SStore` (one character into `kerntosock`), `SSend`,
  `SHup` and its exit. `up` and `down` are the two directions of the connection;
  `Reset` cuts it. `--log` keeps both buffers with their capacities, and a space
  for each end of a line displayed; `--compress` keeps which characters zlib is
  given and how many come out. `tty_config` has the error exits of its three calls.
* `Ext2Summary` (`lab3a.c`): an image is its bitmaps, inode table, directory
  blocks and indirect blocks; a line printed is a record. `ind_blocks` is the
  stack of the calls of `print_ind_blks()`, one array per depth: a call changes the
  first pointer of its own array, if that, and a later call at the same depth finds
  the rest. `IndSlot`, `IndRow` and `IndReturn` are the calls and their loops.
* `FsAudit` (`lab3b.py`): one action per line read and one per scan, over the
  script's dictionaries; `Consistent` is the reference definition of a
  consistent file system, said of the lines alone.
* `FsPipeline`: composes the two: `Hand` gives the audit what the summary
  printed; or the audit gets a summary in the format it was written for. `IsImage`
  and `IsSummary` say what these inputs are (`InputsAssumption`): an image has one
  block group whose bitmaps are a block each; a summary starts with its SUPERBLOCK
  line and has one INODE line per inode and one entry `..` per directory at most.
* `TempSensor` (`lab4b.c`): `main()` character by character (`Read`, `Char`,
  `LogCmd`, `exec_cmd`, `CheckArg`), the sensor thread statement by statement
  where it looks at shared flags, the button's handler, and `exit()` as
  `ShutdownCloses`, `ShutdownWrites`, `EndProcess` per thread. A character is a
  pair of line and position, so a command put together from the wrong pieces
  is told apart from the one typed. `ExitEarly` are the exits before `shutdown()`
  is registered.
* `HttpServer` (`server.cpp`): `Accept`, `Recv` (and its failures), the parsing of
  the name, `lookupFile`, `fopen`, `Answer`. Clients `Connect`, `Send` one or two
  segments and may `Leave` at any time. `host` is what the code leaves to the
  build (what `string_To_Lowercase()` does to a string object), the file system
  (case), and the files of the directory the server was started in: names are looked
  up in the directory of line 23 and opened relative to the working directory
  (lines 150, 158).
* `TunnelMan` (`StudentWorld.cpp`, `Actor.cpp`): a tick is the player's action,
  one action per actor in the order of `m_actors`, the sweep that erases the dead
  while it iterates (`TurnsOver`, `Keep`, `Erase`), and `EndTick`. Positions are
  abstracted: how far things are and what is hit is a choice, and so is the turn on
  which a clock runs out, except a boulder's.
* `Roster` (`BballRoster.cpp`): operators on a store of nodes, head and tail
  pointers, so that `joinRosters()` can use `signPlayer()` on a local roster;
  one action per call. `answer` records whether the last call did what the
  header promises of it.
* `MC...`: constants for TLC.
* `AddCounterProofs`, `ListExerciserProofs`, `TempSensorProofs`, `TermShellProofs`,
  `RemoteShellProofs`, `HttpServerProofs`, `TunnelManProofs`, `FsPipelineProofs`: the
  theorems about the module each is named after.

## Runs

| Run | Instance | Checks | Shows |
|---|---|---|---|
| `add` | up to 2 threads, up to 3 iterations, all four modes | `TypeOK`, `MutualExclusion`, `CounterRight`, `AddsAreAtomic`, `Termination` | each mode but none makes the addition atomic; the report is 0; without synchronisation the counter stays in range; nobody waits for ever |
| `list` | 2 threads, 2 elements each, 2 sublists, mutex, spin and no sync | `TypeOK`, `NoWildPointers`, `MutualExclusion`, `LengthIsExact`, `NeverCorrupt`, `FreeListsIntact`, `LocksCounted`, `ImplementsSets`, `Termination` | fine-grained locking refines sets, and a list nobody holds has exactly the live elements and intact links; without locks corruption happens, but no unset pointer is followed; every walk ends, after 2 * `n_iterations` + `n_lists` waits of each worker |
| `list_order` (violation) | the same with a mutex | `Ascending` | the lists descend, where the interface says ascending |
| `sensor_sessions` | 4 sessions of up to 6 lines of up to 2 characters | `CommandsIntact`, `OnlyOneUnderWay`, `RefusedArgsEnd`, `ShutdownLogged`, `ShutsDown`, `ReportsComing` | commands survive any cutting by `read()`; at most one stale report; a refused argument ends it before another line is executed; one SHUTDOWN once `shutdown()` is registered |
| `term` | 4 sessions with ^C, keys after ^D and a second ^D; 3 shell characters, ^D among them; pipes of 2 | `StreamsIntact`, `RestoredAtExit`, `SessionEnds` | order kept both ways; the terminal is restored and the shell reaped at exit; ^D ends it when nothing fails |
| `remote` | 9 sessions, with `--log` and `--compress`, a shell that writes line feeds and ^D among them; pipes and buffers of 2 | `StreamsIntact`, `TerminalGivenBack`, `LogMatchesTraffic`, `EofEndsBoth` | order kept over both hops whoever ends first; the log has the keys and what was displayed; ^D of a session in which nothing fails, the pipes suffice and the shell writes no ^D ends both programs |
| `remote_stall` (violation) | one ^D, 3 characters of output, pipes of 2 | `LoopBroken` | the server blocks on a pipe nobody reads, and ^D does not break its loop |
| `fs_audit` | 96 images by 3 stacks; summaries with a root, a file and a directory, right and wrong | `SummaryRight`, `VerdictRight` | the summary is right where the bitmaps end with the group and no indirect block has a second pointer; the audit's status is right up to three named exceptions, for 64 blocks and lines it can parse |
| `fs_verdict` (violation) | the same | `ConsistentPasses` | a consistent summary of ten blocks gets status 2 |
| `http` | 3 clients, requests in 2 segments, 5 files, 4 hosts, 7 descriptors | `RightAnswer`, `SurvivesProperClients`, `EveryoneAnswered` | a whole request gets a file that fits it, and the error page only if none does or names are not folded; one that is cut may get another's extension; proper clients cannot stop it while it has descriptors; nobody is forgotten |
| `tunnelman` | 1 boulder, 2 barrels, 1 nugget, 1 protester, 2 lives, 1 actor made per level | `ActorsAccounted`, `FairEnds`, `LevelGoesOn` | counters agree with the actors at every moment, while the dead are being erased too; levels end fairly; a boulder that waits comes down and a level whose barrels are found ends |
| `roster_ops` | 2 rosters, 4 names, 2 values | `ListsIntact`, `AsPromised` | sorted, doubly linked, disjoint, leak-free; every call as the header says, but for the deviations below |

An invariant that is a conjunction of named parts (`StreamsIntact`,
`ActorsAccounted` ...) has the type invariant of its module among them.

**Bounds.** Two workers suffice for every race between two accesses; three or
more are covered by the proofs for what is proved. Two iterations make a worker
go round each loop with the lock it has just released; two elements per worker
make neighbours of the same and of different workers in one list. The keys of `list`
make one worker use both sublists and the two share one, with equal and different
keys in it. In `TempSensor` lines of two
characters with `BUF_SIZE` 4 give reads that end inside, at and after a line;
`CMD_SIZE` 3 is the longest line and its terminator, so one missing reset
overruns it. `UINT` 8 keeps the wrap-around of an unsigned int with small
numbers. In `TermShell` and `RemoteShell` pipes of two characters fill up and
`READ_SIZE` 2 is smaller than what the shell writes and what is logged. In
`FsPipeline` the summaries keep the script's own constants (64 blocks, inodes
from 11), with each line about file and directory present, absent or wrong; the
images have twelve blocks and inodes on bitmaps of three bytes, so the group ends inside
the second, and zeros before, in and behind that byte; files with all three
indirect slots on blocks of two pointers, one of them with two, with a short
link after them or not; and a stack that is clear or not where a call reads and
where it does not. In `HttpServer` three clients are one more
than the backlog, and 7 descriptors are used up after one hit. In `TunnelMan` a boulder's clock is 2 long, the hit points last for two shouts, two actors next to
each other may die in one tick, at the start of the list or not, and one actor may
be shot, dropped or added per level (`MADE`). Four names in `Roster` are one
before, one after and two with the same last name: each place `signPlayer()` may
insert at happens. Addresses there are named after roster and player, since `new`
may return any free one; rosters and values are symmetric. No counter is capped
by a state constraint.

**Deadlock** is checked in the `add`, `list`, `sensor_sessions`, `fs_audit` and
`roster_ops` runs. The others may really stop: `shutdown()` in `waitpid()` with
the shell blocked on a pipe nobody reads; `recv()` from a silent client; a
game that is over. `Ended` and `Idle` steps stand for a process that has exited or
waits for input that never comes.

**Fairness.** Weak fairness of `main()` and of each worker (`AddCounter`,
`ListExerciser`), of `main()` and the sensor thread (`TempSensor`), of the
terminal's loop (`TermShell`), of client and server (`RemoteShell`,
`HttpServer`), of the game's loop (`TunnelMan`): the scheduler runs every
runnable thread eventually. No strong fairness is assumed of locks: the loops
are finite, so a worker that is beaten to a lock is beaten finitely often. A
shell with input to read, room to write or the end of its input acts on it
(`ShellMust`); that it writes or exits of itself (`ShellMay`), and all errors,
resets, the button and the hang-up need never happen. Of an HTTP client it is
assumed that, once connected, it sends something or leaves: the code has no
timeout, and a client that does neither does block all others.

## Theorems

Every safety and action property of the passing runs is proved for every value of
the constants, except those listed at the end of this section. The theorems rest
on the named assumptions on the constants; no theorem has a hypothesis of its own. Each
invariant is proved from an inductive one: `Init => IInv`, `IInv /\ [Next]_vars => IInv'` with
one step per action, `IInv => property`.

**`AddCounterProofs`** (`BoundsAssumption`, `SyncAssumption`: at least one thread
and one iteration, the four modes).

* `TypeCorrect` is inductive as it stands. `MutexHolds` is not: that the lock is
  free says nothing unless a worker inside is known to show in it. `IInv` adds
  `LockWordOK` (a worker between lock and unlock owns the mutex, or the lock word
  is 1), `PlacesOK` (a worker is only at the places its mode has; one not created
  yet has done nothing) and `JoinsOK` (`main()` joins all that it created).
* `ImplementsAtomic`: `Spec` implies `AtomicCounter` in all four modes. Only the
  store, or the successful compare-and-swap, maps to an addition. For the
  locking modes this rests on the second half of `MutualExclusion`: what a holder
  read is still the counter when it stores.
* `CounterIsRight`: a synchronised counter is `NetSum`, the sum over the threads
  of what each has added, and so 0 in the report. Without synchronisation
  `Within` bounds the counter by the additions of one sign. What a step does to
  a sum over the threads is shown with a least index at which it would fail.

**`ListExerciserProofs`** (`OptionsAssumption`: any numbers of threads,
iterations and sublists, any keys and hash).

* `TypeCorrect` and `NoWildPointersHolds`, with or without synchronisation, are
  proved together through `WInv`, since the type of a link read through an unset
  pointer would be unknown. `PointersSet` says every pointer held anywhere is
  unset or leads to a node whose links are set, `InsertedSet` that an element's
  links are set before it is linked in.
* `MutexHolds`: from `WInv` and `LockInv` (a worker in a call shows in the lock of
  the sublist its key hashes to).
* `NeverCorruptHolds`, `FreeListsAreIntact`, `LengthHolds`: from `SInv`. `ListOK` says
  that a sublist is at every moment a chain (`IsChain`): its nodes, numbered in
  the order of `next`, are the head and exactly the `Members`, in descending
  order, and `prev` is the inverse of `next` but for the one link past an element
  that is half linked. `Frame` says where in that chain the registers of a call
  point. A step of a call keeps both if nobody else is in its sublist
  (`AloneIn`); mutual exclusion gives that for workers, and `Phases` for `main()`,
  which walks the lists only after all workers have returned. `Reset` says that
  `count` starts at 0, so that it is the position reached by a walk. At the end,
  `Members` is what a walk from the head reaches, which is how the properties are
  stated.
* `ListsAreSets`: a run with locks implements `ListSets`. The store of `i_next` is
  where an insertion takes effect, that of `d_un6` where a deletion does; the other
  steps stutter. It is about every mode: a run without locks corrupts the sets and is
  mapped to no step at all (`Showing`), so it says nothing of that mode.
* `LocksAreCounted`: `Waited` relates `total_lock_wait` to the place of every
  worker, for any number of sublists: at the end `n_threads` * (2 * `n_iterations` +
  `n_lists`) waits have been added up.

**`TempSensorProofs`** (`LinesAssumption`). `CommandsAreIntact`: `Stream` says that what
is left to read determines how far `main()` is and what `cmd_str` holds, so that a
cut by `read()` makes no difference; `Input()`, which puts the characters of a
session one after the other, is a recursive function, and its equations are
proved first. `OneUnderWay`, `RefusedEnds` and `ShutdownIsLogged` need `Places` (what a
thread has done by the time it is somewhere) and one part each: `Reporting`,
`Refusing`, `Leaving`. `ShutdownIsLogged` is about processes that have registered
`shutdown()` and set up their sensor: those that leave earlier, with a log or without,
write no SHUTDOWN line.

**`TermShellProofs`** (`BoundsAssumption`). `StreamsAreIntact`: what is in the pipe and
what the shell has got is `Sent()` of the keys handled, and the output shown and
in the pipe is what the shell wrote; `Left` says that the keys read and not read
are what is left of the session, `Open` that the pipe is open up to the first
^D. `RestoredWhenItExits`: `Restoring` adds that the terminal is
given back only once the shell is reaped.

**`RemoteShellProofs`** (`BoundsAssumption`). `StreamsAreIntact`: `KeysInOrder` is proved
in a form that covers the socket, both buffers and the pipe at once; `Open` says
that the pipe to the shell is open up to the first ^D, `Output` that what the user
saw and what is under way make up what the shell wrote as long as both programs
run, and its start after that. `TerminalIsGivenBack` needs
`Modes`, `LogIsComplete` needs `LogOK`: the log is what was handled, up to the
character in hand, with `Spaced` for the line ends of what was displayed. All but
`TerminalIsGivenBack` are about sessions without `--compress`, as far as order is
concerned; none says that `sent_buf` and `recv_buf` are long enough (see the
deviations).

**`HttpServerProofs`** (`LimitsAssumption`, `ClientsAssumption`, `NamesAssumption`,
`HostsAssumption`). `AnswersAreRight` rests on lemmas about the lookup: what
`string_To_Lowercase()` leaves alone, that what `lookupFile` finds fits the
name it was given, and that it finds something if an entry fits in the case the
lookup compares; for a request that was cut it needs that the tail of the buffer is
always a whole request received before. `ProperClientsAreSafe`:
`Descriptors` says that, if every client is proper, each descriptor used up is
one hit, `AtWork` what the server works on, `Places` where each client is.

**`TunnelManProofs`** (`CountsAssumption`). `BooksAreRight`: lemmas on the number of
living actors of a kind say what it is after one is changed, added or erased;
erasing a dead one changes no count (`CountErased`), by the bijection between the
places before and after. `ActorsOK` says which states an actor of each kind can
have, `CleanBehind` that the sweep has left nothing dead behind it, `Killed` bounds the
hit points. `EndsAreFair` proves the action property `FairEnds`, from `Finishing` (a
level ends only with its last barrel and a living player).

**`FsPipelineProofs`** (`SizesAssumption`, `InputsAssumption`: any images and summaries
of the shapes named there, of any size).

* `SummaryRightHolds`: the lines of a directory are a `FlattenSeq`, a recursive
  function; that its equations have a solution, and what the solution's elements
  are, is shown first, with a least length at which it would fail. `SumInv` says of
  the output so far that every line is of its kind and at its place (`LinesRight`)
  and, where `OnePointerEach` holds (`OnePtr` says it of an image and a stack), that
  the INDIRECT lines of the inodes done are their `Trees` (`TreesRight`) and those of
  the one at hand are its trees so far, with what the calls under way
  have printed (`OnTheWay`, `BlocksRight`). `StackOK`, `SumPlaces` and `SumLength` tie both to
  the place in `main()` and in the calls. `TreesAreReached` and `ListedIs` then
  compare with the reference definitions: the first with every pointer of every block
  reached, the second is the arithmetic of bytes and bits behind the loops that run
  past the group.
* `VerdictRightHolds`: `ReadInv` says that every dictionary is what the lines read so
  far say (`LinkCounts`, `RefCounts`, `BlockCounts`, `Parents`, `Names`); of a
  block's count it keeps only what the checks tell apart: none, one or several
  references. `FlagRight` says that `is_consistent` holds exactly if nothing was wrong
  with the lines read and with the three scans that clear it, as far as they are
  done, `PassedRight` that the other three let the script go on, `StatusRight` what
  each exit status means of all of them. That the checks agree
  (`AllAgree`) is then compared with `Consistent`, without any step of the program:
  `AgreeIsConsistent` up to the three exceptions, and `ConsistentAgrees`. What the
  first part says of `lab3a`'s own summary, which the audit may be given too, is
  `PrintedIsSummary` and `Given`.

**Only model-checked.** All liveness, which is out of this prover's reach.
`ListsIntact` and `AsPromised` of `Roster`: a whole call is one operator there, a
composition of recursive functions over the store.

## Deviations of the code from its documentation, and other surprises

Three have a run and a finding. `lab1b-server.c:357` says the loop is broken by ^D, but
the server copies all output into a pipe of its own that nothing reads (line
219) and blocks when that is full (`remote_stall`). `SortedList.h:35-36` says that a
list is kept in ascending order, but `SortedList_insert()` keeps it descending
(`list_order`). `lab3b.py:264` calls its scan a check for unreferenced blocks, but the
scan goes one number too far and exempts the hard-wired block 64 (lines 265, 9), so
that it reports a block that does not exist for any other number of blocks
(`fs_verdict`).

The models contain the following as what the code does; the properties are stated
so that they hold in spite of them, and say so where they exclude a case.

* Project 2. `lab2_list.c:461` divides the total lock wait by
  2 * `n_elements` + `n_threads`, one length lock per thread, but the loops take one per
  sublist: `LocksCounted` counts `n_threads` * (2 * `n_iterations` + `n_lists`) waits,
  which is the divisor for one sublist only. With more sublists the
  wait per operation that is reported and plotted is too large. `lab2_add.c:272` divides by zero
  for `--iterations=0`.
* `lab1a.c`. A ^D written by the shell makes `shutdown()` wait for a shell whose
  input it still holds open (lines 76, 138). Without `--shell`, ^C signals the
  process itself (line 352), which dies in raw mode. Exit codes are 0 on SIGPIPE
  and 1 after ^D. The loop blocks on a full pipe to the shell (line 359) and then
  no longer reads the other one.
* `lab1b-client.c`. `avaliable` is never lowered (line 508), so the log buffer is
  overrun and not grown; a failed connection sets the terminal to modes that were
  never read (line 116); the hang-up of the socket is looked at before its data;
  SIGPIPE ends it in raw mode; `deflate()` is told that one key is all of the last
  read (line 480), and the `inflate()` loop spins when its output is used up. A ^D
  that the shell writes makes the client exit as one from the keyboard does (lines
  218, 239).
* `lab1b-server.c`. It waits for the shell before it kills it (line 261); the end
  of the client's input is not noticed, and the loop spins (lines 367-372), as it does
  after a client that has left at the shell's ^D.
* `lab3a.c` and `lab3b.py`. `lab3a` prints `DIRECT` for `DIRENT` and a comma in its
  dates, so the audit of its own summary of a file system in use ends with an exception,
  and `P3A_check.sh:254-265` would not accept these lines; it reads four bytes of an
  indirect block (line 32)
  and follows what the stack holds for the rest; the second block of a directory
  is never read (line 346); the text of a short symbolic link is printed as block
  pointers; the loops over the bitmaps go on past the group. Both parts of
  `SummaryRight` name the images they are about for this reason. `lab3b.py` misses
  three inconsistencies (`Phantom`, `PastTheEnd`, `NamedTwice`), and three of its
  error messages use names that are not defined; the INODE line of a short symbolic link,
  which has fewer than 15 addresses, raises IndexError (lines 124-125). Of two entries `..` of a directory,
  or two INODE lines of an inode, it keeps the later one only; `IsSummary` leaves
  such summaries out.
* `lab4b.c`. `period` is unsigned, so a negative period passes `period < 1` (lines
  91, 181). One report may come in the old scale after `SCALE=`, and one after
  `STOP` (`OnlyOneUnderWay` is exact: at most one).
* `server.cpp`. A client that closes without a request ends the server; a reset
  leaks a socket, a hit leaks the descriptor of `opendir()`; with none left the
  accept loop spins. `message_buf` keeps the tail of an earlier request, so one
  that arrives in two segments may be answered with the name's head and another's
  tail. A slash in the name throws, or cuts the name if the part before it is long.
  `string_To_Lowercase()` treats the string object as its characters; a
  folded name is then opened as it is, which fails where file names have case. The
  project's `README.md:25` promises a case-insensitive search, which names too long for
  the object, and all names in builds that keep none in it, do not get (`NoFalseMiss`).
* TunnelMan. Escape aborts the level according to `Actor.cpp:308-309`, but it marks the
  player dead to `doSomething()` only, not to `move()`: he freezes, and the level may go on
  for ever. Protesters are not marked animate, so nothing annoys them, neither a
  boulder, which is to "kill any living object on the way down" (line 66), nor a squirt,
  and what they do when annoyed (lines 433-444, `create_path`, `find_path`,
  `followExitPath`) cannot be reached. `m_shoutClock` is not initialised, and one that
  starts below 0 never comes back to 0. `StudentWorld.cpp:203` says that a player with all
  barrels wins, but one killed in the same tick loses a life: line 195 is
  looked at first. `~StudentWorld` after `cleanUp()` deletes the actors twice.
* `BballRoster.cpp`. `resignPlayer()` (line 201) never looks at the last player,
  where `BballRoster.h:44` promises to re-sign anyone, and dereferences a null
  pointer on an empty roster; joining an empty first roster gives the empty one
  (line 399), where the comment says "the other roster".

## What is not modelled

* `gperftools-2.7.90` is vendored and makes up most of the repository's lines of
  code, about 52 000 of 66 000. The share of the lines the map covers is small
  for that reason, and because earlier versions, backups and introductory
  exercises are kept beside the programs modelled.
* `lab0` (a copy loop), `LinuxBox` and `CS31` (exercises without state), the
  sequential lists, trees, sorts and recursive functions of `CS32`, the Robots
  game (one command, one state), grading and plotting scripts.
* Memory is sequentially consistent, and the spin loops read the lock word every
  time round, as in the unoptimised build of the Makefiles; data races beyond
  the interleaving of whole accesses are left out.
* `opt_yield`: a yield invites a context switch that every step allows anyway.
* Negative or huge option values of `lab2_*` and `--lists=0`; a failing clock
  inside a list worker.
* `TempSensor`: the temperature formula; report lines in the log; command lines
  longer than `cmd_str`, which the code does not guard against.
* `TermShell`: echo to the display; SIGINT is one of the reasons why
  `ShellExits`.
* `RemoteShell`: options that fail before anything is started, a keyboard that
  hangs up, errors of `poll()`, `read()` and of the `pipe()` calls made once the shell
  runs, the limits of the socket buffers; what `printf()` itself buffers.
* `Ext2Summary`: owners, modes, dates and sizes; a directory entry of length 0, on
  which the program loops for ever; more than one block group; pointers above 2^31,
  which are negative to the program and make `pread()` fail (`Fails` covers its exit).
* `FsAudit`: the wording of the messages, levels and offsets.
* `HttpServer`: contents, headers, `%20`.
* `TunnelMan`: positions (and so `ground[x][60]`, `WaterSquirt`'s use of `getX()`
  for both coordinates, `pickNewDirection()`), all clocks but a boulder's, score, sounds, the text line.
* `Roster`: `new` never fails; strings are integers with their order.

## Plan

Done: the programs of projects 1 to 4 of `CS111`, the HTTP server, the roster and
TunnelMan are modelled, and the theorems above proved. Next, in this order:

1. `ListsIntact` of `Roster`, one lemma per member function, in the manner of the
   chains of `ListExerciserProofs`.
2. An abstract specification of `RemoteShell`, two channels that lose only a tail,
   and the refinement.
