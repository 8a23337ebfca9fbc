# Verification of System-Fundamentals-2019

TLA+ models of the C programs of this repository, the TLC configurations that
check them on small instances, and proofs that TLAPS checks for instances of any
size. Every definition is translated from the code; where the code and its
documentation disagree, the model does what the code does, a property states
what the documentation says, and a run of its own shows how the code breaks it.

## 1. Inventory

The repository holds six programs. They share nothing but a course.

| Program | Components (sources) | State | Operations | Interaction |
|---|---|---|---|---|
| hw5 *bourse* server | client registry (`client_registry.c`) | table of descriptors, count, semaphore | init, fini, register, unregister, wait_for_empty, shutdown_all | called by every service thread and by the SIGHUP handler |
| | main and shutdown (`main.c`) | threads, SIGHUP disposition, exit status | accept loop, `shut_down_server`, `terminate` | creates service threads; the handler runs on top of any of them |
| | service loop (`server.c`) and packets (`protocol.c`) | the last header received, the shared `ack_pkt` | one branch per packet type; send, receive, byte order | calls traders and exchange, sends to its socket |
| | traders (`trader.c`) | accounts, `traders[]`, one shared header | login, increase/decrease balance and inventory, ack, nack, broadcast | called by service threads and by the exchange |
| | exchange (`exchange.h`, binary) | order book, matchmaker thread | post_buy, post_sell, cancel | calls trader functions back |
| hw4 *jobber* spooler | job table, commands, SIGCHLD handler (`jobs.c`, `main.c`) | `job_table[]`, `enable`, runner processes | create, expunge, cancel, pause, resume, enable/disable, fini, `check_and_execute_jobs`, `execute_job`, handler | commands and handler share the table with no masking; runners are other processes |
| | runner (`execute_job`'s child, `execute_pipeline`) | descriptors, pipes, child processes | fork, redirect, exec, close, wait | a process of its own; the spooler sends signals to its group |
| | task syntax (`task.c`) | a tree | parse, unparse, free | called by `job_create` |
| | command loop (`main.c`, `helper_func.c`) | the line | recognize a command and its argument | calls the job table |
| | line input (`sf_readline.c`) | buffer, its size, signal mask | read a line under pselect | the one place that unmasks SIGCHLD |
| hw2 *rolo* rolodex | files, lock and save (`rolo.c`, `options.c`, `io.c`) | data, temporary, copy, backup and lock file; `rololocked`, `changed` | start, lock, read, save, exit, interrupt, end of input | sessions of several users of one directory share the files |
| | list of entries (`rlist.c`) | doubly linked list | insert, delete, reorder | used by scans, searches and updates |
| | scans, searches, updates (`operations.c`, `search.c`, `update.c`) | `matched` marks, nested menus | add, delete, update, scan, search | recursive: a scan starts a scan |
| | arguments (`args.c`) | options and other arguments, `Cmd` | `get_args` and its queries | called by `rolo_main` |
| | menus (`menu.c`, `menuaux.c`) | the response of the user | `menu_match` and the functions upon it | ask for `options.c`, `search.c`, `update.c` |
| | tools (`ctools.c`) | – | lines of limited length, blanks, integers, comparisons without case | called by all of them |
| hw1 *transplant* | `transplant.c` | path buffer, record stream | serialize, deserialize | sequential |
| hw3 | `sfmm.c` | – | a stub | – |
| hw0 | `hi.c` | – | prints | – |

What is hard in them, and what makes each correct:

* **jobber**: a handler that strikes between any two statements; SIGCHLDs that
  merge; stops and continuations that overwrite each other; `killpg` before the
  child has made its group. Correct: each active job has its one runner, every
  end of a runner is noticed, no slot stays idle while a job waits, each job goes
  through the states of `jobber.h`, quitting ends.
* **runner**: every process has copies of the descriptors, so that an end of a pipe
  left open anywhere keeps a reader waiting for ever; commands end early, never
  read, cannot be executed; a fork or a pipe fails half way; a kill at any moment.
  Correct: commands are connected as written and to nothing else, pipelines run in
  turn, a kill leaves nobody, a runner whose task can end ends.
* **command loop**: a line that is as long as the buffer, a last line without its
  newline, a parser that moves a pointer through six functions. Correct: what is
  done is what was typed, and a task can be printed and parsed back.
* **bourse**: threads and a signal handler that takes a lock; a table at its
  limit; shutdown that overtakes a client that is just starting; one header for
  all acknowledgements; sums that wrap at 32 bits; two debits for one order.
  Correct: the count is the number of occupied slots, who is registered when
  SIGHUP comes is shut down, shutdown ends, answers match requests, nothing comes
  from nothing. Packets are framed, and nobody who comes late escapes, only as
  long as nobody comes in between: that is what the documentation says, and the
  configurations `*_fails.cfg` show where it fails.
* **rolo**: other sessions, interrupts and crashes between any two system calls
  of a start or a save; error paths that leave the lock. Correct: one owner of
  the lock, no lost update, what was saved is on disk, no lock is left behind but in
  the ways the code cannot help; in memory: the list stays a list and sorted, and
  what is not marked as changed is in the file.
* **menus**: lines that are too long, the end of the input in any question,
  abbreviations that match several options. Correct: the people asked for are
  shown, a response ends a line, the end of the input ends the program.
* **transplant**: record streams and recursion. Correct: deserializing what was
  serialized gives the same tree.

The lines where these bite are in `PROJECT.json` under `hazards`.

## 2. Modules

| Module | Models | State and actions |
|---|---|---|
| `JobLifecycle` | the life of a job as `include/jobber.h` 22-47 describes it | abstract: a status per slot, the flag `enabled`; one action per documented transition |
| `Jobber` | `jobs.c` and the commands of `main.c` | the job table field by field, two stack frames with program counters, and the kernel's view of each runner; every command, `check_and_execute_jobs`/`execute_job` per statement that shares state, the handler's `waitpid` per job |
| `ClientRegistry` | `client_registry.c` | table, count, semaphore; per caller a place, an argument and a loop index; each statement on shared state is a step |
| `Bourse` | `main.c`, entry of `brs_client_service` | extends `ClientRegistry` with threads, SIGHUP frames, `terminate()` and the exit status |
| `TraderService` | `server.c`, `trader.c`, `protocol.c` | accounts as words, the shared header, each connection's place in the loop; a step per access to the shared header |
| `RoloStore` | `rolo.c`, top level of `options.c`, reading and writing of `io.c` | names to inodes, inodes to contents, the lock file; per session its place, memory and streams; a step per system call on a file |
| `RoloList` | `rlist.c`, `operations.c`, `search.c`, `update.c`, what `io.c` reads and writes | `next` and `prev`, the marks, a stack of frames for nested scans; a step per question to the user, or return from a frame |
| `Transplant` | `transplant.c`, writer and reader at two ends of a pipe | the stream of units, the writer's open directories, the reader's place, depth and path; a tree is a function from paths to contents |
| `Pipelines` | `execute_job`'s child, `execute_pipeline` and its helpers in `jobs.c` | the runner by the statement, with `pl`, `cmd_idx`, `curr_fd`, `prev_fd` and its descriptors; each command's place and descriptors; the units in each pipe; `killpg` at any moment |
| `TaskSyntax` | `task.c` | pure: parser and printer as functions of the text and the position, beside the grammar of `task.h` as a second definition (`IsTask`, `TaskOf`) |
| `CommandLine` | `sf_readline.c`, the loop of `main.c`, `helper_func.c` | extends `TaskSyntax`; the input, the buffer and its size, the last call made; a step per piece read and per line |
| `CTools`, `Args` | `ctools.c`, `args.c` | pure: lines of limited length, blanks, integers of limited width, comparisons; what `get_args` makes of an argument vector |
| `RoloMenus` | `menu.c`, `menuaux.c`, and who asks: `rolo_main`, `look_for_person`, `interactive_rolo`, the choices of `search.c` | extends `Args`; what is typed, the menu that asks, the entries shown, the last response; a step per question, and `fgets` where any character goes on |
| `MCJobber`, `MCRegistry`, `MCBourse`, `MCTrader`, `MCRolo`, `MCRoloList`, `MCTransplant`, `MCPipelines`, `MCCommandLine`, `MCRoloMenus` | – | symmetry sets, inputs and instances for TLC |
| `JobberProofs`, `PipelinesProofs`, `CommandLineProofs`, `BourseProofs` (with the registry and the traders), `RoloProofs`, `RoloListProofs`, `RoloMenusProofs`, `TransplantProofs` | – | theorems and proofs |

An operator named `Op_Fault` is `Op` with a plausible bug. Nothing uses it in
the specification; substituting it for `Op` makes the property it belongs to
fail, which shows that the property can.

### Correspondence

*Jobber.* `task[j]` stands for `job_table[j].task # NULL` (the slot is in use);
`status`, `pgid`, `canceled` are the fields, which a freed slot keeps, as in the
code. `pc[f]`, `idx[f]`, `cnt[f]`, `child[f]` are location and locals `i`,
`running_cnt`, `cpid` of frame `f`, "main" or "handler". While the handler is
active main takes no step; the handler is not re-entered, because SIGCHLD is
blocked while it runs. `proc`, `grouped`, `event`, `sigchld` are the kernel's:
what a process is, whether it has called `setpgrp`, an unreported stop or
continuation, and the single pending bit. `owner` is history: the job a process
was forked for. `exit_status` is abstracted to the difference between COMPLETED
and ABORTED. A process number is not used again while its zombie is unreaped,
nor while a job of the table or a frame still names it (`FreshPids`): kernels go
through all numbers before they use one again. Stops and kills from
outside the program are allowed (`RunnerStops`, `RunnerKilled`).

`Spec` lets the handler run wherever the code does not block SIGCHLD, which is
everywhere. `MaskedSpec` delivers SIGCHLD at the prompt only. That is an
assumption about the environment (no runner changes state while a command is
being carried out), which the code does nothing to bring about: it masks SIGCHLD around
its pselect only. The properties that the races break are stated of it, and
`jobber_fails.cfg` shows, under `Spec`, how each of three races breaks what the
documentation says.

*ClientRegistry, Bourse.* A caller is a stack frame: a service thread, or the
handler on top of one. A handler's frame suspends the thread below it for good,
since `terminate` exits. SIGHUP goes to the main thread unless it already runs a
handler, then to any thread. `due[f]` is history: who was registered when the signal
of handler `f` came. `Fini` sets `freed`; a call that goes on afterwards
reads freed memory, which is modelled as ending without effect.

*TraderService.* `traders[]` stays empty because `trader_login` stores nothing,
so a trader belongs to its connection. Words are modulo `WORD`. `put` and `got`
are history: what was paid in and paid out. The exchange is a binary; its effect
on callers (a second debit by `exchange_post_buy`, the broadcast that follows a
posted order) is taken from its interface and from how `server.c` uses it.

*RoloStore.* A name is bound to an inode, so a session that has a file open goes
on writing to it after another has renamed it. The contents of a file are the
set of edits in it. `base` (what a session last read or wrote), `saved` (what was
last reported as saved), `mishap` (what has befallen the rolodex since: a session that
found none has created one, in the gap between the two renames of a save for instance;
such a new one has been backed up over the saved one; or one that was there has been
emptied) and `abandoned` (a session that had locked is gone and did not unlock) are
history. `Events` switches on end of input, crashes, a full file system, refused
opens, failed reads and a menu that cannot be read, for which `cathelpfile` exits with the
lock file in place; `Interrupts` are the places where a SIGINT may come, `Modes` the ways
the program is called. Creating the lock file and setting the handler are two steps
(`Lock`, `Catch`), and so are the unlink of `roloexit` and the exit after it (`Roloexit`,
`Leave`): a SIGINT between them meets no handler, or removes a lock that may be
another's by then. A write and its `fclose` are one step; what an interrupted session's
`exit` still flushes is a step of its own (`Flush`). Additions, deletions and updates are
one action, `Edit`.

*RoloList* opens up that `Edit`, for one session; the next one begins in the
same way, with some file. `next[0]` and `prev[0]` are `Begin_Rlist` and
`End_Rlist`. An entry is a number: its third is the name in the order of
`nocase_compare`, and what is left over says whether it has fields the user defined (1, 2)
and whether their first characters have been overwritten (2): a search by such a
field writes a colon over each and marks nothing as changed (`Overwritten`). Updating an
entry with such fields faults, because `copy_entry` keeps the number of these fields and drops the
fields; so does showing an entry of which a field was left empty in `rolo_add`
(`Dies`, which stands for an interrupt too). A frame is a call that waits for a
call below it: `peruse` and `scan` are `display_list_of_entries` from
`rolo_peruse_mode` and from a search, `one` and `pick` the two ways a search shows
a single entry; `at` is the entry shown, `first` where the scan began. `live`
(inserted and not deleted) and `misfiled` (a changed name left in its old place)
are history. `Habits` are two things a user may do: delete an entry that an outer
scan still shows ("outer"), and ask for match 0 ("zero"), for which the code uses a
variable nobody set: any link made so far, or the one picked before.

*Transplant.* A record is its header and, of two types, bytes; they are two units
because `deserialize_file` reads the header of a record it cannot use and leaves
the bytes in the stream. `deserialize_directory` calls itself at the end of a
directory before it takes the name of the directory off `path_buf`; the frames
return when the stream has been read, so in the model `path` keeps the name.
`readdir` returns names in any order, and the two programs interleave freely.
The bytes of a name or of a file do not begin with the magic sequence; the source
is readable and nobody changes it.

*Pipelines.* This is the inside of one process that `Jobber` calls a runner. An end
of a channel is `<<p, k, side>>`: of the pipe after command `k` of pipeline `p`, of
the file of pipeline `p` when `k` is 0, of what the spooler gave when `p` is 0. The
descriptors 0 and 1 of a process are `input`, `stdin`, `stdout`; its others are the
set of the ends they refer to (`held`, `ends`), so `dup2` and `close` add and remove
elements and a fork copies the set. `group[c]` is the group of a process, inherited at
the fork and then set twice, by the child itself (`SetGroup`) and by the runner
(`Grouping`), from the `pgid` each of them sees. `place[c]` is how far the child in
`execute_pipeline` has come. A command is what `execvp` starts, which is not in the
repository: it is modelled by when it reads, writes and ends, in five kinds. Pipes
behave as POSIX says: a read at an empty pipe waits while anybody has its other end
open, a write that nobody can read is SIGPIPE.

*TaskSyntax, CommandLine.* A piece is a character, except that the name of a command
is one piece. `linep` is a position; a parsing function returns what it has read and
where it leaves the position, with null pointers as `<<>>`. `did` is the call main
makes, not what it does: that is `Jobber`, whose prompt is the place "read" here. The
variable that `sscanf` leaves unset is any of `Garbage`. `room` is the size of the allocated
buffer and `size` the variable: they differ when `realloc` fails, which doubles the variable
only.

*CTools, Args, RoloMenus.* A string is a sequence of characters, ints have the width
that `MAXINTSTR` says. What the user types is one text, chosen a character at a time
before the program starts, because he may type ahead; nothing the program does
depends on when it is typed. Menus ask where `RoloList` has one question to the user;
the two meet at `InteractiveRolo`, where saves, scans and searches by name return to
the menu. `shown`, `skipped` and `reply` are history. `result` of `look_for_person`
is used without having been set when the input ends: "unset" is then any value.

## 3. What is checked

12 runs pass:

| Run | Instance | What it shows |
|---|---|---|
| `jobber_races` | 2 jobs, 1 runner allowed, 2 process numbers, fork may fail | Wherever the handler strikes: no freed or half-made task is executed (`ExecutesLiveTask`), no runner is started while disabled or quitting (`NoStartWhenForbidden`), no runner slot idles at rest (`WorkConserving`) |
| `jobber_masked` | 2 jobs, 2 runners, 3 numbers | With SIGCHLD held back during commands: active jobs and runners are one to one (`OneRunnerPerActiveJob`), the table tells what runners do although signals merge (`TableTellsProcesses`), and the spooler implements `JobLifecycle` (`FollowsLifecycle`, refinement mapping `life`, `enabled`); under fairness a canceled job ends (`CancelTerminates`) and zombies are reaped (`ZombiesReaped`) |
| `runner` | all pipelines of 1 to 3 commands of 5 kinds, some redirected, some tasks of 2 and 3 pipelines; pipes of 1 unit; `pipe` and `fork` fail; a kill | Commands have the ends they should and no others (`Connected`); pipelines run one after the other and 0 means that all was done (`InTurn`); nobody survives a kill (`KilledWhole`); under fairness a runner whose task can end ends (`RunnerEnds`) |
| `command_line` | every argument of up to 3 pieces of every command, every text of a task of up to 4 pieces and some of 7, quotes, several lines; a buffer that grows from 2 | Lines survive the growing buffer (`LineIntact`), what is done is what was typed (`DoesWhatIsTyped`), the parser agrees with the grammar of `task.h` (`ParsesTasks`) and undoes the printer (`RoundTrip`) |
| `registry` | 3 callers, 3 descriptors, 2 slots | `CountIsOccupied`, `HeldIsRegistered`, `RegisteredOnce`, `SweepEmpties`, with the table full as well |
| `bourse_shutdown` | 3 connections, 2 slots, 1 SIGHUP | `RegisteredAreShutDown`: whoever was registered when the signal came has been shut down when the handler goes on to wait, though threads register and leave meanwhile; it says nothing of those that come later (`NobodyEscapes` below). `ShutdownCompletes`: terminate() comes to its exit. With one signal the handler is on main, which never holds the semaphore; with two it may hang (`bourse_fails`) |
| `trader_single` | 1 connection, words of 2 bits, 6 requests | `AccountsAreCovered` though words and costs wrap, `OneAnswerEach` |
| `rolo_store` | 2 sessions that edit; crashes, failed reads, a menu that cannot be read; SIGINT anywhere but in the writing of a save and behind the last unlink | `OneOwner`, `LockIsHeld` (a lock file without an owner is one of a session that could not unlock), `UpToDate` (no lost update), `SavedUnlessLost` (what was saved is whole on disk, in the gap between the renames too, unless a new rolodex takes its place) |
| `rolo_alone` | 1 user, all modes, all events, SIGINT anywhere | `LockIsHeld`, whatever happens |
| `rolo_list` | 3 links, 3 entries of 2 names, one of which a search can overwrite, all files of up to 2 entries and four of 3; 3 edits, scans 2 deep, no `Habits` | the list holds what was added and not deleted, and reads the same from both ends (`Sound`); `Sorted`; what is not marked as changed is in the file but for what a search overwrites (`ChangedTells`) |
| `rolo_menus` | every call of up to 3 arguments out of 7; every text of up to 5 characters at the menus, up to 8 on the way to a search; 4 entries; lines of 3 characters, ints of 6 bits | each person asked for is shown with the entries that match, in their order, none twice, none left out (`ShowsPeople`); what a menu takes for a response is all that was typed up to a newline, though it may be the tail of a line that was too long (`AnswersEndLines`); the end of the input ends the program, from the main menu on (`EndOfInputEnds`) |
| `transplant` | all trees over 2 names in 3 levels, with empty files; 4 targets; with and without -c | the stream stands for the tree in whatever order it is read (`StreamDescribes`); a tree without empty files and without entries after a directory is copied (`Copied`); without -c nothing that exists changes, even when the reader has lost its way (`NothingOverwritten`) |

The configurations `*_fails.cfg` are run by hand. Each lists properties that a comment,
the help, the manual or a test of the repository states and the code does not have; they
stand at the end of their module, under "What the documentation says and the code does
not do". Every one of them fails, so they are checked one at a time: keep one name in
the INVARIANT or PROPERTY line, then `tlc -config X_fails.cfg M`. The instance is that of
the passing run of the module, or a small one in which all of its properties fail, with
the events, places of SIGINT or habits that the passing run leaves out.

| Configuration (module) | Property | Stated at | What happens |
|---|---|---|---|
| `bourse_fails` (MCBourse) | `ServedIsTracked` | hw5/include/server.h:149-151 | The table is full: creg_register fails, the thread serves its client all the same and no shutdown ever reaches it. |
| | `NobodyEscapes` | hw5/src/main.c:97-98 | A thread takes the semaphore between the sweep and the wait: it is in the table, and terminate() frees the registry under it without having shut it down. |
| | `WaitReturnsEmpty` | hw5/include/client_registry.h:64-66 | A thread registers between the sweep and the wait: creg_wait_for_empty returns, with the semaphore, while the count is one. |
| | `NoUseAfterFini` | hw5/include/client_registry.h:39-40 | The registry is freed while a service thread is in creg_register. |
| | `ExitsWithSuccess` | hw5/tests/bourse_tests.c:66 | A server stopped by SIGHUP exits with the number of the signal. |
| | `ShutdownCompletes` | hw5/src/main.c:41-42 | A second SIGHUP strikes a service thread that holds the semaphore: both handlers wait for it and the server never exits. |
| `command_fails` (MCCommandLine) | `ParsesEveryTask` | hw4/include/task.h:15-16 | A pipeline with both redirections loses the second one. |
| | `ValidatesTasks` | hw4/include/jobber.h:186-188 | A text that is no task is taken by job_create like one that is. |
| | `ActsOnlyOnNamedJob` | hw4/src/main.c:31 | A command whose argument is no number acts on whatever job the stack names. |
| `jobber_fails` (MCJobber) | `OneRunner` | hw4/include/jobber.h:26-27 | A scan has read WAITING; the handler strikes, scans too and starts the job, and the first scan starts it again: two runners for one job. |
| | `CompletedHasTerminated` | hw4/include/jobber.h:45 | The handler polls a job that is RUNNING and has no pgid yet: waitpid(-1) reports another runner, and the job is COMPLETED while its own runner lives. |
| | `CanceledIsPending` | hw4/include/jobber.h:44 | The killed runner is reaped, and the job ended, before job_cancel sets it to CANCELED, in which it then stays. |
| `jobber_masked_fails` (MCJobber) | `RunningHasRunner` | hw4/include/jobber.h:42 | fork fails: the job is RUNNING, with pgid -1 and no process. |
| | `RunnersBounded` | hw4/include/jobber.h:18 | A job created in a freed low slot is started while MAX_RUNNERS runners of later slots exist: the scan has not counted them yet. |
| | `FiniExpungesAll` | hw4/include/jobber.h:157 | A job that waits has no process group: it is not canceled by jobs_fini, and not expunged. |
| | `WasCanceledIsAborted` | hw4/include/jobber.h:285-289 | A runner that has just exited is canceled: the job is COMPLETED, and was canceled. |
| | `QuitReturns` | hw4/include/jobber.h:157 | quit comes before a runner has called setpgrp: its group is not found, it is not killed, and jobs_fini waits for it for ever. |
| `runner_fails` (MCPipelines) | `OwnInput` | hw4/include/task.h:14-15 | A pipeline without a redirection reads the file of one before it. |
| | `NothingLeftBehind` | hw4/include/jobber.h:45 | A runner that cannot fork exits and leaves the commands it has started. |
| `menu_fails` (MCRoloMenus) | `AnswersAreLines` | hw2/include/toolsdir/menu.h:70-71 | The tail of a line that is too long is taken for the next response. |
| | `NumberInRange` | hw2/include/toolsdir/menu.h:142-143 | A field that is not on the list is searched by. |
| | `NumberIsTyped` | hw2/src/toolsdir/ctools.c:564 | A number that is out of range is read as another one. |
| | `NeverImpossible` | hw2/src/options.c:157 | The input ends while a person is shown, and the program stops at a return it calls impossible. |
| | `EveryEndOfInputEnds` | hw2/src/rolo.c:147 | The input ends while a person is shown, and the program shows its help for ever. |
| `trader_fails` (MCTrader) | `WellFramed` | hw5/include/protocol.h:24-26 | Two threads acknowledge at the same time: one announces the payload size of the other, or one in the wrong byte order. |
| | `OneSessionPerName` | hw5/include/trader.h:58 | Two connections log in with one user name, each with an account of its own. |
| | `AnswersAreAsked` | hw5/include/server.h:39-40 | A client asks for its status and closes: the last header is taken for another request, and is answered again. |
| | `HangupIsLocal` | hw5/include/server.h:39-42 | A client goes away before its answer is sent: a second write raises SIGPIPE, which kills the server. |
| | `BroadcastWorks` | hw5/include/trader.h:124 | An order that is covered twice is posted: its broadcast goes through a null pointer. |
| | `NackHasNoEffect` | hw5/include/protocol.h:58 | An order covered once and not twice: the first debit is kept and the answer is NACK. |
| `transplant_fails` (MCTransplant) | `Reconstructs` | hw1/src/transplant.c:522-523 | A tree of which a directory is followed by another entry is not copied: the entry lands in that directory. |
| `rolo_list_fails` (MCRoloList) | `ShownIsLive` | hw2/helplib/escanhelp:2 | A scan within a scan deletes the entry that the outer one shows, and the outer one goes on from it. |
| | `DeletedIsGone` | hw2/helplib/escanhelp:7 | Entries that a scan within a scan has deleted come back when the outer scan goes on to one of them and its update files it again. |
| | `NoChangesToBeSaved` | hw2/src/options.c:259 | A search by a field of the user's overwrites the first character of each such field in memory, and nothing is marked as changed. |
| | `WrittenInOrder` | hw2/src/rolo.c:326 | A name that is changed before another field of the same update leaves the list out of order. |
| | `ScanGoesOn` | hw2/helplib/escanhelp:5 | A scan within a scan takes off the marks of the entries behind it, so that the outer one ends there. |
| `rolo_save_fails` (MCRolo) | `SavedIsOnDisk` | hw2/src/rolo.c:54-55 | A session that starts while another is between the two renames of its save finds no rolodex, and creates one over what was saved. |
| `rolo_full_fails` (MCRolo) | `SavedUnlessLost` | hw2/tests/base_tests.c:84-90 | A save on a full disk is reported as done. |
| `rolo_eof_fails` (MCRolo) | `OneOwner` | hw2/doc/rolo.1:16 | A session that meets the end of its input removes its lock file before it saves, and a second time when it leaves: by then another session may own it. |
| `rolo_interrupt_fails` (MCRolo) | `NoStaleLock` | hw2/src/rolo.c:290-291 | A session that is interrupted between the creation of the lock file and the call of signal leaves the file behind. |
| | `OneOwner` | hw2/doc/rolo.1:16 | A session that is interrupted after roloexit's unlink, before it is gone, removes the lock file of another. |
| | `UpToDate` | hw2/doc/rolo.1:16 | A session that is interrupted in the writing of a save unlocks first and flushes its streams afterwards, into files another session may use. |

### Bounds

* Jobber: two jobs and one permitted runner are the least with a job that waits
  for another's end; two of each, with three process numbers, the least with two
  runners whose reports merge and a number to spare for reuse. `cnt` is bounded by
  the number of slots. Process numbers are symmetric.
* Pipelines: three commands are the least with one that has a neighbour at both
  sides; two pipelines the least with an input that is handed on; a pipe of one unit
  fills and empties. `Capacity` bounds the units in a pipe, `Tasks` the tasks.
* CommandLine: a buffer of 2 grows twice in a line of 7 pieces; a text of up to 4
  pieces has every pair of delimiters with and without spaces about them, and those of
  7 two pairs. `BUFSIZE` is the first size, `Garbage` the values of an unset int.
* RoloMenus: lines of 3 characters hold two of a response, so that "3\n" fits and
  longer ones are cut; with a buffer of 2 `any_char_to_continue` cuts a line before a
  response does, as 80 and 255 do in the code; 6 bits make `MAXINTSTR` two digits long, so that there are numbers
  of as many digits that no int holds. `NFields` of 3 has a last number with
  its own question, `Keys` bounds what is typed.
* Registry and Bourse: two slots for three callers make the table full and leave
  one refused; three connections are the least where one registers before, one
  during and one after the position of the sweep. `MaxHups` bounds the signals: two are
  the least with handlers that sweep at the same time (`bourse_fails`); `RegisteredAreShutDown`
  is proved for any number of them.
* TraderService: words of two bits wrap with two payments, and products of
  amounts wrap too; six requests reach every balance by paying in and out.
  `MaxRequests` bounds requests, `MaxReplays` the turns after end of file.
* RoloStore: two sessions are the least that compete; six inodes are the four
  names and one renamed-over file per session that is still open, so one is
  always free. `Edits` bounds the edits, two in one session or one in each.
  `Interrupts` of `rolo_store` leaves out three places, with each of which the code
  breaks a property: `rolo_interrupt_fails` has them. It has no files
  that cannot be opened, which make the instance fourteen times as large without any new
  failure; `rolo_alone` and the theorems have them.
* RoloList: `MaxLinks` of 3 has a first, a middle and a last entry; `MaxEdits` of 3
  is the least with which a user who deletes what an outer scan shows refutes `ShownIsLive`, so that what
  `rolo_list` rules out is within its bounds; `Depth` of 2 is a scan within a scan;
  the premise of the proofs about the list, that nothing is deleted which an outer scan
  shows, is the code's to keep and it does not: within these bounds `Sound` survives
  without it, and with a fourth link and a fourth edit it fails, as does `DeletedIsGone`
  (`rolo_list_fails`).
  `MaxMatches` of 2 (17 in the code) makes all outcomes of a search occur: none,
  one, a short list, too many.
* Transplant: three levels and two names are the least with an entry before and
  after a directory at two depths; a target may be missing, empty, or have a file
  or a directory in the way.

### Fairness

`Jobber!Fairness`: weak fairness of main's and the handler's steps, because a
process that can run is scheduled; weak fairness of `setpgrp` in a runner and of
the death of a SIGKILLed process, for the same reason; strong fairness of the
delivery of SIGCHLD at the prompt, because `sf_readline` returns to pselect with
SIGCHLD unmasked again and again, and a pending signal is delivered then. Typing
commands and the ends and stops of runners are not fair. `Bourse!Fairness`: weak fairness of each
service thread and of each handler. Arrivals of connections and signals are not
fair. `Pipelines!Fairness`: weak fairness of the runner and of each command, which
are processes; a kill, a failing `pipe` or `fork` and an early end of a command are
not fair. `RoloMenus!FairSpec`: weak fairness of the program; nobody has to type.
CommandLine, RoloStore, RoloList and Transplant have no liveness property.

Deadlock is checked except where the program stops: RegistrySpec (a finalized
registry, or a caller that left with the semaphore), the counterexamples to
shutdown, RoloStore, where all sessions may be over with all edits made, and
Pipelines, CommandLine, RoloMenus, RoloList and Transplant, where a runner, a
program or a session ends.

## 4. What is proved

TLAPS, SMT and Zenon; the temporal steps by LS4. No obligation is open.

| Theorem | Statement | Argument |
|---|---|---|
| `JobberTypeOK`, `JobberExecutesLiveTask` | `Spec => []TypeOK`, `[]ExecutesLiveTask` | `IInv` of JobberProofs: the types, the property, that jobs are enabled while a frame scans or starts, and that no handler is left on top of `jobs_fini`. The properties are not inductive alone: that a slot is not freed or half made under a handler in `execute_job` depends on who is suspended where |
| `JobberNoStartWhenForbidden` | `Spec => NoStartWhenForbidden` | from `IInv`, whose part `LaunchEnabled` says that a frame past the test of `enable` still finds it set: the handler runs to its end before main goes on |
| `JobberWorkConserving` | `Spec => []WorkConserving` | `WInv` upon `IInv`: the jobs a frame has counted are active and lie below its index, and none that it has passed waits (`ScanTold`), unless a handler struck: then the handler's own scan has left nothing to start (`Clean`). So main may go on with a stale count, and the prompt is still reached with every runner used or no job waiting |
| `JobberFollowsLifecycle` | `MaskedSpec => FollowsLifecycle` | refinement: `MInv` (the handler is active only on top of the prompt; the status a frame has read still holds when it acts; a job that never started has no group to kill; the runner of a job that was sent SIGKILL runs no more) makes every step a lifecycle step or a stutter |
| `PInvHolds`, `RunnerConnected`, `RunnerInTurn`, `RunnerKilledWhole` | `Spec => []PInv`, `[]Connected`, `[]InTurn`, `[]KilledWhole` of Pipelines | `PInv` of PipelinesProofs: where the runner is tells which commands are to come, which are there and which are reaped (`Progress`), and which ends it holds (`RunnerHolds`); a command has what the runner held at its fork, less what it has closed on its way to `execvp` (`ChildHolds`); every command is in the group of the runner from its fork on, whoever of the two sets it next (`Grouped`): the runner has made its group before the first fork, so that neither `setpgid` takes a command out of it. `Connected` is not inductive alone: what a command has open when it runs depends on what the runner had open when it forked |
| `RegistryTyped`, `RegistryCountIsOccupied` | `RegistrySpec => []...` | `IInv` of BourseProofs: at most one caller inside; the count is the number of occupied slots, off by one exactly while the caller inside is between the two assignments; a found slot is free, or holds the descriptor |
| `RegistryRegisteredOnce`, `RegistryHeldIsRegistered`, `RegistrySweepEmpties` | `RegistrySpec => []RegisteredOnce`, `[]HeldIsRegistered`, `SweepEmpties` | `DInv` upon `IInv`: a descriptor has one caller at a time, who alone enters and removes it; a caller that has registered and not yet left is in the table; behind the index of a sweep the table is empty |
| `TraderAccountsAreCovered` | `ServiceSpec => []AccountsAreCovered` | `AInv`: types and the property; a wrapping sum is never above the true one, a debit that is covered is exact, and the cost of an order is at most the true product |
| `TraderOneAnswerEach` | `ServiceSpec => []OneAnswerEach` | `QInv`: at each place of the loop a thread owes the answer to its last request, or none; every branch that honours a packet comes to a place where one is owed |
| `JobberTableTellsProcesses` | `MaskedSpec => []TableTellsProcesses`, if forks succeed (`ForksSucceed`: fork does not fail, and there are as many process numbers as jobs) | `RInv` upon `MInv`: a process is recorded with its job, or is in the variable of the frame that forked it; a number that is free exists by the pigeonhole principle. `TInv` upon `RInv`: what the table does not tell of a runner is announced by the pending SIGCHLD, or is of a job the handler has yet to poll, or of the job being canceled; an unreported event is the last thing that happened |
| `CommandLineIntact` | `Spec => []LineIntact` of CommandLine | `LInv` of CommandLineProofs: while a line is read the buffer is what was typed since the line was begun, and a line begins behind a newline or at the end of the input, where nothing is carried out any more; the allocated buffer is as large as the variable says, or a `realloc` has failed and the line ends in the buffer as it was, which has room for what was read before and the terminator |
| `CommandLineRoundTrip` | `Spec => []RoundTrip` | `TaskInv` upon `LInv`: what is spooled is a text, and the task what is parsed of it. A task is *laid out* in a text when there are positions where its words, paths and signs are, with only spaces between (`WordsLaid`, `CommandsLaid`, `IsPipe`, `TaskLaid`). `ReadsTask`: of such a text the parser reads that task, by induction from the end of each list; `PrintedTask`: the text `unparse_task` joins is such a text. That a parsing function is what its recursion says is `Descent`: each call is further on in the text |
| `CommandLineParsesTasks` | `Spec => []ParsesTasks` | `ReadsTask` again: a text that is split as the grammar says is divided at positions of its own (`Divides`), so the words, commands, redirections and pipelines of the split text are laid out in it (`TaskFound`), provided no pipeline is redirected twice |
| `CommandLineDoesWhatIsTyped` | `Spec => DoesWhatIsTyped`, whatever is typed | the words from a position on, delimiters taken for spaces (`Remaining`): each parsing function takes from them the words it returns and leaves those from where it leaves off (`Gives`), so a text that is parsed to its end has the words of its task (`TaskHasTheWords`), which `RemainingAll` identifies with those of the grammar. A split text that has one part is that part (`OnePart`): the one token is the text without its quotes, the argument of a command its digits, which `%d` reads to their end (`ArgumentIsScanned`) |
| `NonOptionArgsAreFirst` | what `non_option_arg` and `n_non_option_args` tell, once `get_args` has taken the arguments, are those before the first option, each at its place | `Parsed`, argument by argument: up to the first option none is associated with one, and behind it every one is, since `dash` never returns to "none" |
| `RoloMenusShowsPeople` | `Spec => []ShowsPeople` | `LookInv`: the search is for one of the arguments asked for, which `NonOptionArgsAreFirst` identifies; all that was shown is in turn and before the place it is at; an entry that matches and was not shown is further on, or the user has left (`Excused`). `PersonMatches`: comparing at every offset that fits is finding the name in capitals as a part. The property is not inductive alone: at the menu it speaks of entries not yet shown |
| `RoloMenusAnswersEndLines` | `Spec => AnswersEndLines`, for buffers of any length | `TextInv`: what is left is an end of what was typed, cut at the beginning of a line, or at least `TooLong` characters behind it. `ReadEnds` says where each read stops: behind a newline, at the end, or behind as many characters as its buffer takes (`GetLineLeaves`, `FgetsLeaves`); `LineIs`: what a response takes is a line, with its newline unless it is the last |
| `BourseCountIsOccupied` | `Spec => []CountIsOccupied` in Bourse, until the registry is freed | each step of the server is a use of the registry as its header describes, a step in it, or leaves it alone (`StepOfServer`), so `IInv` and `DInv` hold there |
| `BourseRegisteredAreShutDown` | `Spec => []RegisteredAreShutDown`, until the registry is freed | `WInv` upon `IInv` and `DInv`: of those that were due when the signal came, who has not been shut down is still in the table, at or before the index of the sweep; another sweep that takes a descriptor out has shut it down |
| `RoloOneOwner` | `Spec => []OneOwner`, if no input ends (`eof`) and no SIGINT comes behind the last unlink | `OwnerInv`: an owner is a running session that has its lock file, so a stale lock that is removed belongs to nobody |
| `RoloUpToDate` | `Spec => []UpToDate`, if besides all sessions lock or only read, the disk is not full and no SIGINT comes in the writing of a save (`Careful`) | `SyncInv`: which stream is open on which file, and what each file holds, at each place of a save; only owners get to places that write, and names of different files have different inodes |
| `RoloSavedUnlessLost` | `Spec => []SavedUnlessLost`, from the same premises | `Kept` upon `SyncInv`: what was saved is under the rolodex's name or, between the two renames and after a crash there, under the backup's, until a session that found no rolodex creates one and a save takes that one for the backup |
| `RoloLockIsHeld` | `Spec => []LockIsHeld`, without a premise | `HeldInv`: an owner has a lock file or has lost it to another; a session that is gone has removed its lock or is recorded in `abandoned`; one that has not got to `Lock` has none |
| `ListSound`, `ListSorted`, `ListTyped` | `Spec => []Sound`, `[]Sorted`, `[]TypeOK` of RoloList, if the user deletes nothing that an outer scan shows and asks for no match 0 (`Habits = {}`) | `ListInv`: `next` and `prev` link up one sequence of links, forwards and backwards (`Linked`), which holds exactly the live entries (`Holds`) and is in order of the names unless an entry was misfiled; every frame shows a live entry (`Framed`). `Insert` and `Delete` turn this sequence into one with a link more or less (`Placed`, `Removed`); that the code's walk along the pointers (`Chain`, `Reach`) is the sequence is an induction over its places |
| `ListChangedTells` | `Spec => []ChangedTells`, from the same premise | upon `ListInv`, every action's effect on list, entries, file and `changed`: a search by a field of the user's leaves the list alike but for what it overwrites (`Alike`), and everything else that changes an entry or the list sets `changed` |
| `TransplantNothingOverwritten` | `Spec => NothingOverwritten` | each step of the reader: what it makes did not exist, or -c was given |
| `TransplantStreamDescribes` | `Spec => []StreamDescribes` | `WriterInv`: the open directories lie one in the other, and what they have still to give is what the stream has not told (`Progress`); what the records sent so far mean, read one after the other, is the part of the source visited, with the writer's own path and depth (`Meaning`) |
| `TransplantCopied` | `Spec => []Copied` | `CopyInv` upon `WriterInv`: the stream is a script of groups of units, one for each thing visited, each with its path and with what was written before it; the reader is before a group, inside one, at the start or at the end, and has made exactly what the groups behind it tell (`Copying`). Without empty files and until an entry follows a directory its path is that of the group |

The theorems hold for every value of the constants that the modules' ASSUMEs
admit: any number of jobs, runners, callers, slots, connections, sessions, any
word size, sessions, pipelines and lists of any length, trees of any depth. The premises that
remain are necessary, and TLC shows what happens without each: `rolo_eof_fails` and
`rolo_interrupt_fails` for `RoloOneOwner`, these, `rolo_full_fails` and `rolo_save_fails`
for what is saved, `rolo_list_fails` for the list, `jobber_fails` and `RunningHasRunner` of
`jobber_masked_fails` for what is proved of `MaskedSpec`. So a theorem with such a premise
says how far the program goes, not that it is safe without it.

Every safety and action property that a passing run checks is proved. Only model-checked are
the liveness properties (`CancelTerminates`, `ZombiesReaped`, `RunnerEnds`, `ShutdownCompletes`,
`EndOfInputEnds`), because liveness under fairness and ENABLED are beyond the prover.
The induction theorems of the library cannot be used, since they take an operator as a
parameter. Where data is followed step by step (the links of a list, the units of a
stream, the pieces of a text) the proofs use induction over a set of numbers instead,
which follows from the facts about finite sets, and the operators of the model are
recursive functions on an interval rather than RECURSIVE operators; so are `Joined`,
`Split` and `Without` of TaskSyntax, `NumberOf` of CommandLine, and `SetOptions` and `GetArgs` of Args. The set `Pieces` of CommandLineProofs names the
literals of the code beside STRING, because the provers do not know that a literal is
a string.

## 5. Not modelled

hw0 prints its arguments, and every function of hw3's allocator is a stub: there is
nothing to model. The exchange of hw5 is a binary library, csapp a textbook's wrappers
of system calls: they are in the model by what their callers see of them. Of hw4, the
freeing of tasks; of hw2, the fields that `rolo_add` asks for, the chunk allocator,
the terminal, and the tools nobody calls. Memory errors that change no modelled state
(the returned stack buffers of `job_get_taskspec` and `job_desc`, `copystr`'s missing
byte, a record without its last newline) are left out, as are transplant's limits of
`path_buf`, its sizes and modes and unreadable sources, and async-signal-safety inside
the allocator. What the exchange does with orders, packets of types no client may
send and packets cut short are outside TraderService.

`PROJECT.json` lists the hazards, each with the properties that catch it; where the code
simply does the wrong thing its note names the property of a `*_fails.cfg` that states what
should be, and nothing weaker is checked in its place.

## 6. Plan

Models: the runner composed with the spooler's signals to its group, stops and
continuations included; `trader_logout` and reference counts, should the server
come to call them; the questions of `rolo_add`.
