----------------------------- MODULE Pipelines ------------------------------
(***************************************************************************)
(* The runner of a job of hw4: the process execute_job forks, which        *)
(* carries out the pipelines of a task one after the other, and            *)
(* execute_pipeline, which forks a process for each command, joined by     *)
(* pipes (src/hw4/src/jobs.c).                                             *)
(*                                                                         *)
(* A descriptor refers to an end of a channel, <<p, k, side>>: of the pipe *)
(* that follows command k of pipeline p, of the file that pipeline p is    *)
(* redirected to when k is 0, or of what the spooler gave its runner when  *)
(* p is 0.  The descriptors other than 0 and 1 of a process are the set of *)
(* the ends they refer to.                                                 *)
(*                                                                         *)
(* A command is whatever execvp starts; it is modelled by when it reads,   *)
(* writes and ends:                                                        *)
(*   "source"   writes a unit and ends                                     *)
(*   "endless"  writes for ever                                            *)
(*   "filter"   writes what it reads and ends when there is no more        *)
(*   "head"     reads a unit, or that there is none, and ends              *)
(*   "none"     cannot be executed                                         *)
(* Only pipes carry data: files and the standard input of the spooler are  *)
(* at their end.                                                           *)
(***************************************************************************)
EXTENDS Naturals, Sequences

CONSTANTS
  Tasks,     \* sequences of pipelines [cmds, input, output]
  Capacity,  \* bound: the units a pipe holds
  Failures   \* what the kernel may refuse: "pipe", "fork"

Kinds == {"source", "endless", "filter", "head", "none"}

\* a pipeline has commands; a file it names can be opened or not
ASSUME PipelinesAssumption ==
  /\ Capacity \in Nat \ {0}
  /\ Failures \subseteq {"pipe", "fork"}
  /\ \A t \in Tasks :
       /\ t \in Seq([cmds : Seq(Kinds), input : {"given", "file", "missing"},
                     output : {"given", "file", "missing"}])
       /\ \A p \in DOMAIN t : t[p].cmds # <<>>

VARIABLES
  task,
  pl,      \* the pipeline the runner is at
  idx,     \* cmd_idx, from 1
  pc,      \* the runner: "next", "input", "pipe", "fork", "parent", "close",
           \* "wait", "done"
  status,  \* how it ended: "not", "0", "failure", "killed"
  grouped, \* it has called setpgrp
  pgid,    \* what pgid_ptr points at: a process, or NoGroup
  input,   \* its descriptor 0
  held,    \* its other descriptors
  curr,    \* the pipe in curr_fd
  prev,    \* the pipe in prev_fd
  place,   \* place[c]: "to come", "group", "in", "out", "runs", "ended",
           \* "reaped"
  group,   \* group[c]: the leader of its process group, or NoGroup
  stdin,   \* stdin[c], stdout[c], ends[c]: its descriptors
  stdout,
  ends,
  has,     \* has[c]: it has a unit to write
  data     \* data[c]: the units in the pipe that follows c

runner == <<pl, idx, pc, status, grouped, pgid, input, held, curr, prev>>
descriptors == <<stdin, stdout, ends>>
vars == <<task, runner, place, group, descriptors, has, data>>

CommandsOf(t) == UNION {{<<p, k>> : k \in DOMAIN t[p].cmds} : p \in DOMAIN t}
Commands == CommandsOf(task)
Kind(c) == task[c[1]].cmds[c[2]]

Given(side) == <<0, 0, side>>
File(p, side) == <<p, 0, side>>
PipeEnd(c, side) == <<c[1], c[2], side>>
IsPipeEnd(e) == e[2] > 0
PipeOf(e) == <<e[1], e[2]>>

Alive(c) == place[c] \in {"group", "in", "out", "runs"}

\* A process is named by its command, the runner is Self.  NoGroup is 0 in pgid, and
\* as a group that of the spooler.
Self == <<0, 0>>
NoGroup == <<>>

\* some process can still use that end
IsOpen(e) ==
  \/ pc # "done" /\ (e \in held \/ e = input)
  \/ \E c \in Commands : Alive(c) /\ e \in ends[c] \cup {stdin[c], stdout[c]}

-----------------------------------------------------------------------------
(* The runner.                                                             *)

Pipeline == task[pl]
HasNext == idx < Len(Pipeline.cmds)
Both(c) == {PipeEnd(c, "r"), PipeEnd(c, "w")}
Goto(loc) == pc' = loc

\* exit(3)
Exits(how) ==
  /\ pc' = "done" /\ status' = how
  /\ UNCHANGED <<pl, idx, grouped, pgid, input, held, curr, prev>>

NextPipeline_ForgetsGroup ==
  /\ pc = "next"
  /\ \/ pl \notin DOMAIN task /\ Exits("0")
     \/ /\ pl \in DOMAIN task
        /\ grouped' = TRUE
        /\ idx' = 1 /\ curr' = 0 /\ prev' = 0
        /\ Goto("input")
        /\ UNCHANGED <<pl, status, pgid, input, held>>
  /\ UNCHANGED <<task, place, group, descriptors, has, data>>

\* The loop of execute_job.  The first time the runner makes a group of its own; then
\* it joins the group it is in.
NextPipeline ==
  /\ pc = "next"
  /\ \/ pl \notin DOMAIN task /\ Exits("0")
     \/ /\ pl \in DOMAIN task
        /\ IF pgid = NoGroup THEN grouped' = TRUE /\ pgid' = Self
           ELSE UNCHANGED <<grouped, pgid>>
        /\ idx' = 1 /\ curr' = 0 /\ prev' = 0
        /\ Goto("input")
        /\ UNCHANGED <<pl, status, input, held>>
  /\ UNCHANGED <<task, place, group, descriptors, has, data>>

\* the file becomes the standard input of the runner itself
Input ==
  /\ pc = "input"
  /\ \/ Pipeline.input = "missing" /\ Exits("failure")
     \/ /\ Pipeline.input # "missing"
        /\ input' = IF Pipeline.input = "file" THEN File(pl, "r") ELSE input
        /\ Goto("pipe")
        /\ UNCHANGED <<pl, idx, status, grouped, pgid, held, curr, prev>>
  /\ UNCHANGED <<task, place, group, descriptors, has, data>>

\* the loop of execute_pipeline
Pipe ==
  /\ pc = "pipe"
  /\ \/ HasNext /\ "pipe" \in Failures /\ Exits("failure")
     \/ /\ IF HasNext THEN held' = held \cup Both(<<pl, idx>>) /\ curr' = idx
           ELSE UNCHANGED <<held, curr>>
        /\ Goto(IF idx \in DOMAIN Pipeline.cmds THEN "fork" ELSE "close")
        /\ UNCHANGED <<pl, idx, status, grouped, pgid, input, prev>>
  /\ UNCHANGED <<task, place, group, descriptors, has, data>>

Fork ==
  /\ pc = "fork"
  /\ LET c == <<pl, idx>> IN
     \/ "fork" \in Failures /\ Exits("failure") /\ UNCHANGED <<place, group, descriptors>>
     \/ /\ place' = [place EXCEPT ![c] = "group"]
        /\ group' = [group EXCEPT ![c] = IF grouped THEN Self ELSE NoGroup]
        /\ stdin' = [stdin EXCEPT ![c] = input]
        /\ ends' = [ends EXCEPT ![c] = held]
        /\ Goto("parent")
        /\ UNCHANGED <<pl, idx, status, grouped, pgid, input, held, curr, prev, stdout>>
  /\ UNCHANGED <<task, has, data>>

\* The parent puts the child it has forked into the group too, unless the child runs
\* something else already, or is gone.
Grouping ==
  LET c == <<pl, idx>> IN
  /\ pgid' = IF pgid = NoGroup THEN c ELSE pgid
  /\ group' = IF place[c] \in {"group", "in", "out"} THEN [group EXCEPT ![c] = pgid']
              ELSE group

Parent_KeepsPipe ==
  /\ pc = "parent"
  /\ Grouping
  /\ prev' = IF HasNext THEN curr ELSE prev
  /\ idx' = idx + 1
  /\ Goto("pipe")
  /\ UNCHANGED <<task, pl, status, grouped, input, held, curr, place, descriptors,
                 has, data>>

Parent ==
  /\ pc = "parent"
  /\ Grouping
  /\ held' = IF idx > 1 THEN held \ Both(<<pl, prev>>) ELSE held
  /\ prev' = IF HasNext THEN curr ELSE prev
  /\ idx' = idx + 1
  /\ Goto("pipe")
  /\ UNCHANGED <<task, pl, status, grouped, input, curr, place, descriptors, has,
                 data>>

\* once more what is closed already
Close ==
  /\ pc = "close"
  /\ held' = IF Len(Pipeline.cmds) > 1 THEN held \ Both(<<pl, prev>>) ELSE held
  /\ Goto("wait")
  /\ UNCHANGED <<task, pl, idx, status, grouped, pgid, input, curr, prev, place, group,
                 descriptors, has, data>>

Forked == {c \in Commands : place[c] \notin {"to come", "reaped"}}

Wait_ForOne ==
  /\ pc = "wait"
  /\ \E c \in Forked :
       /\ place[c] = "ended"
       /\ place' = [place EXCEPT ![c] = "reaped"]
       /\ pl' = pl + 1 /\ Goto("next")
  /\ UNCHANGED <<task, idx, status, grouped, pgid, input, held, curr, prev, group,
                 descriptors, has, data>>

\* waitpid(-1) until there is no child
Wait ==
  /\ pc = "wait"
  /\ \/ /\ \E c \in Forked :
             place[c] = "ended" /\ place' = [place EXCEPT ![c] = "reaped"]
        /\ UNCHANGED <<pl, pc>>
     \/ Forked = {} /\ pl' = pl + 1 /\ Goto("next") /\ UNCHANGED place
  /\ UNCHANGED <<task, idx, status, grouped, pgid, input, held, curr, prev, group,
                 descriptors, has, data>>

Runner ==
  NextPipeline \/ Input \/ Pipe \/ Fork \/ Parent \/ Close \/ Wait

-----------------------------------------------------------------------------
(* A command: the child in execute_pipeline, and what it becomes.          *)

IsLast(c) == c[2] = Len(task[c[1]].cmds)
Moves(c, loc) == place' = [place EXCEPT ![c] = loc]

\* The child has the pgid of the runner when it forked: what it would find there now
\* is that, or itself.
SetGroup(c) ==
  /\ place[c] = "group" /\ Moves(c, "in")
  /\ group' = [group EXCEPT ![c] = IF pgid = NoGroup THEN c ELSE pgid]
  /\ UNCHANGED <<task, runner, descriptors, has, data>>

\* prev_fd and curr_fd are those of the runner when it forked
SetIn(c) ==
  /\ place[c] = "in" /\ Moves(c, "out")
  /\ LET before == <<c[1], c[2] - 1>> IN
     \/ c[2] = 1 /\ UNCHANGED <<stdin, ends>>
     \/ /\ c[2] > 1
        /\ stdin' = [stdin EXCEPT ![c] = PipeEnd(before, "r")]
        /\ ends' = [ends EXCEPT ![c] = @ \ Both(before)]
  /\ UNCHANGED <<task, runner, group, stdout, has, data>>

\* execvp, which may fail
Executes(c) ==
  IF Kind(c) = "none" THEN Moves(c, "ended") /\ UNCHANGED has
  ELSE Moves(c, "runs") /\ has' = [has EXCEPT ![c] = Kind(c) \in {"source", "endless"}]

SetOut_KeepsEnd(c) ==
  /\ place[c] = "out"
  /\ \/ /\ ~IsLast(c) /\ Executes(c)
        /\ stdout' = [stdout EXCEPT ![c] = PipeEnd(c, "w")]
        /\ ends' = [ends EXCEPT ![c] = @ \ {PipeEnd(c, "w")}]
     \/ /\ IsLast(c) /\ Executes(c)
        /\ UNCHANGED <<stdout, ends>>
  /\ UNCHANGED <<task, runner, group, stdin, data>>

\* the file of the output is left open beside descriptor 1
SetOut(c) ==
  /\ place[c] = "out"
  /\ LET output == task[c[1]].output IN
     \/ /\ ~IsLast(c) /\ Executes(c)
        /\ stdout' = [stdout EXCEPT ![c] = PipeEnd(c, "w")]
        /\ ends' = [ends EXCEPT ![c] = @ \ Both(c)]
     \/ /\ IsLast(c) /\ output = "given" /\ Executes(c)
        /\ UNCHANGED <<stdout, ends>>
     \/ /\ IsLast(c) /\ output = "file" /\ Executes(c)
        /\ stdout' = [stdout EXCEPT ![c] = File(c[1], "w")]
        /\ ends' = [ends EXCEPT ![c] = @ \cup {File(c[1], "w")}]
     \/ /\ IsLast(c) /\ output = "missing" /\ Moves(c, "ended")
        /\ UNCHANGED <<stdout, ends, has>>
  /\ UNCHANGED <<task, runner, group, stdin, data>>

Reads(c) == Kind(c) \in {"filter", "head"} /\ ~has[c]
Source(c) == PipeOf(stdin[c])
Sink(c) == PipeOf(stdout[c])

\* what it does with a unit it has read
ReadUnit(c) ==
  /\ place[c] = "runs" /\ Reads(c)
  /\ IsPipeEnd(stdin[c]) /\ data[Source(c)] > 0
  /\ data' = [data EXCEPT ![Source(c)] = @ - 1]
  /\ \/ Kind(c) = "head" /\ Moves(c, "ended") /\ UNCHANGED has
     \/ Kind(c) = "filter" /\ has' = [has EXCEPT ![c] = TRUE] /\ UNCHANGED place
  /\ UNCHANGED <<task, runner, group, descriptors>>

\* the end of a pipe is noticed when nobody can write to it any more
ReadEnd(c) ==
  /\ place[c] = "runs" /\ Reads(c)
  /\ IsPipeEnd(stdin[c]) =>
       data[Source(c)] = 0 /\ ~IsOpen(PipeEnd(Source(c), "w"))
  /\ Moves(c, "ended")
  /\ UNCHANGED <<task, runner, group, descriptors, has, data>>

\* a write waits for room, unless nobody can read any more: SIGPIPE
Write(c) ==
  /\ place[c] = "runs" /\ has[c]
  /\ \/ /\ IsPipeEnd(stdout[c]) /\ ~IsOpen(PipeEnd(Sink(c), "r"))
        /\ Moves(c, "ended") /\ UNCHANGED <<has, data>>
     \/ /\ \/ ~IsPipeEnd(stdout[c]) /\ UNCHANGED data
           \/ /\ IsPipeEnd(stdout[c]) /\ IsOpen(PipeEnd(Sink(c), "r"))
              /\ data[Sink(c)] < Capacity
              /\ data' = [data EXCEPT ![Sink(c)] = @ + 1]
        /\ has' = [has EXCEPT ![c] = Kind(c) = "endless"]
        /\ IF Kind(c) = "source" THEN Moves(c, "ended") ELSE UNCHANGED place
  /\ UNCHANGED <<task, runner, group, descriptors>>

Command(c) ==
  SetGroup(c) \/ SetIn(c) \/ SetOut(c) \/ ReadUnit(c) \/ ReadEnd(c) \/ Write(c)

-----------------------------------------------------------------------------
\* killpg of the spooler, for the group whose leader is the runner
Kill ==
  /\ grouped /\ pc # "done"
  /\ Exits("killed")
  /\ place' = [c \in DOMAIN place |-> IF Alive(c) /\ group[c] = Self THEN "ended"
                                    ELSE place[c]]
  /\ UNCHANGED <<task, group, descriptors, has, data>>

Init ==
  /\ task \in Tasks
  /\ pl = 1 /\ idx = 1 /\ pc = "next" /\ status = "not" /\ grouped = FALSE
  /\ pgid = NoGroup
  /\ input = Given("r") /\ held = {} /\ curr = 0 /\ prev = 0
  /\ place = [c \in Commands |-> "to come"]
  /\ group = [c \in Commands |-> NoGroup]
  /\ stdin = [c \in Commands |-> Given("r")]
  /\ stdout = [c \in Commands |-> Given("w")]
  /\ ends = [c \in Commands |-> {}]
  /\ has = [c \in Commands |-> FALSE]
  /\ data = [c \in Commands |-> 0]

Next == Runner \/ (\E c \in Commands : Command(c)) \/ Kill

Spec == Init /\ [][Next]_vars

\* every process that can go on is scheduled
Fairness ==
  /\ WF_vars(Runner)
  /\ \A c \in UNION {CommandsOf(t) : t \in Tasks} : WF_vars(c \in Commands /\ Command(c))
FairSpec == Spec /\ Fairness

-----------------------------------------------------------------------------
(* Properties.                                                             *)

\* A command is connected to its neighbours, to the files of its pipeline and to
\* nothing else: no end of a pipe has been left open in it, whatever the order of
\* the descriptor operations of the runner and of the commands before it.
Connected ==
  \A c \in Commands : place[c] = "runs" =>
    LET p == c[1]
        first == c[2] = 1
    IN /\ ~first => stdin[c] = <<p, c[2] - 1, "r">>
       /\ first /\ task[p].input = "file" => stdin[c] = File(p, "r")
       /\ first /\ (\A q \in 1..p : task[q].input = "given") => stdin[c] = Given("r")
       /\ stdout[c] = IF ~IsLast(c) THEN PipeEnd(c, "w")
                      ELSE IF task[p].output = "file" THEN File(p, "w") ELSE Given("w")
       /\ \A e \in ends[c] : ~IsPipeEnd(e)

\* The pipelines are carried out one after the other: no command of one is there
\* while a command of an earlier one has not ended; and when the runner says that it
\* has done its task, every command was started and has ended.
InTurn ==
  /\ \A c, d \in Commands : c[1] < d[1] /\ place[d] # "to come" => ~Alive(c)
  /\ status = "0" => \A c \in Commands : place[c] = "reaped"

\* A job that is killed is killed whole, whenever that happens: the spooler kills the
\* group of the runner, and no command that has been forked is in another one, though
\* runner and child both set it (or inherit it) in an order nobody knows.
KilledWhole == status = "killed" => \A c \in Commands : ~Alive(c)

\* every command that never ends by itself writes, at last, to one that stops reading
Finite(p) ==
  \A k \in DOMAIN task[p].cmds :
    task[p].cmds[k] = "endless" =>
      \E h \in DOMAIN task[p].cmds :
        h > k /\ task[p].cmds[h] \in {"head", "source", "none"}

\* A runner ends, and so makes place for the next job, if its task can be done: each
\* reader notices that there is no more, each writer that nobody reads any more.
RunnerEnds == (\A p \in DOMAIN task : Finite(p)) => <>(pc = "done")

-----------------------------------------------------------------------------
(* What the documentation says and the code does not do.                   *)

\* task.h:15 and 20: an input redirection belongs to its pipeline, and a pipeline that
\* has none reads what the spooler gave its runner.
OwnInput ==
  \A c \in Commands :
    place[c] = "runs" /\ c[2] = 1 /\ task[c[1]].input = "given" => stdin[c] = Given("r")

\* jobber.h:45: a job whose runner has exited is COMPLETED, "Terminated normally", so
\* that nothing of its task is still running.
NothingLeftBehind == status \in {"0", "failure"} => \A c \in Commands : ~Alive(c)

=============================================================================
