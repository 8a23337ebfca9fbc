-------------------------- MODULE PipelinesProofs ---------------------------
(***************************************************************************)
(* Theorems about module Pipelines, for every set of tasks: pipelines of   *)
(* any length, any number of them, and any failures of the kernel.         *)
(*                                                                         *)
(* The runner forks the commands of a pipeline in their order and leaves   *)
(* it when all are reaped; so a command is reaped before its turn is over, *)
(* and not forked before it (Progress).  What a command has open is what   *)
(* the runner had at its fork, less what the command closes on its way to  *)
(* execvp (RunnerHolds, ChildHolds).                                       *)
(***************************************************************************)
EXTENDS Pipelines, TLAPS

Working == {"pipe", "fork", "parent", "close", "wait"}
Locations == {"next", "input", "done"} \cup Working
Places == {"to come", "group", "in", "out", "runs", "ended", "reaped"}
AnEnd == Nat \X Nat \X {"r", "w"}

PTypeOK ==
  /\ task \in Tasks
  /\ pl \in Nat \ {0} /\ idx \in Nat \ {0}
  /\ pc \in Locations
  /\ status \in {"not", "0", "failure", "killed"}
  /\ curr \in Nat /\ prev \in Nat
  /\ input \in AnEnd /\ held \subseteq AnEnd
  /\ place \in [Commands -> Places]
  /\ grouped \in BOOLEAN /\ group \in [Commands -> {Self, NoGroup}]
  /\ stdin \in [Commands -> AnEnd] /\ stdout \in [Commands -> AnEnd]
  /\ ends \in [Commands -> SUBSET AnEnd]

\* Where the runner is, and that it ends once.
Located ==
  /\ pc \in {"input"} \cup Working => pl \in DOMAIN task
  /\ pc \in {"fork", "parent"} => idx \in DOMAIN Pipeline.cmds
  /\ pc \in {"close", "wait"} => idx > Len(Pipeline.cmds)
  /\ pc = "input" => idx = 1
  /\ status # "not" => pc = "done"
  /\ status = "0" => pl \notin DOMAIN task

\* The commands before the one the runner is at have been forked, those of the
\* pipelines before have been reaped, and the others are still to come.
Progress ==
  \A c \in Commands :
    /\ c[1] < pl => place[c] = "reaped"
    /\ c[1] > pl => place[c] = "to come"
    /\ c[1] = pl /\ pc \in Working =>
         (c[2] < idx \/ (pc = "parent" /\ c[2] = idx) => place[c] # "to come")
    /\ c[1] = pl /\ (pc \in {"next", "input"} \/ (pc = "fork" /\ c[2] = idx)
                      \/ (pc \in Working /\ c[2] > idx) \/ (pc = "pipe" /\ c[2] = idx))
         => place[c] = "to come"

\* The runner has a group of its own before it forks, and who has been forked is in it,
\* whether runner or child has put it there or it was born in it; so a kill ends all.
Grouped ==
  /\ pgid = IF grouped THEN Self ELSE NoGroup
  /\ pc \in {"input"} \cup Working => grouped
  /\ \A c \in Commands : place[c] # "to come" => grouped /\ group[c] = Self
  /\ status = "killed" => \A c \in Commands : ~Alive(c)

\* the pipes beside command k of pipeline p of task t
PipesOf(t, p, k) ==
  (IF k > 1 THEN Both(<<p, k - 1>>) ELSE {})
    \cup (IF k < Len(t[p].cmds) THEN Both(<<p, k>>) ELSE {})

RunnerHolds ==
  /\ pc \in {"next", "input", "close", "wait"} => held = {}
  /\ pc = "pipe" =>
       held = IF idx \in 2..Len(Pipeline.cmds) THEN Both(<<pl, idx - 1>>) ELSE {}
  /\ pc \in {"fork", "parent"} => held = PipesOf(task, pl, idx)
  /\ pc \in {"pipe", "fork", "parent"} /\ idx \in 2..Len(Pipeline.cmds) => prev = idx - 1
  /\ pc \in {"fork", "parent"} /\ HasNext => curr = idx

\* what the first command of a pipeline reads
Feeds(t, e, p) ==
  /\ t[p].input = "file" => e = File(p, "r")
  /\ (\A q \in 1..p : t[q].input = "given") => e = Given("r")

RunnerReads ==
  /\ pc \in {"next", "input"} /\ (\A q \in 1..pl - 1 : task[q].input = "given")
       => input = Given("r")
  /\ pc \in Working => Feeds(task, input, pl)

\* what the last command of a pipeline writes to, and the others
Last(t, c) == c[2] = Len(t[c[1]].cmds)
Fed(t, c) ==
  IF ~Last(t, c) THEN PipeEnd(c, "w")
  ELSE IF t[c[1]].output = "file" THEN File(c[1], "w") ELSE Given("w")

ChildHolds ==
  \A c \in Commands :
    /\ place[c] \in {"group", "in"} => ends[c] = PipesOf(task, c[1], c[2])
    /\ place[c] = "out" => ends[c] = IF Last(task, c) THEN {} ELSE Both(c)
    /\ c[2] = 1 /\ Alive(c) => Feeds(task, stdin[c], c[1])
    /\ c[2] > 1 /\ place[c] \in {"out", "runs"} => stdin[c] = <<c[1], c[2] - 1, "r">>
    /\ place[c] \in {"to come", "group", "in", "out"} => stdout[c] = Given("w")
    /\ place[c] = "runs" => stdout[c] = Fed(task, c) /\ \A e \in ends[c] : ~IsPipeEnd(e)

PInv ==
  PTypeOK /\ Located /\ Progress /\ Grouped /\ RunnerHolds /\ RunnerReads /\ ChildHolds

-----------------------------------------------------------------------------
(* Tasks and the positions of commands in them.                            *)

LEMMA TaskFacts ==
  ASSUME task \in Tasks
  PROVE  /\ Len(task) \in Nat /\ DOMAIN task = 1..Len(task)
         /\ \A p \in DOMAIN task :
              /\ Len(task[p].cmds) \in Nat \ {0}
              /\ DOMAIN task[p].cmds = 1..Len(task[p].cmds)
              /\ task[p].input \in {"given", "file", "missing"}
              /\ task[p].output \in {"given", "file", "missing"}
  <1> DEFINE S == [cmds : Seq(Kinds), input : {"given", "file", "missing"},
                   output : {"given", "file", "missing"}]
  <1>1. task \in Seq(S)
    BY PipelinesAssumption
  <1> HIDE DEF S
  <1>2. Len(task) \in Nat /\ DOMAIN task = 1..Len(task)
    BY <1>1
  <1>3. ASSUME NEW p \in DOMAIN task
        PROVE  /\ Len(task[p].cmds) \in Nat \ {0}
               /\ DOMAIN task[p].cmds = 1..Len(task[p].cmds)
               /\ task[p].input \in {"given", "file", "missing"}
               /\ task[p].output \in {"given", "file", "missing"}
    <2>1. task[p] \in S
      BY <1>1, <1>3
    <2>2. /\ task[p].cmds \in Seq(Kinds)
          /\ task[p].input \in {"given", "file", "missing"}
          /\ task[p].output \in {"given", "file", "missing"}
      BY <2>1 DEF S
    <2>3. task[p].cmds # <<>>
      BY PipelinesAssumption
    <2>4. \A s \in Seq(Kinds) : Len(s) \in Nat /\ DOMAIN s = 1..Len(s) /\ (Len(s) = 0 => s = <<>>)
      OBVIOUS
    <2> QED
      BY <2>2, <2>3, <2>4
  <1> QED
    BY <1>2, <1>3

LEMMA CommandFacts ==
  ASSUME task \in Tasks
  PROVE  /\ \A c \in Commands : c = <<c[1], c[2]>>
         /\ \A c \in Commands : c[1] \in Nat \ {0}
         /\ \A c \in Commands : c[2] \in Nat \ {0}
         /\ \A c \in Commands : c[1] \in DOMAIN task
         /\ \A c \in Commands : c[2] \in DOMAIN task[c[1]].cmds
         /\ \A p \in DOMAIN task : \A k \in DOMAIN task[p].cmds : <<p, k>> \in Commands
  <1>1. \A c : c \in Commands <=>
          \E p \in DOMAIN task : \E k \in DOMAIN task[p].cmds : c = <<p, k>>
    BY DEF Commands, CommandsOf
  <1>2. \A p \in DOMAIN task : \A k \in DOMAIN task[p].cmds :
          p \in Nat \ {0} /\ k \in Nat \ {0}
    <2>1. \A n \in Nat : \A i \in 1..n : i \in Nat \ {0}
      OBVIOUS
    <2> QED
      BY <2>1, TaskFacts
  <1> QED
    BY <1>1, <1>2

LEMMA SelfLeads == Self # NoGroup
  <1>1. Len(Self) = 2 /\ Len(NoGroup) = 0
    BY DEF Self, NoGroup
  <1> QED
    BY <1>1

LEMMA EndFacts ==
  ASSUME NEW p \in Nat, NEW k \in Nat, NEW side \in {"r", "w"}
  PROVE  /\ <<p, k, side>> \in AnEnd
         /\ Given(side) \in AnEnd /\ File(p, side) \in AnEnd
         /\ Both(<<p, k>>) = {<<p, k, "r">>, <<p, k, "w">>}
         /\ Both(<<p, k>>) \subseteq AnEnd
  BY DEF AnEnd, Given, File, Both, PipeEnd

-----------------------------------------------------------------------------
LEMMA PInvInit == Init => PInv
  <1> SUFFICES ASSUME Init PROVE PInv
    OBVIOUS
  <1>1. PTypeOK
    <2>1. Given("r") \in AnEnd /\ Given("w") \in AnEnd
      BY DEF AnEnd, Given
    <2> QED
      <3>1. /\ task \in Tasks /\ pl = 1 /\ idx = 1 /\ pc = "next" /\ status = "not"
            /\ input = Given("r") /\ held = {} /\ curr = 0 /\ prev = 0
        BY DEF Init
      <3>2. /\ place \in [Commands -> Places] /\ group \in [Commands -> {Self, NoGroup}]
            /\ stdin \in [Commands -> AnEnd] /\ stdout \in [Commands -> AnEnd]
            /\ ends \in [Commands -> SUBSET AnEnd]
        BY <2>1 DEF Init, Places
      <3>3. grouped \in BOOLEAN
        BY DEF Init
      <3> QED
        BY <2>1, <3>1, <3>2, <3>3 DEF PTypeOK, Locations
  <1>2. Located
    BY DEF Init, Located, Working
  <1>5. Progress
    <2>1. \A c \in Commands : ~(c[1] < pl)
      <3>1. pl = 1 /\ task \in Tasks
        BY DEF Init
      <3> QED
        BY <3>1, CommandFacts
    <2>2. pc = "next" /\ \A c \in Commands : place[c] = "to come"
      BY DEF Init
    <2> QED
      BY <2>1, <2>2 DEF Progress, Working
  <1>6. Grouped
    BY DEF Init, Grouped, Alive, Working
  <1>3. RunnerHolds /\ RunnerReads
    BY DEF Init, RunnerHolds, RunnerReads, Working
  <1>4. ChildHolds
    BY <1>1 DEF Init, ChildHolds, Alive, PTypeOK
  <1> QED
    BY <1>1, <1>2, <1>3, <1>4, <1>5, <1>6 DEF PInv

-----------------------------------------------------------------------------
(* The steps of the runner.                                                *)

\* The children do not notice a step of the runner alone.
LEMMA ChildrenStay ==
  ASSUME Grouped, ChildHolds, UNCHANGED <<task, place, group, descriptors>>,
         status' = "killed" => status = "killed",
         grouped => grouped', pgid' = IF grouped' THEN Self ELSE NoGroup,
         pc' \in {"input"} \cup Working => grouped'
  PROVE  Grouped' /\ ChildHolds'
  BY DEF Grouped, ChildHolds, Commands, Alive, descriptors

LEMMA ExitKeepsPInv ==
  ASSUME PInv, NEW how \in {"0", "failure"}, Exits(how),
         how = "0" => pl \notin DOMAIN task,
         UNCHANGED <<task, place, group, descriptors>>
  PROVE  PInv'
  <1>1. PTypeOK'
    BY DEF PInv, PTypeOK, Exits, Locations, descriptors, Commands
  <1>2. Located' /\ RunnerHolds' /\ RunnerReads'
    BY DEF Exits, Located, RunnerHolds, RunnerReads, Working
  <1>3. Progress'
    BY DEF PInv, Progress, Exits, Working, Commands
  <1>4. Grouped' /\ ChildHolds'
    BY ChildrenStay DEF PInv, Grouped, Exits, Working
  <1> QED
    BY <1>1, <1>2, <1>3, <1>4 DEF PInv

LEMMA NextKeepsPInv ==
  ASSUME PInv, NextPipeline
  PROVE  PInv'
  <1>1. CASE Exits("0") /\ pl \notin DOMAIN task
    BY <1>1, ExitKeepsPInv DEF NextPipeline
  <1>2. CASE pl \in DOMAIN task /\ pc' = "input"
    <2> USE <1>2 DEF NextPipeline, Goto
    <2>1. UNCHANGED <<task, pl, input, held, place, group, descriptors>> /\ idx' = 1
          /\ curr' = 0 /\ prev' = 0 /\ status' = status /\ pc = "next"
      BY DEF Exits
    <2>6. grouped' = TRUE /\ pgid' = Self
      BY SelfLeads DEF PInv, PTypeOK, Grouped, Exits
    <2>2. PTypeOK'
      BY <2>1, <2>6 DEF PInv, PTypeOK, Locations, descriptors, Commands
    <2>3. Located' /\ RunnerHolds' /\ RunnerReads'
      BY <2>1 DEF PInv, Located, RunnerHolds, RunnerReads, Working
    <2>4. Progress'
      BY <2>1 DEF PInv, Progress, Working, Commands
    <2>5. Grouped' /\ ChildHolds'
      BY <2>1, <2>6, ChildrenStay DEF PInv
    <2> QED
      BY <2>2, <2>3, <2>4, <2>5 DEF PInv
  <1> QED
    BY <1>1, <1>2 DEF NextPipeline, Goto

LEMMA InputKeepsPInv ==
  ASSUME PInv, Input
  PROVE  PInv'
  <1>1. CASE Exits("failure")
    BY <1>1, ExitKeepsPInv DEF Input
  <1>2. CASE Pipeline.input # "missing" /\ pc' = "pipe"
    <2>1. UNCHANGED <<task, pl, idx, held, curr, prev, status, grouped, pgid, place, group,
                      descriptors>>
          /\ input' = (IF Pipeline.input = "file" THEN File(pl, "r") ELSE input)
          /\ pc = "input"
      BY <1>2 DEF Input, Exits, Goto
    <2>2. idx = 1 /\ held = {} /\ pl \in DOMAIN task /\ pl \in Nat \ {0}
      BY <2>1 DEF PInv, PTypeOK, Located, RunnerHolds
    <2>3. PTypeOK'
      BY <1>2, <2>1, <2>2, EndFacts DEF PInv, PTypeOK, Locations, Working, descriptors, Commands
    <2>4. Located' /\ RunnerHolds'
      BY <1>2, <2>1, <2>2 DEF PInv, Located, RunnerHolds, Working
    <2>5. RunnerReads'
      <3>1. Feeds(task, input', pl)
        <4>1. CASE Pipeline.input = "file"
          BY <2>1, <2>2, <4>1 DEF Feeds, Pipeline
        <4>2. CASE Pipeline.input # "file"
          BY <2>1, <2>2, <4>2 DEF PInv, RunnerReads, Feeds, Pipeline
        <4> QED
          BY <4>1, <4>2
      <3> QED
        BY <1>2, <2>1, <3>1 DEF RunnerReads
    <2>6. Progress'
      <3>1. \A c \in Commands : ~(c[2] < idx)
        BY <2>2, CommandFacts DEF PInv, PTypeOK
      <3> QED
        BY <1>2, <2>1, <3>1 DEF PInv, Progress, Commands
    <2>7. Grouped' /\ ChildHolds'
      BY <2>1, ChildrenStay DEF PInv, Grouped
    <2> QED
      BY <2>3, <2>4, <2>5, <2>6, <2>7 DEF PInv
  <1> QED
    BY <1>1, <1>2 DEF Input, Goto

LEMMA PipeKeepsPInv ==
  ASSUME PInv, Pipe
  PROVE  PInv'
  <1>1. CASE Exits("failure")
    BY <1>1, ExitKeepsPInv DEF Pipe
  <1>2. CASE ~Exits("failure")
    <2>1. UNCHANGED <<task, pl, idx, input, prev, status, grouped, pgid, place, group,
                      descriptors>>
          /\ pc' = (IF idx \in DOMAIN Pipeline.cmds THEN "fork" ELSE "close")
          /\ pc = "pipe"
      BY <1>2 DEF Pipe, Goto
    <2>2. IF HasNext THEN held' = held \cup Both(<<pl, idx>>) /\ curr' = idx
          ELSE held' = held /\ curr' = curr
      BY <1>2 DEF Pipe
    <2>3. pl \in DOMAIN task /\ pl \in Nat \ {0} /\ idx \in Nat \ {0} /\ task \in Tasks
      BY <2>1 DEF PInv, PTypeOK, Located, Working
    <2>4. Len(Pipeline.cmds) \in Nat /\ DOMAIN Pipeline.cmds = 1..Len(Pipeline.cmds)
      BY <2>3, TaskFacts DEF Pipeline
    <2>5. held = IF idx \in 2..Len(Pipeline.cmds) THEN Both(<<pl, idx - 1>>) ELSE {}
      BY <2>1 DEF PInv, RunnerHolds
    <2>6. PTypeOK'
      <3>1. held' \subseteq AnEnd /\ curr' \in Nat
        BY <2>2, <2>3, EndFacts DEF PInv, PTypeOK
      <3>2. pc' \in Locations
        BY <2>1 DEF Locations, Working
      <3> QED
        BY <2>1, <3>1, <3>2 DEF PInv, PTypeOK, descriptors, Commands
    <2>7. Located'
      BY <2>1, <2>3, <2>4 DEF PInv, Located, Working, Pipeline
    <2>8. RunnerHolds'
      <3>1. CASE idx \in DOMAIN Pipeline.cmds
        <4>1. held' = PipesOf(task, pl, idx)
          BY <2>2, <2>3, <2>4, <2>5, <3>1 DEF PipesOf, HasNext, Pipeline
        <4>2. idx \in 2..Len(Pipeline.cmds) => prev = idx - 1
          BY <2>1 DEF PInv, RunnerHolds
        <4> QED
          BY <2>1, <2>2, <3>1, <4>1, <4>2 DEF RunnerHolds, HasNext, Pipeline
      <3>2. CASE idx \notin DOMAIN Pipeline.cmds
        <4>1. ~HasNext /\ held = {}
          BY <2>3, <2>4, <2>5, <3>2 DEF HasNext
        <4> QED
          BY <2>1, <2>2, <3>2, <4>1 DEF RunnerHolds
      <3> QED
        BY <3>1, <3>2
    <2>9. RunnerReads'
      BY <2>1 DEF PInv, RunnerReads, Working
    <2>10. Progress'
      BY <2>1 DEF PInv, Progress, Working, Commands
    <2>11. Grouped' /\ ChildHolds'
      BY <2>1, ChildrenStay DEF PInv, Grouped, Working
    <2> QED
      BY <2>6, <2>7, <2>8, <2>9, <2>10, <2>11 DEF PInv
  <1> QED
    BY <1>1, <1>2

\* The child has what the runner has.
LEMMA ForkKeepsPInv ==
  ASSUME PInv, Fork
  PROVE  PInv'
  <1> DEFINE c == <<pl, idx>>
  <1>1. CASE Exits("failure") /\ UNCHANGED <<place, group, descriptors>>
    BY <1>1, ExitKeepsPInv DEF Fork
  <1>2. CASE /\ place' = [place EXCEPT ![c] = "group"]
             /\ group' = [group EXCEPT ![c] = IF grouped THEN Self ELSE NoGroup]
             /\ stdin' = [stdin EXCEPT ![c] = input]
             /\ ends' = [ends EXCEPT ![c] = held]
             /\ pc' = "parent"
             /\ UNCHANGED <<pl, idx, status, grouped, pgid, input, held, curr, prev, stdout>>
    <2>1. UNCHANGED task /\ pc = "fork"
      BY DEF Fork
    <2>2. pl \in DOMAIN task /\ idx \in DOMAIN Pipeline.cmds /\ task \in Tasks
      BY <2>1 DEF PInv, PTypeOK, Located, Working
    <2>3. c \in Commands /\ c[1] = pl /\ c[2] = idx
      BY <2>2, CommandFacts DEF Pipeline
    <2>4. held = PipesOf(task, pl, idx) /\ Feeds(task, input, pl)
      BY <2>1 DEF PInv, RunnerHolds, RunnerReads, Working
    <2> HIDE DEF c
    <2>5. PTypeOK'
      <3>1. place' \in [Commands -> Places] /\ stdin' \in [Commands -> AnEnd]
            /\ ends' \in [Commands -> SUBSET AnEnd]
        BY <1>2 DEF PInv, PTypeOK, Places
      <3>2. pc' \in Locations
        BY <1>2 DEF Locations, Working
      <3> QED
        BY <1>2, <2>1, <3>1, <3>2 DEF PInv, PTypeOK, Commands
    <2>6. Located'
      BY <1>2, <2>1 DEF PInv, Located, Working, Pipeline
    <2>7. RunnerHolds' /\ RunnerReads'
      BY <1>2, <2>1 DEF PInv, RunnerHolds, RunnerReads, Working, HasNext, Pipeline
    <2>8. Progress'
      <3> SUFFICES ASSUME NEW d \in Commands
                   PROVE  /\ d[1] < pl => place'[d] = "reaped"
                          /\ d[1] > pl => place'[d] = "to come"
                          /\ d[1] = pl /\ (d[2] < idx \/ d[2] = idx) => place'[d] # "to come"
                          /\ d[1] = pl /\ d[2] > idx => place'[d] = "to come"
        BY <1>2, <2>1 DEF Progress, Commands
      <3>1. CASE d = c
        BY <1>2, <2>2, <2>3, <3>1 DEF PInv, PTypeOK
      <3>2. CASE d # c
        <4>1. place'[d] = place[d]
          BY <1>2, <3>2 DEF PInv, PTypeOK
        <4>2. ~(d[1] = pl /\ d[2] = idx)
          BY <2>2, <3>2, CommandFacts DEF c
        <4> QED
          BY <2>1, <4>1, <4>2 DEF PInv, Progress, Working
      <3> QED
        BY <3>1, <3>2
    <2>9. Grouped'
      <3>1. grouped /\ pgid = Self /\ status # "killed"
        BY <2>1 DEF PInv, Grouped, Working, Located
      <3>2. \A d \in Commands : group'[d] = IF d = c THEN Self ELSE group[d]
        BY <1>2, <3>1 DEF PInv, PTypeOK
      <3>3. \A d \in Commands : d # c => place'[d] = place[d]
        BY <1>2 DEF PInv, PTypeOK
      <3> QED
        BY <1>2, <2>1, <3>1, <3>2, <3>3 DEF PInv, Grouped, Commands
    <2>10. ChildHolds'
      <3> SUFFICES ASSUME NEW d \in Commands
                   PROVE  /\ place'[d] \in {"group", "in"} => ends'[d] = PipesOf(task, d[1], d[2])
                          /\ place'[d] = "out" => ends'[d] = IF Last(task, d) THEN {} ELSE Both(d)
                          /\ d[2] = 1 /\ Alive(d)' => Feeds(task, stdin'[d], d[1])
                          /\ d[2] > 1 /\ place'[d] \in {"out", "runs"}
                               => stdin'[d] = <<d[1], d[2] - 1, "r">>
                          /\ place'[d] \in {"to come", "group", "in", "out"}
                               => stdout'[d] = Given("w")
                          /\ place'[d] = "runs"
                               => stdout'[d] = Fed(task, d) /\ \A e \in ends'[d] : ~IsPipeEnd(e)
        BY <2>1 DEF ChildHolds, Commands
      <3>1. CASE d = c
        <4>1. place'[c] = "group" /\ ends'[c] = held /\ stdin'[c] = input
          BY <1>2, <2>3 DEF PInv, PTypeOK
        <4>2. stdout'[c] = Given("w")
          <5>1. place[c] = "to come"
            BY <2>1, <2>3 DEF PInv, Progress
          <5> QED
            BY <1>2, <2>3, <5>1 DEF PInv, ChildHolds
        <4> QED
          BY <2>3, <2>4, <3>1, <4>1, <4>2
      <3>2. CASE d # c
        <4>1. place'[d] = place[d] /\ ends'[d] = ends[d] /\ stdin'[d] = stdin[d]
              /\ stdout'[d] = stdout[d]
          BY <1>2, <3>2 DEF PInv, PTypeOK
        <4> QED
          BY <4>1 DEF PInv, ChildHolds, Alive
      <3> QED
        BY <3>1, <3>2
    <2> QED
      BY <2>5, <2>6, <2>7, <2>8, <2>9, <2>10 DEF PInv
  <1> QED
    BY <1>1, <1>2 DEF Fork, Goto

\* The runner keeps the pipe the next command reads from, and no other.
LEMMA ParentKeepsPInv ==
  ASSUME PInv, Parent
  PROVE  PInv'
  <1>1. UNCHANGED <<task, pl, status, grouped, input, curr, place, descriptors>>
        /\ pc = "parent" /\ pc' = "pipe" /\ idx' = idx + 1
        /\ held' = (IF idx > 1 THEN held \ Both(<<pl, prev>>) ELSE held)
        /\ prev' = (IF HasNext THEN curr ELSE prev)
    BY DEF Parent, Goto
  <1>12. UNCHANGED <<pgid, group>>
    <2>1. grouped /\ pgid = Self
      BY <1>1 DEF PInv, Grouped, Working
    <2>2. pgid' = pgid
      BY <2>1, SelfLeads DEF Parent, Grouping
    <2>3. CASE place[<<pl, idx>>] \in {"group", "in", "out"}
      <3>1. <<pl, idx>> \in Commands
        <4>1. task \in Tasks /\ pl \in DOMAIN task /\ idx \in DOMAIN task[pl].cmds
          BY <1>1 DEF PInv, PTypeOK, Located, Working, Pipeline
        <4> QED
          BY <4>1, CommandFacts
      <3>2. group[<<pl, idx>>] = Self
        BY <2>3, <3>1 DEF PInv, Grouped
      <3>3. group' = [group EXCEPT ![<<pl, idx>>] = Self]
        BY <2>1, <2>2, <2>3 DEF Parent, Grouping
      <3> QED
        BY <2>2, <3>1, <3>2, <3>3 DEF PInv, PTypeOK
    <2>4. CASE ~(place[<<pl, idx>>] \in {"group", "in", "out"})
      BY <2>2, <2>4 DEF Parent, Grouping
    <2> QED
      BY <2>3, <2>4
  <1>2. pl \in DOMAIN task /\ pl \in Nat \ {0} /\ idx \in Nat \ {0} /\ task \in Tasks
        /\ curr \in Nat /\ prev \in Nat
    BY <1>1 DEF PInv, PTypeOK, Located, Working
  <1>3. /\ Len(Pipeline.cmds) \in Nat
        /\ DOMAIN Pipeline.cmds = 1..Len(Pipeline.cmds) /\ idx \in DOMAIN Pipeline.cmds
    BY <1>1, <1>2, TaskFacts DEF PInv, Located, Pipeline
  <1>4. /\ held = PipesOf(task, pl, idx)
        /\ idx \in 2..Len(Pipeline.cmds) => prev = idx - 1
        /\ HasNext => curr = idx
    BY <1>1 DEF PInv, RunnerHolds
  <1>5. PTypeOK'
    <2>1. held' \subseteq AnEnd /\ prev' \in Nat /\ idx' \in Nat \ {0}
      BY <1>1, <1>2 DEF PInv, PTypeOK
    <2>2. pc' \in Locations
      BY <1>1 DEF Locations, Working
    <2> QED
      BY <1>1, <1>12, <2>1, <2>2 DEF PInv, PTypeOK, descriptors, Commands
  <1>6. Located'
    BY <1>1, <1>2 DEF PInv, Located, Working
  <1>7. held' = IF idx + 1 \in 2..Len(Pipeline.cmds) THEN Both(<<pl, idx>>) ELSE {}
    <2>1. idx > 1 => Both(<<pl, prev>>) = {<<pl, idx - 1, "r">>, <<pl, idx - 1, "w">>}
      <3> SUFFICES ASSUME idx > 1
                   PROVE  Both(<<pl, prev>>) = {<<pl, idx - 1, "r">>, <<pl, idx - 1, "w">>}
        OBVIOUS
      <3>1. prev = idx - 1
        BY <1>2, <1>3, <1>4
      <3> QED
        BY <1>2, <3>1, EndFacts
    <2>2. Both(<<pl, idx>>) = {<<pl, idx, "r">>, <<pl, idx, "w">>}
      BY <1>2, EndFacts
    <2>3. held = (IF idx > 1 THEN Both(<<pl, prev>>) ELSE {})
                   \cup (IF idx < Len(Pipeline.cmds) THEN Both(<<pl, idx>>) ELSE {})
      BY <1>2, <1>3, <1>4 DEF PipesOf, Pipeline
    <2>4. held' = IF idx < Len(Pipeline.cmds) THEN Both(<<pl, idx>>) ELSE {}
      <3> DEFINE Before == {<<pl, idx - 1, "r">>, <<pl, idx - 1, "w">>}
                 After == {<<pl, idx, "r">>, <<pl, idx, "w">>}
      <3>1. Before \cap After = {}
        BY <1>2
      <3>2. CASE idx > 1
        BY <1>1, <2>1, <2>2, <2>3, <3>1, <3>2
      <3>3. CASE ~(idx > 1)
        BY <1>1, <2>3, <3>3
      <3> QED
        BY <3>2, <3>3
    <2> QED
      BY <1>2, <1>3, <2>4
  <1>8. RunnerHolds'
    <2>1. idx + 1 \in 2..Len(Pipeline.cmds) => prev' = idx
      BY <1>1, <1>2, <1>3, <1>4 DEF HasNext
    <2>2. idx' - 1 = idx
      BY <1>1, <1>2
    <2> QED
      BY <1>1, <1>7, <2>1, <2>2 DEF RunnerHolds, Pipeline
  <1>9. RunnerReads'
    BY <1>1 DEF PInv, RunnerReads, Working
  <1>10. Progress'
    <2> SUFFICES ASSUME NEW c \in Commands
                 PROVE  /\ c[1] < pl => place[c] = "reaped"
                        /\ c[1] > pl => place[c] = "to come"
                        /\ c[1] = pl /\ c[2] < idx + 1 => place[c] # "to come"
                        /\ c[1] = pl /\ (c[2] > idx + 1 \/ c[2] = idx + 1)
                             => place[c] = "to come"
      BY <1>1 DEF Progress, Commands, Working
    <2>1. c[2] \in Nat \ {0}
      BY <1>2, CommandFacts
    <2>2. c[2] < idx + 1 <=> c[2] < idx \/ c[2] = idx
      BY <1>2, <2>1
    <2>3. c[2] > idx + 1 \/ c[2] = idx + 1 => c[2] > idx
      BY <1>2, <2>1
    <2> QED
      BY <1>1, <2>2, <2>3 DEF PInv, Progress, Working
  <1>11. Grouped' /\ ChildHolds'
    BY <1>1, <1>12, ChildrenStay DEF PInv, Grouped, Working
  <1> QED
    BY <1>5, <1>6, <1>8, <1>9, <1>10, <1>11 DEF PInv

LEMMA CloseKeepsPInv ==
  ASSUME PInv, Close
  PROVE  PInv'
  <1>1. UNCHANGED <<task, pl, idx, status, grouped, pgid, input, curr, prev, place, group,
                    descriptors>>
        /\ pc = "close" /\ pc' = "wait"
        /\ held' = (IF Len(Pipeline.cmds) > 1 THEN held \ Both(<<pl, prev>>) ELSE held)
    BY DEF Close, Goto
  <1>2. held = {}
    BY <1>1 DEF PInv, RunnerHolds
  <1>3. held' = {}
    BY <1>1, <1>2
  <1>4. PTypeOK'
    BY <1>1, <1>3 DEF PInv, PTypeOK, Locations, Working, descriptors, Commands
  <1>5. Located' /\ RunnerHolds' /\ RunnerReads'
    BY <1>1, <1>3 DEF PInv, Located, RunnerHolds, RunnerReads, Working, Pipeline
  <1>6. Progress'
    BY <1>1 DEF PInv, Progress, Working, Commands
  <1>7. Grouped' /\ ChildHolds'
    BY <1>1, ChildrenStay DEF PInv, Grouped, Working
  <1> QED
    BY <1>4, <1>5, <1>6, <1>7 DEF PInv

\* The runner goes on when all that it has forked is reaped.
LEMMA WaitKeepsPInv ==
  ASSUME PInv, Wait
  PROVE  PInv'
  <1>1. UNCHANGED <<task, idx, status, grouped, pgid, input, held, curr, prev, group, descriptors>>
        /\ pc = "wait"
    BY DEF Wait
  <1>2. pl \in DOMAIN task /\ pl \in Nat \ {0} /\ idx \in Nat \ {0} /\ task \in Tasks
        /\ held = {} /\ Feeds(task, input, pl) /\ idx > Len(Pipeline.cmds)
    BY <1>1 DEF PInv, PTypeOK, Located, Working, RunnerHolds, RunnerReads
  <1>3. ASSUME NEW c \in Commands, place[c] = "ended", place' = [place EXCEPT ![c] = "reaped"],
               UNCHANGED <<pl, pc>>
        PROVE  PInv'
    <2>1. \A d \in Commands : place'[d] = IF d = c THEN "reaped" ELSE place[d]
      BY <1>3 DEF PInv, PTypeOK
    <2>2. PTypeOK'
      BY <1>1, <1>3 DEF PInv, PTypeOK, Places, descriptors, Commands
    <2>3. Located' /\ RunnerHolds' /\ RunnerReads'
      BY <1>1, <1>3 DEF PInv, Located, RunnerHolds, RunnerReads, Working, HasNext, Pipeline
    <2>4. Progress'
      <3> SUFFICES ASSUME NEW d \in Commands
                   PROVE  /\ d[1] < pl => place'[d] = "reaped"
                          /\ d[1] > pl => place'[d] = "to come"
                          /\ d[1] = pl /\ d[2] < idx => place'[d] # "to come"
                          /\ d[1] = pl /\ d[2] > idx => place'[d] = "to come"
        BY <1>1, <1>3 DEF Progress, Commands
      <3>1. pc \in Working
        BY <1>1 DEF Working
      <3>2. /\ d[1] < pl => place[d] = "reaped"
            /\ d[1] > pl => place[d] = "to come"
            /\ d[1] = pl /\ d[2] < idx => place[d] # "to come"
            /\ d[1] = pl /\ d[2] > idx => place[d] = "to come"
        BY <3>1 DEF PInv, Progress
      <3>3. CASE d = c
        <4>1. place[d] = "ended" /\ place'[d] = "reaped"
          BY <1>3, <2>1, <3>3
        <4> QED
          BY <3>2, <4>1
      <3>4. CASE d # c
        BY <2>1, <3>2, <3>4
      <3> QED
        BY <3>3, <3>4
    <2>5. Grouped'
      <3>1. \A d \in Commands : place'[d] # "to come" => place[d] # "to come"
        BY <1>3, <2>1
      <3>2. \A d \in Commands : Alive(d)' => Alive(d)
        BY <2>1 DEF Alive
      <3> QED
        BY <1>1, <1>3, <3>1, <3>2 DEF PInv, Grouped, Commands
    <2>6. ChildHolds'
      BY <1>1, <2>1 DEF PInv, ChildHolds, Alive, descriptors, Commands
    <2> QED
      BY <2>2, <2>3, <2>4, <2>5, <2>6 DEF PInv
  <1>4. CASE Forked = {} /\ pl' = pl + 1 /\ pc' = "next" /\ place' = place
    <2>1. PTypeOK'
      <3>1. pl' \in Nat \ {0} /\ pc' \in Locations
        BY <1>2, <1>4 DEF Locations
      <3> QED
        BY <1>1, <1>4, <3>1 DEF PInv, PTypeOK, descriptors, Commands
    <2>2. Located' /\ RunnerHolds'
      BY <1>1, <1>2, <1>4 DEF PInv, Located, RunnerHolds, Working
    <2>3. RunnerReads'
      <3>1. pl + 1 - 1 = pl
        BY <1>2
      <3> QED
        BY <1>1, <1>2, <1>4, <3>1 DEF RunnerReads, Feeds, Working
    <2>4. Progress'
      <3> SUFFICES ASSUME NEW d \in Commands
                   PROVE  /\ d[1] < pl + 1 => place[d] = "reaped"
                          /\ d[1] > pl + 1 \/ d[1] = pl + 1 => place[d] = "to come"
        BY <1>1, <1>4 DEF Progress, Working, Commands
      <3>1. d[1] \in Nat \ {0} /\ d[2] \in 1..Len(task[d[1]].cmds) /\ d[1] \in DOMAIN task
        BY <1>2, CommandFacts, TaskFacts
      <3>2. place[d] \in {"to come", "reaped"}
        BY <1>4 DEF Forked
      <3>3. d[1] = pl => d[2] < idx
        BY <1>2, <3>1 DEF Pipeline
      <3>4. d[1] = pl => place[d] = "reaped"
        BY <1>1, <3>2, <3>3 DEF PInv, Progress, Working
      <3>5. d[1] < pl => place[d] = "reaped"
        BY DEF PInv, Progress
      <3>6. d[1] > pl => place[d] = "to come"
        BY DEF PInv, Progress
      <3>7. d[1] < pl + 1 => d[1] < pl \/ d[1] = pl
        BY <1>2, <3>1
      <3>8. d[1] > pl + 1 \/ d[1] = pl + 1 => d[1] > pl
        BY <1>2, <3>1
      <3> QED
        BY <3>4, <3>5, <3>6, <3>7, <3>8
    <2>5. Grouped' /\ ChildHolds'
      BY <1>1, <1>4, ChildrenStay DEF PInv, Grouped, Working
    <2> QED
      BY <2>1, <2>2, <2>3, <2>4, <2>5 DEF PInv
  <1> QED
    BY <1>3, <1>4 DEF Wait, Forked, Goto

-----------------------------------------------------------------------------
(* The steps of a command.                                                 *)

\* Only a command that is alive moves, and it moves nobody else.
LEMMA CommandMoves ==
  ASSUME PTypeOK, Grouped, NEW c \in Commands, Command(c)
  PROVE  /\ UNCHANGED <<task, runner, group>>
         /\ Alive(c)
         /\ place' \in [Commands -> Places]
         /\ \A d \in Commands : d # c => place'[d] = place[d]
         /\ place'[c] \in {"in", "out", "runs", "ended"}
  <1> USE DEF PTypeOK, Moves, Alive, Places
  <1>1. CASE SetGroup(c)
    <2>1. group[c] = Self /\ pgid = Self
      BY <1>1 DEF SetGroup, Grouped
    <2>2. group' = group
      BY <1>1, <2>1, SelfLeads DEF SetGroup
    <2> QED
      BY <1>1, <2>2 DEF SetGroup
  <1>2. CASE SetIn(c)
    BY <1>2 DEF SetIn
  <1>3. CASE SetOut(c)
    <2>1. place[c] = "out" /\ UNCHANGED <<task, runner, group>>
      BY <1>3 DEF SetOut
    <2>2. Moves(c, "runs") \/ Moves(c, "ended")
      BY <1>3 DEF SetOut, Executes
    <2> QED
      BY <2>1, <2>2
  <1>4. CASE ReadUnit(c) \/ ReadEnd(c) \/ Write(c)
    <2>1. place[c] = "runs" /\ UNCHANGED <<task, runner, group>>
      BY <1>4 DEF ReadUnit, ReadEnd, Write
    <2>2. Moves(c, "ended") \/ place' = place
      BY <1>4 DEF ReadUnit, ReadEnd, Write
    <2> QED
      BY <2>1, <2>2
  <1> QED
    BY <1>1, <1>2, <1>3, <1>4 DEF Command

\* What it has closed and redirected when it executes is what it should.
LEMMA CommandHolds ==
  ASSUME PInv, NEW c \in Commands, Command(c)
  PROVE  ChildHolds' /\ stdin' \in [Commands -> AnEnd] /\ stdout' \in [Commands -> AnEnd]
         /\ ends' \in [Commands -> SUBSET AnEnd]
  <1> USE DEF PInv
  <1>1. task' = task /\ place' \in [Commands -> Places]
        /\ \A d \in Commands : d # c => place'[d] = place[d]
    BY CommandMoves DEF runner
  <1>2. /\ c = <<c[1], c[2]>> /\ c[1] \in Nat \ {0} /\ c[2] \in Nat \ {0}
        /\ c[1] \in DOMAIN task /\ c[2] \in DOMAIN task[c[1]].cmds /\ task \in Tasks
    BY CommandFacts DEF PTypeOK
  <1>3. Len(task[c[1]].cmds) \in Nat /\ c[2] \in 1..Len(task[c[1]].cmds)
    BY <1>2, TaskFacts
  <1> DEFINE Ends(d) ==
        /\ place'[d] \in {"group", "in"} => ends'[d] = PipesOf(task, d[1], d[2])
        /\ place'[d] = "out" => ends'[d] = IF Last(task, d) THEN {} ELSE Both(d)
        /\ d[2] = 1 /\ Alive(d)' => Feeds(task, stdin'[d], d[1])
        /\ d[2] > 1 /\ place'[d] \in {"out", "runs"} => stdin'[d] = <<d[1], d[2] - 1, "r">>
        /\ place'[d] \in {"to come", "group", "in", "out"} => stdout'[d] = Given("w")
        /\ place'[d] = "runs" => stdout'[d] = Fed(task, d) /\ \A e \in ends'[d] : ~IsPipeEnd(e)
  <1>4. ASSUME Ends(c), \A d \in Commands : d # c =>
                 stdin'[d] = stdin[d] /\ stdout'[d] = stdout[d] /\ ends'[d] = ends[d]
        PROVE  ChildHolds'
    <2>1. ASSUME NEW d \in Commands, d # c PROVE Ends(d)
      BY <1>1, <1>4, <2>1 DEF ChildHolds, Alive
    <2>2. \A d \in Commands : Ends(d)
      BY <1>4, <2>1
    <2> QED
      BY <1>1, <2>2 DEF ChildHolds, Commands
  <1>5. CASE SetGroup(c)
    <2>1. place[c] = "group" /\ place'[c] = "in" /\ UNCHANGED descriptors
      BY <1>5 DEF SetGroup, Moves, PTypeOK
    <2>2. Ends(c)
      BY <2>1 DEF ChildHolds, Alive, descriptors
    <2> QED
      BY <1>4, <2>1, <2>2 DEF descriptors, PTypeOK
  <1>6. CASE SetIn(c)
    <2>1. place[c] = "in" /\ place'[c] = "out" /\ stdout' = stdout
      BY <1>6 DEF SetIn, Moves, PTypeOK
    <2>2. ends[c] = PipesOf(task, c[1], c[2]) /\ stdout[c] = Given("w")
      BY <2>1 DEF ChildHolds
    <2>3. Both(c) = {<<c[1], c[2], "r">>, <<c[1], c[2], "w">>}
      BY <1>2 DEF Both, PipeEnd
    <2>4. CASE c[2] = 1 /\ UNCHANGED <<stdin, ends>>
      <3>1. ends'[c] = IF Last(task, c) THEN {} ELSE Both(c)
        <4>1. c[2] < Len(task[c[1]].cmds) <=> ~Last(task, c)
          BY <1>3 DEF Last
        <4>2. ~(c[2] > 1)
          BY <2>4
        <4>3. ends'[c] = ends[c] /\ <<c[1], c[2]>> = c
          BY <1>2, <2>4
        <4>4. PipesOf(task, c[1], c[2]) =
                (IF c[2] < Len(task[c[1]].cmds) THEN Both(<<c[1], c[2]>>) ELSE {})
          BY <4>2 DEF PipesOf
        <4> QED
          BY <2>2, <4>1, <4>3, <4>4
      <3>2. Feeds(task, stdin'[c], c[1])
        BY <2>1, <2>4 DEF ChildHolds, Alive
      <3> QED
        BY <1>4, <2>1, <2>2, <2>4, <3>1, <3>2 DEF PTypeOK
    <2>5. CASE c[2] > 1
      <3> DEFINE before == <<c[1], c[2] - 1>>
      <3>1. stdin' = [stdin EXCEPT ![c] = PipeEnd(before, "r")]
            /\ ends' = [ends EXCEPT ![c] = @ \ Both(before)]
        BY <1>6, <2>5 DEF SetIn
      <3>2. c[2] - 1 \in Nat
        BY <1>2, <2>5
      <3>3. PipeEnd(before, "r") = <<c[1], c[2] - 1, "r">> /\ PipeEnd(before, "r") \in AnEnd
        BY <1>2, <3>2 DEF PipeEnd, AnEnd
      <3>4. stdin'[c] = <<c[1], c[2] - 1, "r">> /\ ends'[c] = ends[c] \ Both(before)
        BY <3>1, <3>3 DEF PTypeOK
      <3>5. ends'[c] = IF Last(task, c) THEN {} ELSE Both(c)
        <4>1. Both(before) = {<<c[1], c[2] - 1, "r">>, <<c[1], c[2] - 1, "w">>}
          BY <1>2, <3>2, EndFacts
        <4>2. Both(before) \cap Both(c) = {}
          BY <1>2, <2>3, <4>1
        <4>3. ends[c] = Both(before) \cup (IF c[2] < Len(task[c[1]].cmds) THEN Both(c) ELSE {})
          BY <1>2, <2>2, <2>5 DEF PipesOf
        <4>4. c[2] < Len(task[c[1]].cmds) <=> ~Last(task, c)
          BY <1>3 DEF Last
        <4> QED
          BY <3>4, <4>2, <4>3, <4>4
      <3>6. Ends(c)
        BY <2>1, <2>2, <2>5, <3>4, <3>5 DEF Alive
      <3>7. ends' \in [Commands -> SUBSET AnEnd] /\ stdin' \in [Commands -> AnEnd]
        BY <3>1, <3>3 DEF PTypeOK
      <3>8. \A d \in Commands : d # c => stdin'[d] = stdin[d] /\ ends'[d] = ends[d]
        BY <3>1 DEF PTypeOK
      <3> QED
        BY <1>4, <2>1, <3>6, <3>7, <3>8 DEF PTypeOK
    <2> QED
      BY <1>6, <2>4, <2>5 DEF SetIn
  <1>7. CASE SetOut(c)
    <2>1. place[c] = "out" /\ stdin' = stdin /\ place'[c] \in {"runs", "ended"}
      BY <1>7 DEF SetOut, Executes, Moves, PTypeOK
    <2>2. /\ ends[c] = IF Last(task, c) THEN {} ELSE Both(c)
          /\ stdout[c] = Given("w")
          /\ c[2] > 1 => stdin[c] = <<c[1], c[2] - 1, "r">>
          /\ c[2] = 1 => Feeds(task, stdin[c], c[1])
      BY <2>1 DEF ChildHolds, Alive
    <2>3. IsLast(c) <=> Last(task, c)
      BY DEF IsLast, Last
    <2>4. ASSUME place'[c] = "runs" => stdout'[c] = Fed(task, c) /\ \A e \in ends'[c] : ~IsPipeEnd(e),
                 \A d \in Commands : d # c => stdout'[d] = stdout[d] /\ ends'[d] = ends[d]
          PROVE  ChildHolds'
      <3>1. Ends(c)
        BY <2>1, <2>2, <2>4 DEF Alive
      <3> QED
        BY <1>4, <2>1, <2>4, <3>1
    <2>5. CASE ~IsLast(c)
      <3>1. stdout' = [stdout EXCEPT ![c] = PipeEnd(c, "w")]
            /\ ends' = [ends EXCEPT ![c] = @ \ Both(c)]
        BY <1>7, <2>5 DEF SetOut
      <3>2. PipeEnd(c, "w") \in AnEnd
        BY <1>2 DEF PipeEnd, AnEnd
      <3>3. stdout'[c] = Fed(task, c) /\ ends'[c] = {}
        BY <2>2, <2>3, <2>5, <3>1, <3>2 DEF Fed, PTypeOK
      <3> QED
        BY <2>1, <2>4, <3>1, <3>2, <3>3 DEF PTypeOK
    <2>6. CASE IsLast(c) /\ task[c[1]].output = "given"
      <3>1. UNCHANGED <<stdout, ends>>
        BY <1>7, <2>6 DEF SetOut
      <3>2. stdout'[c] = Fed(task, c) /\ ends'[c] = {}
        BY <2>2, <2>3, <2>6, <3>1 DEF Fed
      <3> QED
        BY <2>1, <2>4, <3>1, <3>2 DEF PTypeOK
    <2>7. CASE IsLast(c) /\ task[c[1]].output = "file"
      <3>1. stdout' = [stdout EXCEPT ![c] = File(c[1], "w")]
            /\ ends' = [ends EXCEPT ![c] = @ \cup {File(c[1], "w")}]
        BY <1>7, <2>7 DEF SetOut
      <3>2. File(c[1], "w") \in AnEnd /\ ~IsPipeEnd(File(c[1], "w"))
        BY <1>2 DEF File, AnEnd, IsPipeEnd
      <3>3. stdout'[c] = Fed(task, c) /\ ends'[c] = {File(c[1], "w")}
        BY <2>2, <2>3, <2>7, <3>1, <3>2 DEF Fed, PTypeOK
      <3> QED
        BY <2>1, <2>4, <3>1, <3>2, <3>3 DEF PTypeOK
    <2>8. CASE IsLast(c) /\ task[c[1]].output = "missing"
      <3>1. UNCHANGED <<stdout, ends>> /\ Moves(c, "ended")
        BY <1>7, <2>8 DEF SetOut
      <3>2. place'[c] = "ended"
        BY <3>1 DEF Moves, PTypeOK
      <3> QED
        BY <2>1, <2>4, <3>1, <3>2 DEF PTypeOK
    <2> QED
      BY <1>7, <2>5, <2>6, <2>7, <2>8 DEF SetOut
  <1>8. CASE ReadUnit(c) \/ ReadEnd(c) \/ Write(c)
    <2>1. place[c] = "runs" /\ UNCHANGED descriptors
      BY <1>8 DEF ReadUnit, ReadEnd, Write
    <2>2. place'[c] \in {"runs", "ended"}
      BY <1>8 DEF ReadUnit, ReadEnd, Write, Moves, PTypeOK
    <2>3. Ends(c)
      BY <2>1, <2>2 DEF ChildHolds, Alive, descriptors
    <2> QED
      BY <1>4, <2>1, <2>3 DEF descriptors, PTypeOK
  <1> QED
    BY <1>5, <1>6, <1>7, <1>8 DEF Command

LEMMA CommandKeepsPInv ==
  ASSUME PInv, NEW c \in Commands, Command(c)
  PROVE  PInv'
  <1>1. /\ UNCHANGED <<task, runner, group>> /\ Alive(c) /\ place' \in [Commands -> Places]
        /\ \A d \in Commands : d # c => place'[d] = place[d]
        /\ place'[c] \in {"in", "out", "runs", "ended"}
    BY CommandMoves DEF PInv
  <1>2. PTypeOK'
    BY <1>1, CommandHolds DEF PInv, PTypeOK, runner, Commands
  <1>3. Located' /\ RunnerHolds' /\ RunnerReads'
    BY <1>1 DEF PInv, Located, RunnerHolds, RunnerReads, runner, HasNext, Pipeline
  <1>4. Progress'
    <2> SUFFICES ASSUME NEW d \in Commands
                 PROVE  /\ d[1] < pl => place'[d] = "reaped"
                        /\ d[1] > pl => place'[d] = "to come"
                        /\ d[1] = pl /\ pc \in Working =>
                             (d[2] < idx \/ (pc = "parent" /\ d[2] = idx) => place'[d] # "to come")
                        /\ d[1] = pl /\ (pc \in {"next", "input"} \/ (pc = "fork" /\ d[2] = idx)
                                          \/ (pc \in Working /\ d[2] > idx)
                                          \/ (pc = "pipe" /\ d[2] = idx))
                             => place'[d] = "to come"
      BY <1>1 DEF Progress, runner, Commands
    <2>1. CASE d = c
      BY <1>1, <2>1 DEF PInv, Progress, Alive
    <2>2. CASE d # c
      BY <1>1, <2>2 DEF PInv, Progress
    <2> QED
      BY <2>1, <2>2
  <1>5. Grouped'
    <2>1. status # "killed"
      BY <1>1 DEF PInv, Grouped
    <2>2. \A d \in Commands : place'[d] # "to come" => place[d] # "to come"
      BY <1>1 DEF Alive
    <2> QED
      BY <1>1, <2>1, <2>2 DEF PInv, Grouped, runner, Commands
  <1> QED
    BY <1>2, <1>3, <1>4, <1>5, CommandHolds DEF PInv

-----------------------------------------------------------------------------
\* A kill ends the runner and whoever is in its group: everybody.
LEMMA KillKeepsPInv ==
  ASSUME PInv, Kill
  PROVE  PInv'
  <1>1. UNCHANGED <<task, pl, idx, grouped, pgid, input, held, curr, prev, group, descriptors>>
        /\ pc' = "done" /\ status' = "killed"
    BY DEF Kill, Exits
  <1>2. \A c \in Commands :
          place'[c] = IF Alive(c) THEN "ended" ELSE place[c]
    <2>1. \A c \in Commands : Alive(c) => group[c] = Self
      BY DEF PInv, Grouped, Alive
    <2> QED
      BY <2>1 DEF PInv, PTypeOK, Kill
  <1>3. place' \in [Commands -> Places]
    BY DEF PInv, PTypeOK, Kill, Places
  <1>4. PTypeOK'
    BY <1>1, <1>3 DEF PInv, PTypeOK, Locations, descriptors, Commands
  <1>5. Located' /\ RunnerHolds' /\ RunnerReads'
    BY <1>1 DEF Located, RunnerHolds, RunnerReads, Working
  <1>6. Progress'
    <2> SUFFICES ASSUME NEW c \in Commands
                 PROVE  /\ c[1] < pl => place'[c] = "reaped"
                        /\ c[1] > pl => place'[c] = "to come"
      BY <1>1 DEF Progress, Working, Commands
    <2>1. /\ c[1] < pl => place[c] = "reaped"
          /\ c[1] > pl => place[c] = "to come"
      BY DEF PInv, Progress
    <2>2. place[c] \in {"reaped", "to come"} => place'[c] = place[c]
      BY <1>2 DEF Alive
    <2> QED
      BY <2>1, <2>2
  <1>7. \A c \in Commands : place'[c] \in {"to come", "ended", "reaped"}
    BY <1>2 DEF PInv, PTypeOK, Places, Alive
  <1>8. Grouped'
    <2>1. \A c \in Commands : place'[c] # "to come" => place[c] # "to come"
      BY <1>2 DEF Alive
    <2> QED
      BY <1>1, <1>7, <2>1 DEF PInv, Grouped, Alive, Working, Commands
  <1>9. ChildHolds'
    <2>1. \A c \in Commands : place'[c] = "to come" => stdout[c] = Given("w")
      BY <1>2 DEF PInv, ChildHolds, Alive
    <2> QED
      BY <1>1, <1>7, <2>1 DEF ChildHolds, Alive, descriptors, Commands
  <1> QED
    BY <1>4, <1>5, <1>6, <1>8, <1>9 DEF PInv

LEMMA StutterKeepsPInv ==
  ASSUME PInv, UNCHANGED vars
  PROVE  PInv'
  <1> USE DEF vars, runner, descriptors, Commands
  <1>1. PTypeOK'
    BY DEF PInv, PTypeOK
  <1>2. Located' /\ RunnerHolds' /\ RunnerReads'
    BY DEF PInv, Located, RunnerHolds, RunnerReads, HasNext, Pipeline
  <1>3. Progress'
    BY DEF PInv, Progress
  <1>4. Grouped' /\ ChildHolds'
    BY ChildrenStay DEF PInv, Grouped
  <1> QED
    BY <1>1, <1>2, <1>3, <1>4 DEF PInv

\* The invariant holds whatever the tasks are, whoever is scheduled, and whatever the
\* kernel refuses: where the runner is tells which commands are there, and every
\* process has the ends of the pipes beside its command and no others.
THEOREM PInvHolds == Spec => []PInv
  <1>1. ASSUME PInv, [Next]_vars
        PROVE  PInv'
    <2>1. CASE Runner
      BY <1>1, <2>1, NextKeepsPInv, InputKeepsPInv, PipeKeepsPInv, ForkKeepsPInv,
         ParentKeepsPInv, CloseKeepsPInv, WaitKeepsPInv DEF Runner
    <2>2. CASE \E c \in Commands : Command(c)
      BY <1>1, <2>2, CommandKeepsPInv
    <2>3. CASE Kill
      BY <1>1, <2>3, KillKeepsPInv
    <2>4. CASE UNCHANGED vars
      BY <1>1, <2>4, StutterKeepsPInv
    <2> QED
      BY <1>1, <2>1, <2>2, <2>3, <2>4 DEF Next
  <1> QED
    BY <1>1, PInvInit, PTL DEF Spec

-----------------------------------------------------------------------------
(* What it says of the properties.                                         *)

LEMMA PInvConnects == PInv => Connected
  <1> SUFFICES ASSUME PInv, NEW c \in Commands, place[c] = "runs"
               PROVE  /\ c[2] # 1 => stdin[c] = <<c[1], c[2] - 1, "r">>
                      /\ c[2] = 1 /\ task[c[1]].input = "file" => stdin[c] = File(c[1], "r")
                      /\ c[2] = 1 /\ (\A q \in 1..c[1] : task[q].input = "given")
                           => stdin[c] = Given("r")
                      /\ stdout[c] = IF ~IsLast(c) THEN PipeEnd(c, "w")
                                     ELSE IF task[c[1]].output = "file" THEN File(c[1], "w")
                                     ELSE Given("w")
                      /\ \A e \in ends[c] : ~IsPipeEnd(e)
    BY DEF Connected
  <1>1. /\ c[2] = 1 => Feeds(task, stdin[c], c[1])
        /\ c[2] > 1 => stdin[c] = <<c[1], c[2] - 1, "r">>
        /\ stdout[c] = Fed(task, c)
        /\ \A e \in ends[c] : ~IsPipeEnd(e)
    BY DEF PInv, ChildHolds, Alive
  <1>2. c[2] # 1 => c[2] > 1
    <2>1. task \in Tasks
      BY DEF PInv, PTypeOK
    <2>2. c[2] \in Nat \ {0}
      BY <2>1, CommandFacts
    <2> QED
      BY <2>2
  <1>3. Fed(task, c) = IF ~IsLast(c) THEN PipeEnd(c, "w")
                       ELSE IF task[c[1]].output = "file" THEN File(c[1], "w")
                       ELSE Given("w")
    BY DEF Fed, Last, IsLast
  <1> QED
    BY <1>1, <1>2, <1>3 DEF Feeds

\* A command that runs is connected to its neighbours, to the files of its pipeline
\* and to nothing else, in pipelines of any length: execute_pipeline closes all that
\* has to be closed.
THEOREM RunnerConnected == Spec => []Connected
  BY PInvHolds, PInvConnects, PTL

LEMMA PInvInTurn == PInv => InTurn
  <1> SUFFICES ASSUME PInv PROVE InTurn
    OBVIOUS
  <1>1. task \in Tasks /\ pl \in Nat \ {0}
    BY DEF PInv, PTypeOK
  <1>2. ASSUME NEW c \in Commands, NEW d \in Commands, c[1] < d[1], place[d] # "to come"
        PROVE  ~Alive(c)
    <2>1. ~(d[1] > pl)
      BY <1>2 DEF PInv, Progress
    <2>2. c[1] < pl
      <3>1. c[1] \in Nat /\ d[1] \in Nat
        BY <1>1, CommandFacts
      <3>2. \A i, j, n \in Nat : i < j /\ ~(j > n) => i < n
        OBVIOUS
      <3>3. c[1] < d[1] /\ pl \in Nat
        BY <1>1, <1>2
      <3> QED
        BY <2>1, <3>1, <3>2, <3>3
    <2> QED
      BY <2>2 DEF PInv, Progress, Alive
  <1>3. ASSUME status = "0", NEW c \in Commands
        PROVE  place[c] = "reaped"
    <2>1. pl \notin DOMAIN task
      BY <1>3 DEF PInv, Located
    <2>2. c[1] \in DOMAIN task
      BY <1>1, CommandFacts
    <2>3. c[1] < pl
      <3>1. Len(task) \in Nat /\ DOMAIN task = 1..Len(task)
        BY <1>1, TaskFacts
      <3> QED
        BY <1>1, <2>1, <2>2, <3>1
    <2> QED
      BY <2>3 DEF PInv, Progress
  <1> QED
    BY <1>2, <1>3 DEF InTurn

\* The runner carries out any number of pipelines one after the other, and exits with
\* 0 when all their commands have been started and have ended.
THEOREM RunnerInTurn == Spec => []InTurn
  BY PInvHolds, PInvInTurn, PTL

\* Whenever the spooler kills the group of a runner, every command dies with it: each
\* is in that group from its fork on, in whatever order runner and child set it.
THEOREM RunnerKilledWhole == Spec => []KilledWhole
  <1>1. PInv => KilledWhole
    BY DEF PInv, Grouped, KilledWhole
  <1> QED
    BY <1>1, PInvHolds, PTL

=============================================================================
