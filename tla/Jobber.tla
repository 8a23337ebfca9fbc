------------------------------- MODULE Jobber -------------------------------
(***************************************************************************)
(* The job spooler of hw4 (src/hw4/src/jobs.c): a table of jobs, driven by *)
(* the commands typed at the prompt and by the SIGCHLD handler, and the    *)
(* runner processes the kernel keeps for it.                               *)
(*                                                                         *)
(* There are two stack frames, "main" and "handler".  The handler is       *)
(* installed with no SA_NODEFER, so it does not interrupt itself; but no   *)
(* command blocks SIGCHLD, so it may suspend main between any two of its   *)
(* steps.  Main resumes when the handler has returned.  Runner processes   *)
(* run all the time.                                                       *)
(*                                                                         *)
(* check_and_execute_jobs and execute_job are called from both frames:     *)
(* their actions take the frame as a parameter, and pc, idx, cnt and child *)
(* are that frame's program counter and locals.                            *)
(*                                                                         *)
(* An operator named Op_Fault is a faulty variant of Op, used only to show *)
(* that a property of the module notices the fault.                        *)
(***************************************************************************)
EXTENDS Integers, FiniteSets

CONSTANTS
  MAX_JOBS,     \* size of job_table
  MAX_RUNNERS,  \* limit check_and_execute_jobs counts up to
  Pids,         \* numbers the kernel may give to runner processes
  NoPid,        \* -1: the pgid of a job that has none, and fork's failure
  ForkMayFail   \* whether fork may fail while process numbers are left

ASSUME JobberAssumption ==
  /\ MAX_JOBS \in Nat \ {0}
  /\ MAX_RUNNERS \in Nat \ {0}
  /\ NoPid \notin Pids
  /\ ForkMayFail \in BOOLEAN

Jobs == 0 .. MAX_JOBS - 1
Frames == {"main", "handler"}
Statuses == {"NEW", "WAITING", "RUNNING", "PAUSED",
             "CANCELED", "COMPLETED", "ABORTED"}
Started == {"RUNNING", "PAUSED"}
Active == Started \cup {"CANCELED"}     \* the jobs the handler polls
Terminal == {"COMPLETED", "ABORTED"}

Zombie == {"exited", "killed"}
ProcStates == {"none", "running", "stopped", "dying"} \cup Zombie

VARIABLES
  task,      \* task[j]: job_table[j].task is not NULL, the slot is in use
  status,    \* status[j]: job_table[j].job_status, kept when the slot is freed
  pgid,      \* pgid[j]: job_table[j].pgid
  canceled,  \* canceled[j]: job_table[j].canceled
  enable,    \* the flag jobs may start
  pc, idx, cnt, child,  \* per frame: location, i (or jobid), running_cnt, cpid
  proc,      \* proc[p]: what process p is for the kernel
  grouped,   \* grouped[p]: p has called setpgrp, its group exists
  event,     \* event[p]: stop or continuation of p not yet reported by waitpid
  owner,     \* owner[p]: the job p was forked for (not a variable of the code)
  sigchld    \* a SIGCHLD is pending: one bit, however many were sent

table == <<task, status, pgid, canceled, enable>>
frames == <<pc, idx, cnt, child>>
kernel == <<proc, grouped, event, owner, sigchld>>
vars == <<table, frames, kernel>>

-----------------------------------------------------------------------------
(* Frames.                                                                 *)

\* main takes no step while the handler is on top of it
At(f, loc) == pc[f] = loc /\ (f = "main" => pc["handler"] = "idle")

Goto(f, loc, i, n) ==
  /\ pc' = [pc EXCEPT ![f] = loc]
  /\ idx' = [idx EXCEPT ![f] = i]
  /\ cnt' = [cnt EXCEPT ![f] = n]

Home(f) == IF f = "main" THEN "prompt" ELSE "idle"
Return(f) == Goto(f, Home(f), 0, 0)

AtPrompt == At("main", "prompt")

\* main is in jobs_fini, where SIGCHLD has its default action, or beyond
Finishing == {"fini_cancel", "fini_wait", "fini_expunge", "exited"}

AlterStatus(j, s) == status' = [status EXCEPT ![j] = s]

-----------------------------------------------------------------------------
(* The kernel: fork, killpg and waitpid.                                   *)

\* A number is given out again only when nothing refers to it any more.
FreshPids ==
  {p \in Pids : /\ proc[p] = "none"
                /\ \A j \in Jobs : task[j] => pgid[j] # p
                /\ \A f \in Frames : child[f] # p}

\* killpg(g, ...) finds the group, which a zombie leader keeps in being
GroupExists(g) == g \in Pids /\ proc[g] # "none" /\ grouped[g]

\* SIGKILL discards an unreported stop or continuation
SigKill(g) ==
  IF proc[g] \in {"running", "stopped"}
  THEN /\ proc' = [proc EXCEPT ![g] = "dying"]
       /\ event' = [event EXCEPT ![g] = "none"]
       /\ UNCHANGED <<grouped, owner, sigchld>>
  ELSE UNCHANGED kernel

\* SIGSTOP and SIGCONT: the last change of state replaces an unreported one
Signal(g, from, to, what) ==
  IF proc[g] = from
  THEN /\ proc' = [proc EXCEPT ![g] = to]
       /\ event' = [event EXCEPT ![g] = what]
       /\ sigchld' = TRUE
       /\ UNCHANGED <<grouped, owner>>
  ELSE UNCHANGED kernel

\* the children waitpid(g, ...) asks about: waitpid(-1) asks about them all
Asked(g) == {p \in Pids : proc[p] # "none" /\ g \in {p, NoPid}}
Ended(g) == {p \in Asked(g) : proc[p] \in Zombie}
Reportable(g) == Ended(g) \cup {p \in Asked(g) : event[p] # "none"}

\* process_wstatus: the status the report of a process gives to the job
StatusFor(p) ==
  CASE proc[p] = "exited"                                -> "COMPLETED"
    [] proc[p] = "killed"                                -> "ABORTED"
    [] proc[p] \notin Zombie /\ event[p] = "stopped"     -> "PAUSED"
    [] OTHER                                             -> "RUNNING"

\* waitpid returns p: a zombie is gone, an event is reported once
Collect(p) ==
  /\ IF proc[p] \in Zombie
     THEN /\ proc' = [proc EXCEPT ![p] = "none"]
          /\ grouped' = [grouped EXCEPT ![p] = FALSE]
          /\ owner' = [owner EXCEPT ![p] = 0]
     ELSE UNCHANGED <<proc, grouped, owner>>
  /\ event' = [event EXCEPT ![p] = "none"]
  /\ UNCHANGED sigchld

-----------------------------------------------------------------------------
(* check_and_execute_jobs and execute_job, in frame f.                     *)

Scan_PastTheEnd(f, i, n) ==
  IF i <= MAX_JOBS THEN Goto(f, "scan", i, n) ELSE Return(f)

Scan(f, i, n) == IF i < MAX_JOBS THEN Goto(f, "scan", i, n) ELSE Return(f)

CheckAndExecute_Always(f, en) == Scan(f, 0, 0)

CheckAndExecute(f, en) == IF en THEN Scan(f, 0, 0) ELSE Return(f)

Considered_AnySlot(f) == cnt[f] < MAX_RUNNERS

Considered(f) == task[idx[f]] /\ cnt[f] < MAX_RUNNERS

\* one turn of the loop, up to the test of the status just read
ScanJob(f) ==
  LET i == idx[f] IN
  /\ At(f, "scan")
  /\ \/ /\ Considered(f) /\ status[i] = "WAITING"
        /\ Goto(f, "start", i, cnt[f])
     \/ /\ Considered(f) /\ status[i] \in Started
        /\ Scan(f, i + 1, cnt[f] + 1)
     \/ /\ ~(Considered(f) /\ status[i] \in Started \cup {"WAITING"})
        /\ Scan(f, i + 1, cnt[f])
  /\ UNCHANGED <<table, child, kernel>>

StartJob_LeftWaiting(f) ==
  /\ At(f, "start")
  /\ Goto(f, "fork", idx[f], cnt[f])
  /\ UNCHANGED <<table, child, kernel>>

\* execute_job: RUNNING is set before there is a process
StartJob(f) ==
  /\ At(f, "start")
  /\ AlterStatus(idx[f], "RUNNING")
  /\ Goto(f, "fork", idx[f], cnt[f])
  /\ UNCHANGED <<task, pgid, canceled, enable, child, kernel>>

\* the child leads no group yet: it calls setpgrp itself
Fork(f) ==
  /\ At(f, "fork")
  /\ \E p \in FreshPids :
       /\ proc' = [proc EXCEPT ![p] = "running"]
       /\ owner' = [owner EXCEPT ![p] = idx[f]]
       /\ child' = [child EXCEPT ![f] = p]
  /\ Goto(f, "record", idx[f], cnt[f])
  /\ UNCHANGED <<table, grouped, event, sigchld>>

\* fork returns -1, which execute_job does not test
ForkFails(f) ==
  /\ At(f, "fork")
  /\ ForkMayFail \/ FreshPids = {}
  /\ child' = [child EXCEPT ![f] = NoPid]
  /\ Goto(f, "record", idx[f], cnt[f])
  /\ UNCHANGED <<table, kernel>>

RecordPgid_NotCounted(f) ==
  /\ At(f, "record")
  /\ pgid' = [pgid EXCEPT ![idx[f]] = child[f]]
  /\ child' = [child EXCEPT ![f] = NoPid]
  /\ Scan(f, idx[f] + 1, cnt[f])
  /\ UNCHANGED <<task, status, canceled, enable, kernel>>

RecordPgid(f) ==
  /\ At(f, "record")
  /\ pgid' = [pgid EXCEPT ![idx[f]] = child[f]]
  /\ child' = [child EXCEPT ![f] = NoPid]
  /\ Scan(f, idx[f] + 1, cnt[f] + 1)
  /\ UNCHANGED <<task, status, canceled, enable, kernel>>

ExecuteStep(f) ==
  ScanJob(f) \/ StartJob(f) \/ Fork(f) \/ ForkFails(f) \/ RecordPgid(f)

-----------------------------------------------------------------------------
(* The commands of main.                                                   *)

SetEnabled(val) ==
  /\ AtPrompt
  /\ enable' = val
  /\ CheckAndExecute("main", val)
  /\ UNCHANGED <<task, status, pgid, canceled, child, kernel>>

\* job_create takes the first free slot; ok: parse_task accepts the text
JobCreate(ok) ==
  /\ AtPrompt
  /\ \E j \in Jobs :
       /\ ~task[j] /\ \A k \in 0 .. j - 1 : task[k]
       /\ task' = [task EXCEPT ![j] = ok]
       /\ AlterStatus(j, "NEW")
       /\ pgid' = [pgid EXCEPT ![j] = NoPid]
       /\ canceled' = [canceled EXCEPT ![j] = FALSE]
       /\ Goto("main", "create", j, 0)
  /\ UNCHANGED <<enable, child, kernel>>

JobCreated ==
  /\ At("main", "create")
  /\ AlterStatus(idx["main"], "WAITING")
  /\ CheckAndExecute("main", enable)
  /\ UNCHANGED <<task, pgid, canceled, enable, child, kernel>>

Expungeable_NotWaiting(j) == task[j] /\ status[j] # "WAITING"

Expungeable(j) == task[j] /\ status[j] \in Terminal

JobExpunge(j) ==
  /\ AtPrompt
  /\ Expungeable(j)
  /\ task' = [task EXCEPT ![j] = FALSE]
  /\ UNCHANGED <<status, pgid, canceled, enable, frames, kernel>>

\* job_cancel_internal up to a successful killpg; a WAITING job has no group
Cancelable(j) ==
  /\ task[j] /\ status[j] \notin Terminal \cup {"CANCELED"}
  /\ GroupExists(pgid[j])

MarkCanceled(j) ==
  /\ canceled' = [canceled EXCEPT ![j] = TRUE]
  /\ AlterStatus(j, IF status[j] \in {"NEW", "WAITING"} THEN "ABORTED"
                                                        ELSE "CANCELED")

JobCancel(j) ==
  /\ AtPrompt
  /\ Cancelable(j)
  /\ SigKill(pgid[j])
  /\ Goto("main", "cancel", j, 0)
  /\ UNCHANGED <<table, child>>

JobCanceled ==
  /\ At("main", "cancel")
  /\ MarkCanceled(idx["main"])
  /\ Return("main")
  /\ UNCHANGED <<task, pgid, enable, child, kernel>>

\* job_pause and job_resume only send the signal: the handler sets the status
JobPause(j) ==
  /\ AtPrompt
  /\ task[j] /\ status[j] = "RUNNING" /\ GroupExists(pgid[j])
  /\ Signal(pgid[j], "running", "stopped", "stopped")
  /\ UNCHANGED <<table, frames>>

JobResume(j) ==
  /\ AtPrompt
  /\ task[j] /\ status[j] = "PAUSED" /\ GroupExists(pgid[j])
  /\ Signal(pgid[j], "stopped", "running", "continued")
  /\ UNCHANGED <<table, frames>>

-----------------------------------------------------------------------------
(* jobs_fini, for quit and for end of input: SIGCHLD is ignored from here. *)

Quit ==
  /\ AtPrompt
  /\ sigchld' = FALSE
  /\ Goto("main", "fini_cancel", 0, 0)
  /\ UNCHANGED <<table, child, proc, grouped, event, owner>>

FiniNext(loc, next) ==
  LET i == idx["main"] + 1 IN
  IF i < MAX_JOBS THEN Goto("main", loc, i, 0) ELSE Goto("main", next, 0, 0)

FiniCancel ==
  LET j == idx["main"] IN
  /\ At("main", "fini_cancel")
  /\ \/ Cancelable(j) /\ SigKill(pgid[j]) /\ MarkCanceled(j)
     \/ ~Cancelable(j) /\ UNCHANGED <<status, canceled, kernel>>
  /\ FiniNext("fini_cancel", "fini_wait")
  /\ UNCHANGED <<task, pgid, enable, child>>

\* a blocking waitpid; with no such child wstatus stays 0, a normal exit
FiniWait ==
  LET j == idx["main"] IN
  /\ At("main", "fini_wait")
  /\ task[j] /\ status[j] \in Active
  /\ \/ \E p \in Ended(pgid[j]) : AlterStatus(j, StatusFor(p)) /\ Collect(p)
     \/ Asked(pgid[j]) = {} /\ AlterStatus(j, "COMPLETED") /\ UNCHANGED kernel
  /\ Goto("main", "fini_expunge", j, 0)
  /\ UNCHANGED <<task, pgid, canceled, enable, child>>

\* job_expunge_internal, for a job that was waited for or needs no waiting
FiniExpunge ==
  LET j == idx["main"] IN
  /\ \/ At("main", "fini_expunge")
     \/ At("main", "fini_wait") /\ ~(task[j] /\ status[j] \in Active)
  /\ task' = [task EXCEPT ![j] = task[j] /\ ~Expungeable(j)]
  /\ FiniNext("fini_wait", "exited")
  /\ UNCHANGED <<status, pgid, canceled, enable, child, kernel>>

Exited == pc["main"] = "exited" /\ UNCHANGED vars

-----------------------------------------------------------------------------
(* terminate_handler.                                                      *)

\* SIGCHLD is delivered: main is suspended where it is
Deliver ==
  /\ sigchld
  /\ pc["handler"] = "idle" /\ pc["main"] \notin Finishing
  /\ sigchld' = FALSE
  /\ Goto("handler", "check", 0, 0)
  /\ UNCHANGED <<table, child, proc, grouped, event, owner>>

Poll_SkipsCanceled(j) ==
  IF task[j] /\ status[j] \in Started /\ Reportable(pgid[j]) # {}
  THEN \E p \in Reportable(pgid[j]) : AlterStatus(j, StatusFor(p)) /\ Collect(p)
  ELSE UNCHANGED <<status, kernel>>

\* check_a_job: a job that is active has its runner polled, once
Poll(j) ==
  IF task[j] /\ status[j] \in Active /\ Reportable(pgid[j]) # {}
  THEN \E p \in Reportable(pgid[j]) : AlterStatus(j, StatusFor(p)) /\ Collect(p)
  ELSE UNCHANGED <<status, kernel>>

CheckNext_NoRescan(j) ==
  IF j + 1 < MAX_JOBS THEN Goto("handler", "check", j + 1, 0) ELSE Return("handler")

CheckNext_OneReport(j) ==
  IF j + 1 < MAX_JOBS /\ status' = status THEN Goto("handler", "check", j + 1, 0)
                                         ELSE CheckAndExecute("handler", enable)

CheckNext(j) ==
  IF j + 1 < MAX_JOBS THEN Goto("handler", "check", j + 1, 0)
                      ELSE CheckAndExecute("handler", enable)

CheckAJob ==
  /\ At("handler", "check")
  /\ Poll(idx["handler"])
  /\ CheckNext(idx["handler"])
  /\ UNCHANGED <<task, pgid, canceled, enable, child>>

-----------------------------------------------------------------------------
(* The runner processes.                                                   *)

Become(p, s, ev) ==
  /\ proc' = [proc EXCEPT ![p] = s]
  /\ event' = [event EXCEPT ![p] = ev]
  /\ sigchld' = (pc["main"] \notin Finishing)
  /\ UNCHANGED <<table, frames, grouped, owner>>

RunnerGroups(p) ==
  /\ proc[p] = "running" /\ ~grouped[p]
  /\ grouped' = [grouped EXCEPT ![p] = TRUE]
  /\ UNCHANGED <<table, frames, proc, event, owner, sigchld>>

RunnerExits(p) == proc[p] = "running" /\ grouped[p] /\ Become(p, "exited", "none")

\* a signal the spooler did not send ends or stops the runner
RunnerKilled(p) == proc[p] \in {"running", "stopped"} /\ Become(p, "killed", "none")
RunnerStops(p) ==
  proc[p] = "running" /\ grouped[p] /\ Become(p, "stopped", "stopped")

\* the SIGKILL of killpg takes effect
RunnerDies(p) == proc[p] = "dying" /\ Become(p, "killed", "none")

RunnerStep(p) ==
  \/ RunnerGroups(p) \/ RunnerExits(p) \/ RunnerKilled(p) \/ RunnerStops(p)
  \/ RunnerDies(p)

-----------------------------------------------------------------------------
Init ==
  /\ task = [j \in Jobs |-> FALSE]
  /\ status = [j \in Jobs |-> "NEW"]
  /\ pgid = [j \in Jobs |-> NoPid]
  /\ canceled = [j \in Jobs |-> FALSE]
  /\ enable = FALSE
  /\ pc = [f \in Frames |-> Home(f)]
  /\ idx = [f \in Frames |-> 0]
  /\ cnt = [f \in Frames |-> 0]
  /\ child = [f \in Frames |-> NoPid]
  /\ proc = [p \in Pids |-> "none"]
  /\ grouped = [p \in Pids |-> FALSE]
  /\ event = [p \in Pids |-> "none"]
  /\ owner = [p \in Pids |-> 0]
  /\ sigchld = FALSE

Command ==
  \/ \E val \in BOOLEAN : SetEnabled(val)
  \/ \E ok \in BOOLEAN : JobCreate(ok)
  \/ \E j \in Jobs : JobExpunge(j) \/ JobCancel(j) \/ JobPause(j) \/ JobResume(j)
  \/ Quit

\* main carries on with the command it is in
MainStep ==
  \/ ExecuteStep("main") \/ JobCreated \/ JobCanceled
  \/ FiniCancel \/ FiniWait \/ FiniExpunge

HandlerStep == CheckAJob \/ ExecuteStep("handler")

\* every step but the delivery of SIGCHLD
OtherStep ==
  Command \/ MainStep \/ HandlerStep \/ Exited \/ \E p \in Pids : RunnerStep(p)

Next == Deliver \/ OtherStep

Spec == Init /\ [][Next]_vars

(* An assumption about the runners, not a part of the code: none changes   *)
(* state while a command is being carried out, so that SIGCHLD comes at    *)
(* the prompt only.  The code does not see to it, for it masks SIGCHLD in  *)
(* sf_readline and not in its commands; what happens without it is the     *)
(* matter of Spec.                                                         *)
MaskedNext == (Deliver /\ pc["main"] = "prompt") \/ OtherStep

MaskedSpec == Init /\ [][MaskedNext]_vars

(* Main and the handler run whenever they can, a SIGKILLed process dies,   *)
(* and a pending SIGCHLD is delivered if pselect keeps unmasking it.       *)
Fairness ==
  /\ WF_vars(MainStep)
  /\ WF_vars(HandlerStep)
  /\ SF_vars(Deliver /\ pc["main"] = "prompt")
  /\ \A p \in Pids : WF_vars(RunnerGroups(p)) /\ WF_vars(RunnerDies(p))

FairMaskedSpec == MaskedSpec /\ Fairness

-----------------------------------------------------------------------------
(* Properties of Spec: what holds wherever the handler strikes.            *)

Executing(f) == pc[f] \in {"start", "fork", "record"}
Launching == {"scan", "start", "fork", "record"}
MainLocs == {"prompt", "create", "cancel"} \cup Launching \cup Finishing
HandlerLocs == {"idle", "check"} \cup Launching

TypeOK ==
  /\ task \in [Jobs -> BOOLEAN]
  /\ status \in [Jobs -> Statuses]
  /\ pgid \in [Jobs -> Pids \cup {NoPid}]
  /\ canceled \in [Jobs -> BOOLEAN]
  /\ enable \in BOOLEAN
  /\ pc \in [Frames -> MainLocs \cup HandlerLocs]
  /\ pc["main"] \in MainLocs
  /\ pc["handler"] \in HandlerLocs
  /\ idx \in [Frames -> Jobs]
  /\ cnt \in [Frames -> Nat]
  /\ child \in [Frames -> Pids \cup {NoPid}]
  /\ proc \in [Pids -> ProcStates]
  /\ grouped \in [Pids -> BOOLEAN]
  /\ event \in [Pids -> {"none", "stopped", "continued"}]
  /\ owner \in [Pids -> Jobs]
  /\ sigchld \in BOOLEAN

\* Whichever frame forks, jobs are enabled at that moment and the user has
\* not asked to quit: "disable" and jobs_fini are never overtaken by a scan.
Forks == \E p \in Pids : proc[p] = "none" /\ proc'[p] = "running"
NoStartWhenForbidden == [][Forks => enable /\ pc["main"] \notin Finishing]_vars

\* A frame in execute_job works for a job that has its task and has been
\* fully created: no freed task is dereferenced, no half-made job is started.
ExecutesLiveTask ==
  \A f \in Frames :
    Executing(f) => task[idx[f]] /\ status[idx[f]] # "NEW"

\* Nothing is going on and no SIGCHLD is on its way.
AtRest == AtPrompt /\ ~sigchld

ActiveJobs == {j \in Jobs : task[j] /\ status[j] \in Active}

\* No runner slot is left idle: at rest a job waits, with jobs enabled, only
\* if MAX_RUNNERS others are active; whatever ended a job has rescanned.
WorkConserving ==
  AtRest /\ enable /\ (\E j \in Jobs : task[j] /\ status[j] = "WAITING")
    => Cardinality(ActiveJobs) >= MAX_RUNNERS

-----------------------------------------------------------------------------
(* Properties of MaskedSpec, which the races of Spec break.                *)

\* The job f is executing: its runner is not recorded yet.
InExecute(j) == \E f \in Frames : Executing(f) /\ idx[f] = j

\* Active jobs and runner processes not yet reaped are one to one: no runner
\* is leaked, shared between jobs, or reaped in the name of another job.
OneRunnerPerActiveJob ==
  /\ \A j \in Jobs : task[j] /\ status[j] \in Active /\ ~InExecute(j)
       => pgid[j] # NoPid /\ proc[pgid[j]] # "none" /\ owner[pgid[j]] = j
  /\ \A p \in Pids : proc[p] # "none" =>
       LET j == owner[p] IN
       task[j] /\ status[j] \in Active /\ (pgid[j] = p \/ InExecute(j))

\* SIGCHLD is one bit, and stops and continuations overwrite each other, yet
\* no report is lost: at rest the table tells what each runner is doing.
TableTellsProcesses ==
  AtRest => \A j \in ActiveJobs :
    proc[pgid[j]] = CASE status[j] = "RUNNING"  -> "running"
                      [] status[j] = "PAUSED"   -> "stopped"
                      [] status[j] = "CANCELED" -> "dying"

\* CANCELED is a passing state: unless the user quits, the runner's death is
\* noticed, however many SIGCHLDs were merged into one.
CancelTerminates ==
  \A j \in Jobs :
    task[j] /\ status[j] = "CANCELED"
      ~> ~task[j] \/ status[j] \in Terminal \/ pc["main"] \in Finishing

\* No runner stays a zombie while the spooler runs.
ZombiesReaped ==
  \A p \in Pids :
    proc[p] \in Zombie ~> proc[p] = "none" \/ pc["main"] \in Finishing

-----------------------------------------------------------------------------
(* MaskedSpec implements the lifecycle of jobber.h; a slot is free while it *)
(* has no task, whatever status its last job left there.                   *)

life == [j \in Jobs |-> IF task[j] THEN status[j] ELSE "FREE"]

Lifecycle == INSTANCE JobLifecycle WITH Slots <- Jobs, enabled <- enable

\* Every step of the spooler is a step of a job's documented life, or changes
\* no job's state: nothing skips a state, revives, or ends twice.
FollowsLifecycle == Lifecycle!Spec

-----------------------------------------------------------------------------
(* What include/jobber.h says and the code does not do.                    *)

\* jobber.h:18: MAX_RUNNERS bounds the runner processes that exist; those that
\* have been sent a SIGKILL are not even counted here.
RunnersBounded ==
  Cardinality({p \in Pids : proc[p] \in {"running", "stopped"}}) <= MAX_RUNNERS

\* jobber.h:42: a RUNNING job is started and has its runner, which may be a
\* zombie the handler has yet to reap.
RunningHasRunner ==
  AtPrompt => \A j \in Jobs : task[j] /\ status[j] = "RUNNING"
                => \E p \in Pids : proc[p] # "none" /\ owner[p] = j

\* jobber.h:44: a CANCELED job is pending termination, its runner exists.
CanceledIsPending ==
  AtPrompt => \A j \in Jobs : task[j] /\ status[j] = "CANCELED"
                => GroupExists(pgid[j])

\* jobber.h:45: a COMPLETED job has terminated, it has no live runner.
CompletedHasTerminated ==
  AtPrompt => \A j \in Jobs : task[j] /\ status[j] = "COMPLETED"
                => ~\E p \in Pids : owner[p] = j /\ proc[p] \in {"running", "stopped"}

\* jobber.h:26: a WAITING job is assigned a runner process, one.
OneRunner ==
  \A j \in Jobs :
    Cardinality({p \in Pids : proc[p] # "none" /\ owner[p] = j}) <= 1

\* jobber.h:286: job_was_canceled says so only of a job that ended ABORTED.
WasCanceledIsAborted ==
  AtPrompt => \A j \in Jobs : task[j] /\ status[j] = "COMPLETED" => ~canceled[j]

\* jobber.h:157: jobs_fini cancels the remaining jobs and expunges all jobs.
FiniExpungesAll == pc["main"] = "exited" => \A j \in Jobs : ~task[j]

\* jobber.h:157: jobs_fini waits for jobs it has canceled, so it returns.
QuitReturns == pc["main"] = "fini_cancel" ~> pc["main"] = "exited"

=============================================================================
