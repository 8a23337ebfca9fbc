---------------------------- MODULE JobberProofs ----------------------------
(***************************************************************************)
(* What holds of the job spooler for every table size, every MAX_RUNNERS   *)
(* and every set of process numbers, whether or not fork may fail.         *)
(*                                                                         *)
(* First the properties of Spec, where the handler strikes anywhere; then  *)
(* those of MaskedSpec, where SIGCHLD is masked during commands: that it   *)
(* implements the life of a job that jobber.h documents, even if fork may  *)
(* fail, and that, if forks succeed, active jobs and runners are one to    *)
(* one and the table tells, at rest, what the runners do.                  *)
(***************************************************************************)
EXTENDS Jobber, TLAPS, FiniteSetTheorems

USE JobberAssumption

\* Jobs are being started only while they are enabled.
LaunchEnabled == \A f \in Frames : pc[f] \in Launching => enable

\* jobs_fini begins at the prompt, with no handler on top of it, and no
\* handler comes after.
NoHandlerInFini == pc["handler"] # "idle" => pc["main"] \notin Finishing

IInv == TypeOK /\ LaunchEnabled /\ NoHandlerInFini /\ ExecutesLiveTask

-----------------------------------------------------------------------------
(* Goto, and what is built on it, keep the locals in range.                *)

Locs == MainLocs \cup HandlerLocs

FrameTypes ==
  /\ pc \in [Frames -> Locs]
  /\ idx \in [Frames -> Jobs]
  /\ cnt \in [Frames -> Nat]

LEMMA JobsFacts ==
  /\ 0 \in Jobs
  /\ \A i \in Jobs : i \in Int /\ (i + 1 < MAX_JOBS => i + 1 \in Jobs)
BY DEF Jobs

LEMMA GotoType ==
  ASSUME FrameTypes, NEW f \in Frames, NEW loc \in Locs, NEW i \in Jobs,
         NEW n \in Nat, Goto(f, loc, i, n)
  PROVE  /\ FrameTypes'
         /\ pc'[f] = loc /\ idx'[f] = i /\ cnt'[f] = n
         /\ \A g \in Frames \ {f} :
              pc'[g] = pc[g] /\ idx'[g] = idx[g] /\ cnt'[g] = cnt[g]
BY DEF Goto, FrameTypes

\* A scan goes on in the same frame, or that frame's caller goes on.
LEMMA ScanType ==
  ASSUME FrameTypes, NEW f \in Frames, NEW i \in Nat, NEW n \in Nat, Scan(f, i, n)
  PROVE  /\ FrameTypes'
         /\ pc'[f] = "scan" \/ pc'[f] = Home(f)
         /\ \A g \in Frames \ {f} :
              pc'[g] = pc[g] /\ idx'[g] = idx[g] /\ cnt'[g] = cnt[g]
<1>1. CASE i < MAX_JOBS
  <2>1. i \in Jobs /\ Goto(f, "scan", i, n)  BY <1>1 DEF Scan, Jobs
  <2>2. "scan" \in Locs  BY DEF Locs, MainLocs, Launching
  <2> QED BY <2>1, <2>2, GotoType
<1>2. CASE ~(i < MAX_JOBS)
  <2>1. 0 \in Jobs /\ Goto(f, Home(f), 0, 0)  BY <1>2, JobsFacts DEF Scan, Return
  <2>2. Home(f) \in Locs  BY DEF Home, Locs, MainLocs, HandlerLocs
  <2> QED BY <2>1, <2>2, GotoType
<1> QED BY <1>1, <1>2

LEMMA CheckAndExecuteType ==
  ASSUME FrameTypes, NEW f \in Frames, NEW en \in BOOLEAN, CheckAndExecute(f, en)
  PROVE  /\ FrameTypes'
         /\ (pc'[f] = "scan" /\ en) \/ pc'[f] = Home(f)
         /\ \A g \in Frames \ {f} :
              pc'[g] = pc[g] /\ idx'[g] = idx[g] /\ cnt'[g] = cnt[g]
<1>1. CASE en
  BY <1>1, ScanType DEF CheckAndExecute
<1>2. CASE ~en
  <2>1. 0 \in Jobs /\ Goto(f, Home(f), 0, 0)
    BY <1>2, JobsFacts DEF CheckAndExecute, Return
  <2>2. Home(f) \in Locs  BY DEF Home, Locs, MainLocs, HandlerLocs
  <2> QED BY <2>1, <2>2, GotoType
<1> QED BY <1>1, <1>2

-----------------------------------------------------------------------------
(* The kernel's part of the state stays in range.                          *)

KernelType ==
  /\ proc \in [Pids -> ProcStates]
  /\ grouped \in [Pids -> BOOLEAN]
  /\ event \in [Pids -> {"none", "stopped", "continued"}]
  /\ owner \in [Pids -> Jobs]
  /\ sigchld \in BOOLEAN

LEMMA StatusForType ==
  ASSUME NEW p \in Pids
  PROVE  /\ StatusFor(p) \in Statuses \ {"NEW"}
         /\ proc[p] \in Zombie => StatusFor(p) \in Terminal
BY DEF StatusFor, Statuses, Terminal, Zombie

LEMMA CollectType ==
  ASSUME KernelType, NEW p \in Pids, Collect(p)
  PROVE  KernelType'
BY JobsFacts DEF KernelType, Collect, ProcStates

LEMMA SigKillType ==
  ASSUME KernelType, NEW p \in Pids, SigKill(p)
  PROVE  KernelType'
BY DEF KernelType, SigKill, ProcStates, kernel

LEMMA SignalType ==
  ASSUME KernelType, NEW p \in Pids, NEW from, NEW to \in ProcStates,
         NEW ev \in {"none", "stopped", "continued"}, Signal(p, from, to, ev)
  PROVE  KernelType'
BY DEF KernelType, Signal, kernel

LEMMA BecomeType ==
  ASSUME KernelType, NEW p \in Pids, NEW s \in ProcStates,
         NEW ev \in {"none", "stopped", "continued"}, Become(p, s, ev)
  PROVE  KernelType'
BY DEF KernelType, Become

-----------------------------------------------------------------------------
(* IInv is preserved: the steps of check_and_execute_jobs, in any frame.   *)

LEMMA ExecutePreserves ==
  ASSUME IInv, NEW f \in Frames, ExecuteStep(f)
  PROVE  IInv'
<1> USE DEF IInv, TypeOK, FrameTypes, Locs
<1> DEFINE i == idx[f]
<1>0. i \in Jobs /\ i \in Nat /\ i + 1 \in Nat /\ cnt[f] \in Nat /\ cnt[f] + 1 \in Nat
  BY DEF Jobs
<1>1. CASE ScanJob(f)
  <2>1. At(f, "scan") /\ UNCHANGED <<table, child, kernel>>
    BY <1>1 DEF ScanJob, Considered
  <2>2. /\ FrameTypes'
        /\ \/ pc'[f] = "start" /\ idx'[f] = i /\ task[i] /\ status[i] = "WAITING"
           \/ pc'[f] = "scan" 
           \/ pc'[f] = Home(f)
        /\ \A g \in Frames \ {f} :
              pc'[g] = pc[g] /\ idx'[g] = idx[g] /\ cnt'[g] = cnt[g]
    <3>1. CASE /\ task[i] /\ status[i] = "WAITING"
               /\ Goto(f, "start", i, cnt[f])
      <4>1. "start" \in Locs  BY DEF MainLocs, Launching
      <4> QED BY <3>1, <4>1, <1>0, GotoType
    <3>2. CASE Scan(f, i + 1, cnt[f] + 1)
      BY <3>2, <1>0, ScanType
    <3>3. CASE Scan(f, i + 1, cnt[f])
      BY <3>3, <1>0, ScanType
    <3> QED BY <1>1, <3>1, <3>2, <3>3 DEF ScanJob, Considered
  <2> QED
    BY <2>1, <2>2 DEF At, table, kernel, Home, LaunchEnabled, NoHandlerInFini,
       ExecutesLiveTask, Executing, Launching, MainLocs, HandlerLocs, Finishing, Frames
<1>2. CASE StartJob(f)
  <2>1. /\ At(f, "start") /\ Goto(f, "fork", i, cnt[f])
        /\ status' = [status EXCEPT ![i] = "RUNNING"]
        /\ UNCHANGED <<task, pgid, canceled, enable, child, kernel>>
    BY <1>2 DEF StartJob, AlterStatus
  <2>2. "fork" \in Locs  BY DEF MainLocs, Launching
  <2>3. /\ FrameTypes' /\ pc'[f] = "fork" /\ idx'[f] = i
        /\ \A g \in Frames \ {f} : pc'[g] = pc[g] /\ idx'[g] = idx[g]
    BY <2>1, <2>2, <1>0, GotoType
  <2>4. status' \in [Jobs -> Statuses]
    BY <2>1, <1>0 DEF Statuses
  <2> QED
    BY <2>1, <2>3, <2>4, <1>0 DEF At, kernel, LaunchEnabled, NoHandlerInFini,
       ExecutesLiveTask, Executing, Launching, MainLocs, HandlerLocs, Finishing, Frames
<1>3. CASE Fork(f) \/ ForkFails(f)
  <2>1. /\ At(f, "fork") /\ Goto(f, "record", i, cnt[f])
        /\ UNCHANGED <<table, grouped, event, sigchld>>
    BY <1>3 DEF Fork, ForkFails, kernel
  <2>2. /\ proc' \in [Pids -> ProcStates] /\ owner' \in [Pids -> Jobs]
        /\ child' \in [Frames -> Pids \cup {NoPid}]
    BY <1>3, <1>0 DEF Fork, ForkFails, kernel, FreshPids, ProcStates
  <2>3. "record" \in Locs  BY DEF MainLocs, Launching
  <2>4. /\ FrameTypes' /\ pc'[f] = "record" /\ idx'[f] = i
        /\ \A g \in Frames \ {f} : pc'[g] = pc[g] /\ idx'[g] = idx[g]
    BY <2>1, <2>3, <1>0, GotoType
  <2> QED
    BY <2>1, <2>2, <2>4 DEF At, table, LaunchEnabled, NoHandlerInFini,
       ExecutesLiveTask, Executing, Launching, MainLocs, HandlerLocs, Finishing, Frames
<1>4. CASE RecordPgid(f)
  <2>1. /\ At(f, "record") /\ Scan(f, i + 1, cnt[f] + 1)
        /\ UNCHANGED <<task, status, canceled, enable, kernel>>
    BY <1>4 DEF RecordPgid
  <2>2. /\ pgid' \in [Jobs -> Pids \cup {NoPid}]
        /\ child' \in [Frames -> Pids \cup {NoPid}]
    BY <1>4, <1>0 DEF RecordPgid
  <2>3. /\ FrameTypes' /\ (pc'[f] = "scan" \/ pc'[f] = Home(f))
        /\ \A g \in Frames \ {f} : pc'[g] = pc[g] /\ idx'[g] = idx[g]
    BY <2>1, <1>0, ScanType
  <2> QED
    BY <2>1, <2>2, <2>3 DEF At, kernel, Home, LaunchEnabled, NoHandlerInFini,
       ExecutesLiveTask, Executing, Launching, MainLocs, HandlerLocs, Finishing, Frames
<1> QED BY <1>1, <1>2, <1>3, <1>4 DEF ExecuteStep

-----------------------------------------------------------------------------
(* ... the commands of main and jobs_fini, which run with no handler.      *)

\* A step main takes outside its scans, with the handler idle, as far as the
\* frames go; most of what follows is an instance of this.
MainAlone ==
  /\ pc["handler"] = "idle" /\ pc'["handler"] = "idle"
  /\ FrameTypes' /\ child' = child
  /\ pc'["main"] \in MainLocs
  /\ pc'["main"] \in Launching => pc'["main"] = "scan" /\ enable'

LEMMA MainAlonePreserves ==
  ASSUME IInv, MainAlone, KernelType',
         task' \in [Jobs -> BOOLEAN], status' \in [Jobs -> Statuses],
         pgid' \in [Jobs -> Pids \cup {NoPid}], canceled' \in [Jobs -> BOOLEAN],
         enable' \in BOOLEAN
  PROVE  IInv'
BY DEF MainAlone, IInv, TypeOK, FrameTypes, KernelType, Locs, LaunchEnabled, NoHandlerInFini,
   ExecutesLiveTask, Executing, Launching, MainLocs, HandlerLocs, Finishing, Frames

LEMMA MainGoto ==
  ASSUME IInv, NEW from \in MainLocs, At("main", from),
         NEW loc \in MainLocs \ Launching, NEW i \in Jobs,
         Goto("main", loc, i, 0), child' = child
  PROVE  MainAlone
<1>1. "main" \in Frames /\ "handler" \in Frames \ {"main"} /\ loc \in Locs
  BY DEF Frames, Locs
<1>2. FrameTypes  BY DEF IInv, TypeOK, FrameTypes, Locs
<1> QED BY <1>1, <1>2, GotoType DEF MainAlone, At

LEMMA MainCheckAndExecute ==
  ASSUME IInv, NEW from \in MainLocs, At("main", from),
         enable' \in BOOLEAN, CheckAndExecute("main", enable'), child' = child
  PROVE  MainAlone
<1>1. "main" \in Frames /\ "handler" \in Frames \ {"main"}
  BY DEF Frames
<1>2. FrameTypes  BY DEF IInv, TypeOK, FrameTypes, Locs
<1>3. /\ FrameTypes'
      /\ (pc'["main"] = "scan" /\ enable') \/ pc'["main"] = "prompt"
      /\ pc'["handler"] = pc["handler"]
  BY <1>1, <1>2, CheckAndExecuteType DEF Home
<1> QED BY <1>3 DEF MainAlone, At, MainLocs, Launching

LEMMA CommandPreserves ==
  ASSUME IInv, Command \/ JobCreated \/ JobCanceled
  PROVE  IInv'
<1> USE DEF AtPrompt
<1>0. /\ TypeOK /\ KernelType /\ "prompt" \in MainLocs
      /\ {"prompt", "create", "cancel", "fini_cancel"} \subseteq MainLocs \ Launching
  BY DEF IInv, TypeOK, KernelType, MainLocs, Launching, Finishing
<1>1. ASSUME NEW val \in BOOLEAN, SetEnabled(val)  PROVE IInv'
  <2>1. MainAlone
    BY <1>0, <1>1, MainCheckAndExecute DEF SetEnabled
  <2> QED BY <1>0, <1>1, <2>1, MainAlonePreserves DEF SetEnabled, kernel, KernelType, TypeOK
<1>2. ASSUME NEW ok \in BOOLEAN, JobCreate(ok)  PROVE IInv'
  <2>1. PICK j \in Jobs :
          /\ task' = [task EXCEPT ![j] = ok]
          /\ AlterStatus(j, "NEW")
          /\ pgid' = [pgid EXCEPT ![j] = NoPid]
          /\ canceled' = [canceled EXCEPT ![j] = FALSE]
          /\ Goto("main", "create", j, 0)
    BY <1>2 DEF JobCreate
  <2>2. MainAlone
    BY <1>0, <1>2, <2>1, MainGoto DEF JobCreate
  <2>3. "NEW" \in Statuses  BY DEF Statuses
  <2>4. /\ task' \in [Jobs -> BOOLEAN] /\ status' \in [Jobs -> Statuses]
        /\ pgid' \in [Jobs -> Pids \cup {NoPid}] /\ canceled' \in [Jobs -> BOOLEAN]
    BY <1>0, <2>1, <2>3 DEF AlterStatus, TypeOK
  <2> QED
    BY <1>0, <1>2, <2>2, <2>4, MainAlonePreserves
       DEF JobCreate, kernel, KernelType, TypeOK
<1>3. ASSUME NEW j \in Jobs, JobExpunge(j)  PROVE IInv'
  <2>1. MainAlone
    BY <1>0, <1>3 DEF JobExpunge, At, frames, MainAlone, TypeOK, FrameTypes, Locs,
       MainLocs, Launching, Finishing
  <2> QED
    BY <1>0, <1>3, <2>1, MainAlonePreserves DEF JobExpunge, kernel, KernelType, TypeOK
<1>4. ASSUME NEW j \in Jobs, JobCancel(j)  PROVE IInv'
  <2>1. MainAlone
    BY <1>0, <1>4, MainGoto DEF JobCancel
  <2>2. KernelType'
    BY <1>0, <1>4, SigKillType DEF JobCancel, Cancelable, GroupExists
  <2> QED BY <1>0, <1>4, <2>1, <2>2, MainAlonePreserves DEF JobCancel, table, TypeOK
<1>5. ASSUME NEW j \in Jobs, JobPause(j) \/ JobResume(j)  PROVE IInv'
  <2>1. MainAlone
    BY <1>0, <1>5 DEF JobPause, JobResume, At, frames, MainAlone, TypeOK, FrameTypes,
       Locs, MainLocs, Launching, Finishing
  <2>2. KernelType'
    <3>1. {"stopped", "running"} \subseteq ProcStates  BY DEF ProcStates
    <3> QED BY <1>0, <1>5, <3>1, SignalType DEF JobPause, JobResume, GroupExists
  <2> QED
    BY <1>0, <1>5, <2>1, <2>2, MainAlonePreserves DEF JobPause, JobResume, table, TypeOK
<1>6. ASSUME Quit  PROVE IInv'
  <2>1. MainAlone
    BY <1>0, <1>6, JobsFacts, MainGoto DEF Quit
  <2>2. KernelType'
    BY <1>0, <1>6 DEF Quit, KernelType
  <2> QED BY <1>0, <1>6, <2>1, <2>2, MainAlonePreserves DEF Quit, table, TypeOK
<1>7. ASSUME JobCreated  PROVE IInv'
  <2>1. "create" \in MainLocs /\ enable' = enable /\ enable \in BOOLEAN
    BY <1>0, <1>7 DEF JobCreated, MainLocs, TypeOK
  <2>2. MainAlone
    BY <1>7, <2>1, MainCheckAndExecute DEF JobCreated
  <2>3. status' \in [Jobs -> Statuses]
    BY <1>0, <1>7 DEF JobCreated, AlterStatus, Statuses, TypeOK, Frames
  <2> QED
    BY <1>0, <1>7, <2>1, <2>2, <2>3, MainAlonePreserves
       DEF JobCreated, kernel, KernelType, TypeOK
<1>8. ASSUME JobCanceled  PROVE IInv'
  <2>1. MainAlone
    BY <1>0, <1>8, JobsFacts, MainGoto DEF JobCanceled, Return, Home
  <2>2. status' \in [Jobs -> Statuses] /\ canceled' \in [Jobs -> BOOLEAN]
    BY <1>0, <1>8 DEF JobCanceled, MarkCanceled, AlterStatus, Statuses, TypeOK, Frames
  <2> QED
    BY <1>0, <1>8, <2>1, <2>2, MainAlonePreserves
       DEF JobCanceled, kernel, KernelType, TypeOK
<1> QED BY <1>1, <1>2, <1>3, <1>4, <1>5, <1>6, <1>7, <1>8 DEF Command

LEMMA FiniNextAlone ==
  ASSUME IInv, NEW from \in Finishing, At("main", from),
         NEW loc \in Finishing, NEW next \in Finishing,
         FiniNext(loc, next), child' = child
  PROVE  MainAlone
<1>1. /\ from \in MainLocs
      /\ loc \in MainLocs \ Launching /\ next \in MainLocs \ Launching
  BY DEF MainLocs, Launching, Finishing
<1>2. idx["main"] \in Jobs  BY DEF IInv, TypeOK, Frames
<1>3. idx["main"] + 1 < MAX_JOBS => idx["main"] + 1 \in Jobs  BY <1>2, JobsFacts
<1> QED BY <1>1, <1>3, JobsFacts, MainGoto DEF FiniNext

LEMMA FiniPreserves ==
  ASSUME IInv, FiniCancel \/ FiniWait \/ FiniExpunge
  PROVE  IInv'
<1> DEFINE j == idx["main"]
<1>0. /\ TypeOK /\ KernelType /\ j \in Jobs
      /\ {"fini_cancel", "fini_wait", "fini_expunge", "exited"} \subseteq Finishing
  BY DEF IInv, TypeOK, KernelType, Frames, Finishing
<1>1. CASE FiniCancel
  <2>1. MainAlone
    BY <1>0, <1>1, FiniNextAlone DEF FiniCancel
  <2>2. KernelType'
    BY <1>0, <1>1, SigKillType DEF FiniCancel, Cancelable, GroupExists, kernel, KernelType
  <2>3. status' \in [Jobs -> Statuses] /\ canceled' \in [Jobs -> BOOLEAN]
    BY <1>0, <1>1 DEF FiniCancel, MarkCanceled, AlterStatus, Statuses, TypeOK
  <2> QED BY <1>0, <1>1, <2>1, <2>2, <2>3, MainAlonePreserves DEF FiniCancel, TypeOK
<1>2. CASE FiniWait
  <2>1. MainAlone
    <3>1. "fini_wait" \in MainLocs /\ "fini_expunge" \in MainLocs \ Launching
      BY DEF MainLocs, Launching, Finishing
    <3> QED BY <1>0, <1>2, <3>1, MainGoto DEF FiniWait
  <2>2. KernelType' /\ status' \in [Jobs -> Statuses]
    <3>1. CASE \E p \in Ended(pgid[j]) : AlterStatus(j, StatusFor(p)) /\ Collect(p)
      <4>1. PICK p \in Pids : AlterStatus(j, StatusFor(p)) /\ Collect(p)
        BY <3>1 DEF Ended, Asked
      <4>2. StatusFor(p) \in Statuses  BY StatusForType
      <4> QED BY <1>0, <4>1, <4>2, CollectType DEF AlterStatus, TypeOK
    <3>2. CASE AlterStatus(j, "COMPLETED") /\ UNCHANGED kernel
      BY <1>0, <3>2 DEF AlterStatus, kernel, KernelType, TypeOK, Statuses
    <3> QED BY <1>2, <3>1, <3>2 DEF FiniWait
  <2> QED BY <1>0, <1>2, <2>1, <2>2, MainAlonePreserves DEF FiniWait, TypeOK
<1>3. CASE FiniExpunge
  <2>1. MainAlone
    BY <1>0, <1>3, FiniNextAlone DEF FiniExpunge
  <2>2. task' \in [Jobs -> BOOLEAN]
    BY <1>0, <1>3 DEF FiniExpunge, Expungeable, TypeOK
  <2> QED
    BY <1>0, <1>3, <2>1, <2>2, MainAlonePreserves DEF FiniExpunge, kernel, KernelType, TypeOK
<1> QED BY <1>1, <1>2, <1>3

-----------------------------------------------------------------------------
(* ... the handler and the runners, which may come at any moment.          *)

LEMMA DeliverPreserves ==
  ASSUME IInv, Deliver
  PROVE  IInv'
<1>1. /\ "handler" \in Frames /\ "main" \in Frames \ {"handler"} /\ "check" \in Locs
      /\ FrameTypes
  BY DEF IInv, TypeOK, FrameTypes, Frames, Locs, HandlerLocs
<1>2. /\ FrameTypes' /\ pc'["handler"] = "check"
      /\ pc'["main"] = pc["main"] /\ idx'["main"] = idx["main"]
  BY <1>1, JobsFacts, GotoType DEF Deliver
<1> QED
  BY <1>2 DEF Deliver, table, IInv, TypeOK, FrameTypes, Locs, LaunchEnabled,
     NoHandlerInFini, ExecutesLiveTask, Executing, Launching, MainLocs, HandlerLocs,
     Finishing, Frames

LEMMA CheckAJobPreserves ==
  ASSUME IInv, CheckAJob
  PROVE  IInv'
<1> DEFINE j == idx["handler"]
<1>1. /\ "handler" \in Frames /\ "main" \in Frames \ {"handler"} /\ "check" \in Locs
      /\ FrameTypes /\ KernelType /\ j \in Jobs /\ TypeOK /\ enable \in BOOLEAN
  BY DEF IInv, TypeOK, KernelType, FrameTypes, Frames, Locs, HandlerLocs
<1>2. /\ FrameTypes' /\ pc'["main"] = pc["main"] /\ idx'["main"] = idx["main"]
      /\ pc'["handler"] \in {"check", "idle"} \/ (pc'["handler"] = "scan" /\ enable)
  <2>1. CASE j + 1 < MAX_JOBS
    <3>1. j + 1 \in Jobs /\ Goto("handler", "check", j + 1, 0)
      BY <1>1, <2>1, JobsFacts DEF CheckAJob, CheckNext
    <3> QED BY <1>1, <3>1, GotoType
  <2>2. CASE ~(j + 1 < MAX_JOBS)
    BY <1>1, <2>2, CheckAndExecuteType DEF CheckAJob, CheckNext, Home
  <2> QED BY <2>1, <2>2
<1>3. /\ status' \in [Jobs -> Statuses] /\ KernelType'
      /\ \A k \in Jobs : status[k] # "NEW" => status'[k] # "NEW"
  <2>1. CASE \E p \in Reportable(pgid[j]) : AlterStatus(j, StatusFor(p)) /\ Collect(p)
    <3>1. PICK p \in Pids : AlterStatus(j, StatusFor(p)) /\ Collect(p)
      BY <2>1 DEF Reportable, Ended, Asked
    <3>2. StatusFor(p) \in Statuses \ {"NEW"}  BY StatusForType
    <3>3. KernelType'  BY <1>1, <3>1, CollectType
    <3> QED BY <1>1, <3>1, <3>2, <3>3 DEF AlterStatus, TypeOK
  <2>2. CASE UNCHANGED <<status, kernel>>
    BY <1>1, <2>2 DEF kernel, KernelType, TypeOK
  <2> QED BY <2>1, <2>2 DEF CheckAJob, Poll
<1>4. /\ UNCHANGED <<task, pgid, canceled, enable, child>>
      /\ pc["handler"] = "check"
  BY DEF CheckAJob, At
<1> QED
  BY <1>2, <1>3, <1>4 DEF IInv, TypeOK, KernelType, FrameTypes, Locs, LaunchEnabled,
     NoHandlerInFini, ExecutesLiveTask, Executing, Launching, MainLocs, HandlerLocs,
     Finishing, Frames

\* What leaves the table and the frames alone cannot break IInv.
LEMMA KernelPreserves ==
  ASSUME IInv, UNCHANGED <<table, frames>>, KernelType'
  PROVE  IInv'
BY DEF table, frames, KernelType, IInv, TypeOK, LaunchEnabled, NoHandlerInFini,
   ExecutesLiveTask, Executing

LEMMA RunnerPreserves ==
  ASSUME IInv, NEW p \in Pids, RunnerStep(p)
  PROVE  IInv'
<1>1. KernelType /\ {"exited", "killed", "stopped"} \subseteq ProcStates
  BY DEF IInv, TypeOK, KernelType, ProcStates, Zombie
<1>2. CASE RunnerGroups(p)
  <2>1. KernelType'  BY <1>1, <1>2 DEF RunnerGroups, KernelType
  <2> QED BY <1>2, <2>1, KernelPreserves DEF RunnerGroups
<1>3. CASE RunnerExits(p) \/ RunnerKilled(p) \/ RunnerStops(p) \/ RunnerDies(p)
  <2>1. KernelType'
    BY <1>1, <1>3, BecomeType DEF RunnerExits, RunnerKilled, RunnerStops, RunnerDies
  <2>2. UNCHANGED <<table, frames>>
    BY <1>3 DEF RunnerExits, RunnerKilled, RunnerStops, RunnerDies, Become
  <2> QED BY <2>1, <2>2, KernelPreserves
<1> QED BY <1>2, <1>3 DEF RunnerStep

-----------------------------------------------------------------------------
LEMMA InitIInv == Init => IInv
<1> SUFFICES ASSUME Init PROVE IInv
  OBVIOUS
<1>1. TypeOK
  BY JobsFacts DEF Init, TypeOK, Statuses, MainLocs, HandlerLocs, Frames, Home, ProcStates
<1> QED
  BY <1>1 DEF Init, IInv, LaunchEnabled, NoHandlerInFini, ExecutesLiveTask, Executing,
     Launching, Frames, Home

LEMMA NextIInv == IInv /\ [Next]_vars => IInv'
<1> SUFFICES ASSUME IInv, [Next]_vars PROVE IInv'
  OBVIOUS
<1>1. "main" \in Frames /\ "handler" \in Frames  BY DEF Frames
<1>2. CASE Deliver                    BY <1>2, DeliverPreserves
<1>3. CASE Command                    BY <1>3, CommandPreserves
<1>4. CASE MainStep
  BY <1>1, <1>4, ExecutePreserves, CommandPreserves, FiniPreserves DEF MainStep
<1>5. CASE HandlerStep
  BY <1>1, <1>5, CheckAJobPreserves, ExecutePreserves DEF HandlerStep
<1>6. CASE \E p \in Pids : RunnerStep(p)  BY <1>6, RunnerPreserves
<1>7. CASE Exited \/ UNCHANGED vars
  <2>1. KernelType' /\ UNCHANGED <<table, frames>>
    BY <1>7 DEF Exited, vars, kernel, KernelType, IInv, TypeOK
  <2> QED BY <2>1, KernelPreserves
<1> QED BY <1>2, <1>3, <1>4, <1>5, <1>6, <1>7 DEF Next, OtherStep

LEMMA SpecIInv == Spec => []IInv
BY InitIInv, NextIInv, PTL DEF Spec

\* The variables of the spooler stay in their types: in particular the index
\* of every loop stays inside job_table, wherever the handler strikes.
THEOREM JobberTypeOK == Spec => []TypeOK
<1>1. IInv => TypeOK  BY DEF IInv
<1> QED BY <1>1, SpecIInv, PTL

\* execute_job never works for a slot whose task has been freed or whose job
\* is still being created, although the handler calls it at any moment.
THEOREM JobberExecutesLiveTask == Spec => []ExecutesLiveTask
<1>1. IInv => ExecutesLiveTask  BY DEF IInv
<1> QED BY <1>1, SpecIInv, PTL

-----------------------------------------------------------------------------
(* Only Fork makes a process run that did not exist.                       *)

LEMMA OnlyForkForks ==
  ASSUME TypeOK, [Next]_vars, Forks
  PROVE  \E f \in Frames : Fork(f)
<1> DEFINE Same(q) == proc[q] = "none" => proc'[q] # "running"
<1>0. PICK p \in Pids : proc[p] = "none" /\ proc'[p] = "running"
  BY DEF Forks
<1>1. KernelType  BY DEF TypeOK, KernelType
<1>2. ASSUME NEW q \in Pids, Collect(q)  PROVE Same(p)
  BY <1>1, <1>2 DEF Collect, KernelType, Zombie
<1>3. ASSUME NEW q \in Pids, SigKill(q)  PROVE Same(p)
  BY <1>1, <1>3 DEF SigKill, kernel, KernelType
<1>4. ASSUME NEW q \in Pids,
             \/ Signal(q, "running", "stopped", "stopped")
             \/ Signal(q, "stopped", "running", "continued")
      PROVE  Same(p)
  BY <1>1, <1>4 DEF Signal, kernel, KernelType
<1>5. ASSUME NEW q \in Pids, RunnerStep(q)  PROVE Same(p)
  BY <1>1, <1>5 DEF RunnerStep, RunnerGroups, RunnerExits, RunnerKilled, RunnerStops,
     RunnerDies, Become, KernelType
<1>6. ASSUME UNCHANGED proc  PROVE Same(p)
  BY <1>6
<1>7. CASE Command \/ JobCreated \/ JobCanceled \/ FiniExpunge
  BY <1>0, <1>3, <1>4, <1>6, <1>7 DEF Command, SetEnabled, JobCreate, JobExpunge,
     JobCancel, JobPause, JobResume, Quit, JobCreated, JobCanceled, FiniExpunge,
     Cancelable, GroupExists, kernel
<1>8. CASE FiniCancel
  BY <1>0, <1>3, <1>6, <1>8 DEF FiniCancel, Cancelable, GroupExists, kernel
<1>9. CASE FiniWait \/ CheckAJob
  BY <1>0, <1>2, <1>6, <1>9 DEF FiniWait, CheckAJob, Poll, Reportable, Ended, Asked, kernel
<1>10. CASE Deliver \/ Exited \/ UNCHANGED vars
  BY <1>0, <1>6, <1>10 DEF Deliver, Exited, vars, kernel
<1>11. ASSUME NEW f \in Frames, ScanJob(f) \/ StartJob(f) \/ ForkFails(f) \/ RecordPgid(f)
       PROVE  FALSE
  BY <1>0, <1>6, <1>11 DEF ScanJob, StartJob, ForkFails, RecordPgid, kernel
<1>12. CASE \E f \in Frames : ExecuteStep(f)
  BY <1>11, <1>12 DEF ExecuteStep
<1> QED
  BY <1>0, <1>5, <1>7, <1>8, <1>9, <1>10, <1>12
     DEF Next, OtherStep, MainStep, HandlerStep, Frames

\* No runner is ever started while jobs are disabled or once the user has
\* quit, by the command being carried out or by a handler on top of it.
THEOREM JobberNoStartWhenForbidden == Spec => NoStartWhenForbidden
<1> DEFINE Allowed == Forks => enable /\ pc["main"] \notin Finishing
<1>1. IInv /\ [Next]_vars => [Allowed]_vars
  <2> SUFFICES ASSUME IInv, [Next]_vars, Forks
               PROVE  enable /\ pc["main"] \notin Finishing
    OBVIOUS
  <2>1. PICK f \in Frames : Fork(f)
    BY OnlyForkForks DEF IInv
  <2>2. pc[f] = "fork"
    BY <2>1 DEF Fork, At
  <2> QED
    BY <2>2 DEF IInv, LaunchEnabled, NoHandlerInFini, Launching, Frames, Finishing
<1> QED BY <1>1, SpecIInv, PTL DEF Spec, NoStartWhenForbidden

-----------------------------------------------------------------------------
(* WorkConserving.  A scan counts what there is and passes over nothing    *)
(* that waits, unless a handler ran on top of it: then the handler has      *)
(* scanned itself, and has left nothing to be done.                        *)

Waits(j) == task[j] /\ status[j] = "WAITING"
ActiveBelow(i) == {j \in ActiveJobs : j < i}

\* There is nothing for a scan to do.
Clean ==
  enable => (\A j \in Jobs : ~Waits(j)) \/ Cardinality(ActiveJobs) >= MAX_RUNNERS

\* The jobs that f has counted are active, and none that it has passed waits.
ScanTold(f) ==
  /\ cnt[f] <= Cardinality(ActiveBelow(idx[f]))
  /\ cnt[f] >= MAX_RUNNERS \/ \A j \in Jobs : j < idx[f] => ~Waits(j)
  /\ pc[f] \in {"fork", "record"} => idx[f] \in ActiveJobs

WInv ==
  /\ pc["handler"] \in Launching => ScanTold("handler")
  /\ pc["handler"] = "idle" =>
       /\ pc["main"] \in {"prompt", "cancel"} => Clean
       /\ pc["main"] \in Launching => Clean \/ ScanTold("main")

LEMMA JobSetCounted ==
  ASSUME NEW S \in SUBSET Jobs
  PROVE  IsFiniteSet(S) /\ Cardinality(S) \in Nat
<1>1. IsFiniteSet(Jobs)
  BY FS_Interval DEF Jobs
<1> QED BY <1>1, FS_Subset, FS_CardinalityType

LEMMA ActiveCounted ==
  /\ IsFiniteSet(ActiveJobs) /\ Cardinality(ActiveJobs) \in Nat
  /\ \A i \in Int : /\ IsFiniteSet(ActiveBelow(i)) /\ Cardinality(ActiveBelow(i)) \in Nat
                    /\ Cardinality(ActiveBelow(i)) <= Cardinality(ActiveJobs)
<1>1. ActiveJobs \in SUBSET Jobs /\ \A i \in Int : ActiveBelow(i) \in SUBSET ActiveJobs
  BY DEF ActiveJobs, ActiveBelow
<1> QED BY <1>1, JobSetCounted, FS_Subset

LEMMA ActiveNext ==
  ASSUME NEW i \in Jobs
  PROVE  Cardinality(ActiveBelow(i + 1))
           = Cardinality(ActiveBelow(i)) + IF i \in ActiveJobs THEN 1 ELSE 0
<1>1. i \in Int /\ ActiveJobs \subseteq Int
  BY DEF Jobs, ActiveJobs
<1>2. CASE i \in ActiveJobs
  <2>1. \A j \in ActiveJobs : j < i + 1 <=> j < i \/ j = i
    BY <1>1
  <2>2. ActiveBelow(i + 1) = ActiveBelow(i) \cup {i}
    BY <1>2, <2>1, Zenon DEF ActiveBelow
  <2>3. i \notin ActiveBelow(i)
    BY <1>1 DEF ActiveBelow
  <2> QED BY <1>1, <1>2, <2>2, <2>3, ActiveCounted, FS_AddElement
<1>3. CASE i \notin ActiveJobs
  <2>1. \A j \in ActiveJobs : j < i + 1 <=> j < i
    BY <1>1, <1>3
  <2>2. ActiveBelow(i + 1) = ActiveBelow(i)
    BY <2>1 DEF ActiveBelow
  <2> QED BY <1>1, <1>3, <2>2, ActiveCounted
<1> QED BY <1>2, <1>3

\* A step that ends no job and lets none begin to wait leaves nothing to do.
LEMMA CleanStays ==
  ASSUME Clean, enable' => enable,
         \A j \in Jobs : j \in ActiveJobs => j \in ActiveJobs',
         \A j \in Jobs : Waits(j)' => Waits(j)
  PROVE  Clean'
<1>1. ActiveJobs \subseteq ActiveJobs'
  BY DEF ActiveJobs
<1>2. IsFiniteSet(ActiveJobs') /\ Cardinality(ActiveJobs') \in Nat
  BY JobSetCounted DEF ActiveJobs
<1>3. Cardinality(ActiveJobs) <= Cardinality(ActiveJobs')
  BY <1>1, <1>2, FS_Subset
<1> QED BY <1>2, <1>3, ActiveCounted DEF Clean

LEMMA SameActive ==
  ASSUME UNCHANGED <<task, status>>
  PROVE  /\ ActiveJobs' = ActiveJobs
         /\ \A i \in Int : ActiveBelow(i)' = ActiveBelow(i)
         /\ \A j \in Jobs : Waits(j)' = Waits(j)
BY DEF ActiveJobs, ActiveBelow, Waits

\* A scan begins, or jobs are disabled.
LEMMA ScanBegins ==
  ASSUME IInv, NEW f \in Frames, CheckAndExecute(f, enable')
  PROVE  \/ pc'[f] = "scan" /\ ScanTold(f)'
         \/ pc'[f] = Home(f) /\ Clean'
<1>0. FrameTypes /\ 0 \in Jobs /\ 0 < MAX_JOBS /\ Home(f) \in Locs /\ "scan" \in Locs
  BY JobsFacts DEF IInv, TypeOK, FrameTypes, Locs, Home, MainLocs, HandlerLocs, Launching
<1>1. CASE enable'
  <2>1. Goto(f, "scan", 0, 0)
    BY <1>0, <1>1 DEF CheckAndExecute, Scan
  <2>2. pc'[f] = "scan" /\ idx'[f] = 0 /\ cnt'[f] = 0
    BY <1>0, <2>1, GotoType
  <2>3. ActiveBelow(idx[f])' \in SUBSET Jobs
    BY DEF ActiveBelow, ActiveJobs
  <2>4. Cardinality(ActiveBelow(idx[f])') \in Nat
    BY <2>3, JobSetCounted
  <2> QED BY <2>2, <2>4 DEF ScanTold, Jobs
<1>2. CASE ~enable'
  <2>1. Goto(f, Home(f), 0, 0)
    BY <1>2 DEF CheckAndExecute, Return
  <2> QED BY <1>0, <1>2, <2>1, GotoType DEF Clean
<1> QED BY <1>1, <1>2

\* A scan goes on behind its index, or has been through the table.
LEMMA ScanGoesOn ==
  ASSUME IInv, NEW f \in Frames, NEW n \in Nat, Scan(f, idx[f] + 1, n),
         UNCHANGED <<task, status>>,
         n <= Cardinality(ActiveBelow(idx[f] + 1)),
         n >= MAX_RUNNERS \/ \A j \in Jobs : j < idx[f] + 1 => ~Waits(j)
  PROVE  \/ pc'[f] = "scan" /\ ScanTold(f)'
         \/ pc'[f] = Home(f) /\ Clean'
<1> DEFINE k == idx[f] + 1
<1>0. /\ FrameTypes /\ k \in Nat /\ k \in Int /\ 0 \in Jobs
      /\ Home(f) \in Locs /\ "scan" \in Locs
  BY JobsFacts DEF IInv, TypeOK, FrameTypes, Locs, Home, MainLocs, HandlerLocs,
     Launching, Jobs
<1>1. CASE k < MAX_JOBS
  <2>1. k \in Jobs /\ Goto(f, "scan", k, n)
    BY <1>0, <1>1 DEF Scan, Jobs
  <2>2. pc'[f] = "scan" /\ idx'[f] = k /\ cnt'[f] = n
    BY <1>0, <2>1, GotoType
  <2>3. \A j \in Jobs : Waits(j)' = Waits(j)
    BY SameActive
  <2>4. ActiveBelow(idx[f])' = ActiveBelow(k)
    BY <2>2, SameActive DEF ActiveBelow
  <2> QED BY <2>2, <2>3, <2>4 DEF ScanTold
<1>2. CASE ~(k < MAX_JOBS)
  <2>1. Goto(f, Home(f), 0, 0)
    BY <1>2 DEF Scan, Return
  <2>2. pc'[f] = Home(f)
    BY <1>0, <2>1, GotoType
  <2>3. \A j \in Jobs : j < k
    BY <1>0, <1>2 DEF Jobs
  <2>4. n <= Cardinality(ActiveJobs)
    BY <1>0, ActiveCounted
  <2> QED BY <2>2, <2>3, <2>4, SameActive, ActiveCounted DEF Clean
<1> QED BY <1>1, <1>2

\* What a frame does of a scan that nobody has disturbed.
LEMMA ExecuteTells ==
  ASSUME IInv, NEW f \in Frames, ScanTold(f), ExecuteStep(f)
  PROVE  \/ pc'[f] \in Launching /\ ScanTold(f)'
         \/ pc'[f] = Home(f) /\ Clean'
<1> DEFINE i == idx[f]
<1>0. /\ FrameTypes /\ TypeOK /\ i \in Jobs /\ i \in Int /\ i + 1 \in Int /\ cnt[f] \in Nat
      /\ cnt[f] + 1 \in Nat
      /\ {"scan", "start", "fork", "record"} \subseteq Locs
      /\ Launching = {"scan", "start", "fork", "record"}
  BY DEF IInv, TypeOK, FrameTypes, Jobs, Locs, MainLocs, Launching
<1>c. Cardinality(ActiveBelow(i)) \in Nat
  BY <1>0, ActiveCounted
<1>1. CASE ScanJob(f)
  <2>0. UNCHANGED <<task, status>>
    BY <1>1 DEF ScanJob, table
  <2>1. CASE Considered(f) /\ status[i] = "WAITING" /\ Goto(f, "start", i, cnt[f])
    <3>1. pc'[f] = "start" /\ idx'[f] = i /\ cnt'[f] = cnt[f]
      BY <1>0, <2>1, GotoType
    <3>2. ActiveBelow(idx[f])' = ActiveBelow(i) /\ \A j \in Jobs : Waits(j)' = Waits(j)
      BY <2>0, <3>1, SameActive DEF ActiveBelow
    <3> QED BY <1>0, <3>1, <3>2 DEF ScanTold
  <2>2. CASE Considered(f) /\ status[i] \in Started /\ Scan(f, i + 1, cnt[f] + 1)
    <3>1. i \in ActiveJobs /\ ~Waits(i)
      BY <1>0, <2>2 DEF Considered, ActiveJobs, Active, Waits, Started
    <3>2. cnt[f] + 1 <= Cardinality(ActiveBelow(i + 1))
      BY <1>0, <1>c, <3>1, ActiveNext DEF ScanTold
    <3>3. \A j \in Jobs : j < i + 1 => ~Waits(j)
      BY <1>0, <2>2, <3>1 DEF ScanTold, Considered, Jobs
    <3> QED BY <1>0, <2>0, <2>2, <3>2, <3>3, ScanGoesOn
  <2>3. CASE /\ ~(Considered(f) /\ status[i] \in Started \cup {"WAITING"})
             /\ Scan(f, i + 1, cnt[f])
    <3>1. cnt[f] <= Cardinality(ActiveBelow(i + 1))
      BY <1>0, <1>c, ActiveNext DEF ScanTold
    <3>2. cnt[f] >= MAX_RUNNERS \/ \A j \in Jobs : j < i + 1 => ~Waits(j)
      BY <1>0, <2>3 DEF ScanTold, Considered, Waits, Jobs
    <3> QED BY <1>0, <2>0, <2>3, <3>1, <3>2, ScanGoesOn
  <2> QED BY <1>1, <2>1, <2>2, <2>3 DEF ScanJob
<1>2. CASE StartJob(f)
  <2>1. /\ pc[f] = "start" /\ UNCHANGED task /\ Goto(f, "fork", i, cnt[f])
        /\ status' = [status EXCEPT ![i] = "RUNNING"]
    BY <1>2 DEF StartJob, AlterStatus, At
  <2>2. pc'[f] = "fork" /\ idx'[f] = i /\ cnt'[f] = cnt[f]
    BY <1>0, <2>1, GotoType
  <2>3. task[i]
    BY <2>1 DEF IInv, ExecutesLiveTask, Executing
  <2>4. i \in ActiveJobs'
    BY <1>0, <2>1, <2>3 DEF ActiveJobs, Active, Started, TypeOK
  <2>5. ActiveBelow(idx[f])' = ActiveBelow(i)
    BY <1>0, <2>1, <2>2 DEF ActiveBelow, ActiveJobs, TypeOK, Jobs
  <2>6. \A j \in Jobs : j < i => Waits(j)' = Waits(j)
    BY <1>0, <2>1 DEF Waits, TypeOK
  <2> QED BY <1>0, <2>2, <2>4, <2>5, <2>6 DEF ScanTold
<1>3. CASE Fork(f) \/ ForkFails(f)
  <2>1. pc[f] = "fork" /\ UNCHANGED <<task, status>> /\ Goto(f, "record", i, cnt[f])
    BY <1>3 DEF Fork, ForkFails, table, At
  <2>2. pc'[f] = "record" /\ idx'[f] = i /\ cnt'[f] = cnt[f]
    BY <1>0, <2>1, GotoType
  <2>3. /\ ActiveBelow(idx[f])' = ActiveBelow(i) /\ ActiveJobs' = ActiveJobs
        /\ \A j \in Jobs : Waits(j)' = Waits(j)
    BY <2>1, <2>2, SameActive DEF ActiveBelow
  <2> QED BY <1>0, <2>1, <2>2, <2>3 DEF ScanTold
<1>4. CASE RecordPgid(f)
  <2>1. pc[f] = "record" /\ UNCHANGED <<task, status>> /\ Scan(f, i + 1, cnt[f] + 1)
    BY <1>4 DEF RecordPgid, At
  <2>2. i \in ActiveJobs /\ ~Waits(i)
    BY <2>1 DEF ScanTold, ActiveJobs, Active, Started, Waits
  <2>3. cnt[f] + 1 <= Cardinality(ActiveBelow(i + 1))
    BY <1>0, <1>c, <2>2, ActiveNext DEF ScanTold
  <2>4. cnt[f] + 1 >= MAX_RUNNERS \/ \A j \in Jobs : j < i + 1 => ~Waits(j)
    BY <1>0, <2>2 DEF ScanTold, Jobs
  <2> QED BY <1>0, <2>1, <2>3, <2>4, ScanGoesOn
<1> QED BY <1>1, <1>2, <1>3, <1>4 DEF ExecuteStep

\* Nor does a scan that a handler has overtaken spoil what the handler did.
LEMMA ExecuteCleans ==
  ASSUME IInv, NEW f \in Frames, Clean, ExecuteStep(f)
  PROVE  Clean'
<1>1. CASE StartJob(f)
  <2> DEFINE i == idx[f]
  <2>1. /\ i \in Jobs /\ task[i] /\ UNCHANGED <<task, enable>>
        /\ status' = [status EXCEPT ![i] = "RUNNING"] /\ status \in [Jobs -> Statuses]
    BY <1>1 DEF StartJob, AlterStatus, At, IInv, TypeOK, ExecutesLiveTask, Executing
  <2>2. \A j \in Jobs : j \in ActiveJobs => j \in ActiveJobs'
    BY <2>1 DEF ActiveJobs, Active, Started
  <2>3. \A j \in Jobs : Waits(j)' => Waits(j)
    BY <2>1 DEF Waits
  <2> QED BY <2>1, <2>2, <2>3, CleanStays
<1>2. CASE ScanJob(f) \/ Fork(f) \/ ForkFails(f) \/ RecordPgid(f)
  <2>1. UNCHANGED <<task, status, enable>>
    BY <1>2 DEF ScanJob, Fork, ForkFails, RecordPgid, table
  <2> QED BY <2>1, SameActive, CleanStays
<1> QED BY <1>1, <1>2 DEF ExecuteStep

LEMMA ExecuteWInv ==
  ASSUME IInv, WInv, NEW f \in Frames, ExecuteStep(f)
  PROVE  WInv'
<1>0. FrameTypes /\ "main" \in Frames /\ "handler" \in Frames /\ pc[f] \in Launching
  BY DEF IInv, TypeOK, FrameTypes, Frames, Locs, ExecuteStep, ScanJob, StartJob, Fork,
     ForkFails, RecordPgid, At, Launching
<1>1. \A g \in Frames \ {f} : pc'[g] = pc[g]
  <2>1. /\ idx[f] + 1 \in Nat /\ cnt[f] \in Nat /\ cnt[f] + 1 \in Nat
        /\ {"start", "fork", "record"} \subseteq Locs /\ idx[f] \in Jobs
    BY <1>0 DEF FrameTypes, Jobs, Locs, MainLocs, Launching
  <2> QED
    BY <1>0, <2>1, GotoType, ScanType DEF ExecuteStep, ScanJob, StartJob, Fork, ForkFails,
       RecordPgid
<1>2. CASE f = "handler"
  <2>1. \/ pc'[f] \in Launching /\ ScanTold(f)'
        \/ pc'[f] = "idle" /\ Clean'
    BY <1>0, <1>2, ExecuteTells DEF WInv, Home
  <2> QED BY <1>2, <2>1 DEF WInv, Launching
<1>3. CASE f = "main"
  <2>1. pc["handler"] = "idle" /\ pc'["handler"] = "idle"
    BY <1>0, <1>1, <1>3 DEF ExecuteStep, ScanJob, StartJob, Fork, ForkFails, RecordPgid, At
  <2>2. \/ Clean'
        \/ pc'[f] \in Launching /\ ScanTold(f)'
    BY <1>0, <1>3, <2>1, ExecuteTells, ExecuteCleans DEF WInv
  <2> QED BY <1>3, <2>1, <2>2 DEF WInv, Launching
<1> QED BY <1>2, <1>3 DEF Frames

LEMMA CommandWInv ==
  ASSUME IInv, WInv, Command \/ JobCreated \/ JobCanceled
  PROVE  WInv'
<1> USE DEF AtPrompt
<1>0. /\ TypeOK /\ FrameTypes /\ "main" \in Frames /\ "handler" \in Frames \ {"main"}
      /\ {"create", "cancel", "fini_cancel", "prompt"} \subseteq Locs
      /\ {"create", "fini_cancel", "idle"} \cap (Launching \cup {"prompt", "cancel"}) = {}
  BY DEF IInv, TypeOK, FrameTypes, Frames, Locs, MainLocs, Finishing, Launching
<1>1. ASSUME NEW from, At("main", from), CheckAndExecute("main", enable'),
             enable' \in BOOLEAN
      PROVE  WInv'
  <2>1. \/ pc'["main"] = "scan" /\ ScanTold("main")'
        \/ pc'["main"] = "prompt" /\ Clean'
    BY <1>0, <1>1, ScanBegins DEF Home
  <2>2. pc'["handler"] = "idle"
    BY <1>0, <1>1, CheckAndExecuteType DEF At
  <2> QED BY <2>1, <2>2 DEF WInv, Launching
<1>2. ASSUME NEW from, At("main", from), NEW loc \in {"create", "fini_cancel"},
             NEW j \in Jobs, Goto("main", loc, j, 0)
      PROVE  WInv'
  <2>1. pc'["main"] = loc /\ pc'["handler"] = "idle"
    BY <1>0, <1>2, GotoType DEF At
  <2> QED BY <1>0, <2>1 DEF WInv
<1>3. ASSUME Clean', pc["handler"] = "idle", pc'["handler"] = pc["handler"]
      PROVE  WInv'
  BY <1>0, <1>3 DEF WInv
<1>4. ASSUME NEW val \in BOOLEAN, SetEnabled(val)  PROVE WInv'
  BY <1>1, <1>4 DEF SetEnabled
<1>5. ASSUME NEW ok \in BOOLEAN, JobCreate(ok)  PROVE WInv'
  BY <1>2, <1>5 DEF JobCreate
<1>6. ASSUME NEW j \in Jobs, JobExpunge(j)  PROVE WInv'
  <2>1. /\ At("main", "prompt") /\ UNCHANGED <<status, enable, pc>>
        /\ task' = [task EXCEPT ![j] = FALSE] /\ status[j] \in Terminal
    BY <1>6 DEF JobExpunge, Expungeable, frames
  <2>2. \A k \in Jobs : k \in ActiveJobs => k \in ActiveJobs'
    BY <1>0, <2>1 DEF ActiveJobs, Active, Started, Terminal, TypeOK
  <2>3. \A k \in Jobs : Waits(k)' => Waits(k)
    BY <1>0, <2>1 DEF Waits, TypeOK
  <2>4. Clean
    BY <2>1 DEF WInv, At
  <2> QED BY <1>3, <2>1, <2>2, <2>3, <2>4, CleanStays DEF At
<1>7. ASSUME NEW j \in Jobs, JobCancel(j)  PROVE WInv'
  <2>1. At("main", "prompt") /\ UNCHANGED <<task, status, enable>>
    BY <1>7 DEF JobCancel, table
  <2>2. pc'["handler"] = pc["handler"]
    BY <1>0, <1>7, GotoType DEF JobCancel
  <2>3. Clean
    BY <2>1 DEF WInv, At
  <2> QED BY <1>3, <2>1, <2>2, <2>3, SameActive, CleanStays DEF At
<1>8. ASSUME NEW j \in Jobs, JobPause(j) \/ JobResume(j)  PROVE WInv'
  <2>1. At("main", "prompt") /\ UNCHANGED <<task, status, enable, pc>>
    BY <1>8 DEF JobPause, JobResume, table, frames
  <2>2. Clean
    BY <2>1 DEF WInv, At
  <2> QED BY <1>3, <2>1, <2>2, SameActive, CleanStays DEF At
<1>9. ASSUME Quit  PROVE WInv'
  BY <1>2, <1>9, JobsFacts DEF Quit
<1>10. ASSUME JobCreated  PROVE WInv'
  <2>1. /\ enable' = enable /\ enable' \in BOOLEAN
        /\ At("main", "create") /\ CheckAndExecute("main", enable')
    BY <1>0, <1>10 DEF JobCreated, TypeOK
  <2> QED BY <1>1, <2>1
<1>11. ASSUME JobCanceled  PROVE WInv'
  <2> DEFINE j == idx["main"]
  <2>1. /\ At("main", "cancel") /\ UNCHANGED <<task, enable>> /\ j \in Jobs
        /\ status' = [status EXCEPT ![j] = IF status[j] \in {"NEW", "WAITING"}
                                           THEN "ABORTED" ELSE "CANCELED"]
    BY <1>0, <1>11 DEF JobCanceled, MarkCanceled, AlterStatus, TypeOK
  <2>2. pc'["handler"] = pc["handler"]
    BY <1>0, <1>11, JobsFacts, GotoType DEF JobCanceled, Return, Home
  <2>3. \A k \in Jobs : k \in ActiveJobs => k \in ActiveJobs'
    BY <1>0, <2>1 DEF ActiveJobs, Active, Started, TypeOK
  <2>4. \A k \in Jobs : Waits(k)' => Waits(k)
    BY <1>0, <2>1 DEF Waits, TypeOK
  <2>5. Clean
    BY <2>1 DEF WInv, At
  <2> QED BY <1>3, <2>1, <2>2, <2>3, <2>4, <2>5, CleanStays DEF At
<1> QED BY <1>4, <1>5, <1>6, <1>7, <1>8, <1>9, <1>10, <1>11 DEF Command

LEMMA FiniWInv ==
  ASSUME IInv, FiniCancel \/ FiniWait \/ FiniExpunge
  PROVE  WInv'
<1>0. /\ FrameTypes /\ "main" \in Frames /\ "handler" \in Frames \ {"main"}
      /\ Finishing \subseteq Locs /\ idx["main"] \in Jobs
      /\ Finishing \cap (Launching \cup {"prompt", "cancel"}) = {}
      /\ "idle" \notin Launching
      /\ {"fini_cancel", "fini_wait", "fini_expunge", "exited"} = Finishing
  BY DEF IInv, TypeOK, FrameTypes, Frames, Locs, MainLocs, Finishing, Launching
<1>1. PICK loc \in Finishing, i \in Jobs : Goto("main", loc, i, 0)
  BY <1>0, JobsFacts DEF FiniCancel, FiniWait, FiniExpunge, FiniNext
<1>2. pc["handler"] = "idle"
  BY DEF FiniCancel, FiniWait, FiniExpunge, At
<1>3. pc'["main"] = loc /\ pc'["handler"] = "idle"
  BY <1>0, <1>1, <1>2, GotoType
<1> QED BY <1>0, <1>3 DEF WInv

LEMMA HandlerWInv ==
  ASSUME IInv, Deliver \/ CheckAJob
  PROVE  WInv'
<1>0. FrameTypes /\ "handler" \in Frames /\ "check" \in Locs /\ idx["handler"] \in Jobs
  BY DEF IInv, TypeOK, FrameTypes, Frames, Locs, HandlerLocs
<1>1. CASE \E i \in Jobs : Goto("handler", "check", i, 0)
  <2>1. pc'["handler"] = "check"
    BY <1>0, <1>1, GotoType
  <2> QED BY <2>1 DEF WInv, Launching
<1>2. CASE CheckAndExecute("handler", enable')
  <2>1. \/ pc'["handler"] = "scan" /\ ScanTold("handler")'
        \/ pc'["handler"] = "idle" /\ Clean'
    BY <1>0, <1>2, ScanBegins DEF Home
  <2> QED BY <2>1 DEF WInv, Launching
<1> QED BY <1>0, <1>1, <1>2, JobsFacts DEF Deliver, CheckAJob, CheckNext

LEMMA SameWInv ==
  ASSUME WInv, UNCHANGED <<task, status, enable, pc, idx, cnt>>
  PROVE  WInv'
BY DEF WInv, Clean, ScanTold, ActiveJobs, ActiveBelow, Waits

LEMMA InitWInv == Init => WInv
BY DEF Init, WInv, Clean, Launching, Frames, Home

LEMMA NextWInv == IInv /\ WInv /\ [Next]_vars => WInv'
<1> SUFFICES ASSUME IInv, WInv, [Next]_vars PROVE WInv'
  OBVIOUS
<1>1. "main" \in Frames /\ "handler" \in Frames  BY DEF Frames
<1>2. CASE Deliver \/ CheckAJob  BY <1>2, HandlerWInv
<1>3. CASE Command \/ JobCreated \/ JobCanceled  BY <1>3, CommandWInv
<1>4. CASE ExecuteStep("main") \/ ExecuteStep("handler")  BY <1>1, <1>4, ExecuteWInv
<1>5. CASE FiniCancel \/ FiniWait \/ FiniExpunge  BY <1>5, FiniWInv
<1>6. CASE Exited \/ UNCHANGED vars \/ \E p \in Pids : RunnerStep(p)
  <2>1. UNCHANGED <<task, status, enable, pc, idx, cnt>>
    BY <1>6 DEF Exited, vars, table, frames, RunnerStep, RunnerGroups, RunnerExits,
       RunnerKilled, RunnerStops, RunnerDies, Become
  <2> QED BY <2>1, SameWInv
<1> QED
  BY <1>2, <1>3, <1>4, <1>5, <1>6 DEF Next, OtherStep, MainStep, HandlerStep

\* Wherever SIGCHLD strikes in the scans and commands of main, at the prompt a
\* job waits, with jobs enabled, only if MAX_RUNNERS others are active.
THEOREM JobberWorkConserving == Spec => []WorkConserving
<1>1. IInv /\ WInv => WorkConserving
  BY DEF WInv, WorkConserving, AtRest, AtPrompt, At, Clean, Waits
<1> QED BY <1>1, SpecIInv, InitWInv, NextWInv, PTL DEF Spec

-----------------------------------------------------------------------------
(* MaskedSpec.                                                             *)

\* The handler runs only on top of the prompt.
OneFrame == pc["main"] # "prompt" => pc["handler"] = "idle"

\* What a frame read of the status of its job is still so.
StatusRead ==
  /\ \A f \in Frames : pc[f] = "start" => status[idx[f]] = "WAITING"
  /\ \A f \in Frames : pc[f] \in {"fork", "record"} => status[idx[f]] = "RUNNING"
  /\ pc["main"] = "create" => status[idx["main"]] = "NEW"
  /\ pc["main"] = "cancel" => task[idx["main"]] /\ status[idx["main"]] \in Started

\* A job that was not started has no group a signal could be sent to.
UnstartedHasNoPid ==
  \A j \in Jobs : task[j] /\ status[j] \in {"NEW", "WAITING"} => pgid[j] = NoPid

\* j has been sent its SIGKILL.
Condemned(j) ==
  task[j] /\ (status[j] = "CANCELED" \/ (pc["main"] = "cancel" /\ idx["main"] = j))

\* Its runner runs no more: only its death is left to be reported.
CondemnedDies ==
  \A j \in Jobs : Condemned(j) =>
    pgid[j] \in Pids /\ proc[pgid[j]] \notin {"running", "stopped"}

EventsOfLiving ==
  \A p \in Pids : event[p] # "none" => proc[p] \in {"running", "stopped"}

MInv == /\ IInv /\ OneFrame /\ StatusRead /\ UnstartedHasNoPid
        /\ CondemnedDies /\ EventsOfLiving

-----------------------------------------------------------------------------
LEMMA MaskedIsNext == [MaskedNext]_vars => [Next]_vars
BY DEF MaskedNext, Next

LEMMA InitMInv == Init => MInv
BY InitIInv DEF Init, MInv, OneFrame, StatusRead, UnstartedHasNoPid, CondemnedDies,
   Condemned, EventsOfLiving, Frames, Home

\* A frame's own steps while it starts jobs.
LEMMA ExecuteMInv ==
  ASSUME MInv, NEW f \in Frames, ExecuteStep(f), IInv'
  PROVE  MInv'
<1> USE DEF MInv, IInv, TypeOK, FrameTypes, Locs
<1> DEFINE i == idx[f]
<1>0. i \in Jobs /\ i \in Nat /\ i + 1 \in Nat /\ cnt[f] \in Nat /\ cnt[f] + 1 \in Nat
  BY SMTT(30) DEF Jobs
<1>1. CASE ScanJob(f)
  <2>1. At(f, "scan") /\ UNCHANGED <<table, child, kernel>>
    BY <1>1 DEF ScanJob, Considered
  <2>2. /\ \/ pc'[f] = "start" /\ idx'[f] = i /\ task[i] /\ status[i] = "WAITING"
           \/ pc'[f] = "scan"
           \/ pc'[f] = Home(f)
        /\ \A g \in Frames \ {f} :
              pc'[g] = pc[g] /\ idx'[g] = idx[g] /\ cnt'[g] = cnt[g]
    <3>1. CASE /\ task[i] /\ status[i] = "WAITING"
               /\ Goto(f, "start", i, cnt[f])
      <4>1. "start" \in Locs  BY DEF MainLocs, Launching
      <4> QED BY <3>1, <4>1, <1>0, GotoType
    <3>2. CASE Scan(f, i + 1, cnt[f] + 1)
      BY <3>2, <1>0, ScanType
    <3>3. CASE Scan(f, i + 1, cnt[f])
      BY <3>3, <1>0, ScanType
    <3> QED BY <1>1, <3>1, <3>2, <3>3 DEF ScanJob, Considered
  <2> QED
    BY <2>1, <2>2 DEF At, table, kernel, Home, OneFrame, StatusRead, UnstartedHasNoPid,
       CondemnedDies, Condemned, EventsOfLiving, Frames
<1>2. CASE StartJob(f)
  <2>1. /\ At(f, "start") /\ Goto(f, "fork", i, cnt[f])
        /\ status' = [status EXCEPT ![i] = "RUNNING"]
        /\ UNCHANGED <<task, pgid, canceled, enable, child, kernel>>
    BY <1>2 DEF StartJob, AlterStatus
  <2>2. "fork" \in Locs  BY DEF MainLocs, Launching
  <2>3. /\ pc'[f] = "fork" /\ idx'[f] = i
        /\ \A g \in Frames \ {f} : pc'[g] = pc[g] /\ idx'[g] = idx[g]
    BY <2>1, <2>2, <1>0, GotoType
  <2> QED
    BY <2>1, <2>3, <1>0 DEF At, kernel, OneFrame, StatusRead, UnstartedHasNoPid,
       CondemnedDies, Condemned, EventsOfLiving, Frames, Started
<1>3. CASE Fork(f) \/ ForkFails(f)
  <2>1. /\ At(f, "fork") /\ Goto(f, "record", i, cnt[f])
        /\ UNCHANGED <<table, grouped, event, sigchld>>
    BY <1>3 DEF Fork, ForkFails, kernel
  <2>2. \/ UNCHANGED proc
        \/ \E p \in Pids : /\ proc' = [proc EXCEPT ![p] = "running"]
                           /\ proc[p] = "none"
                           /\ \A j \in Jobs : task[j] => pgid[j] # p
    BY <1>3 DEF Fork, ForkFails, kernel, FreshPids
  <2>3. "record" \in Locs  BY DEF MainLocs, Launching
  <2>4. /\ pc'[f] = "record" /\ idx'[f] = i
        /\ \A g \in Frames \ {f} : pc'[g] = pc[g] /\ idx'[g] = idx[g]
    BY <2>1, <2>3, <1>0, GotoType
  <2>5. CondemnedDies'
    BY <2>1, <2>2, <2>4 DEF At, table, Condemned, CondemnedDies, Frames
  <2> QED
    BY <2>1, <2>2, <2>4, <2>5 DEF At, table, OneFrame, StatusRead, UnstartedHasNoPid,
       EventsOfLiving, Frames
<1>4. CASE RecordPgid(f)
  <2>1. /\ At(f, "record") /\ Scan(f, i + 1, cnt[f] + 1)
        /\ pgid' = [pgid EXCEPT ![i] = child[f]]
        /\ UNCHANGED <<task, status, canceled, enable, kernel>>
    BY <1>4 DEF RecordPgid
  <2>2. /\ pc'[f] = "scan" \/ pc'[f] = Home(f)
        /\ \A g \in Frames \ {f} : pc'[g] = pc[g] /\ idx'[g] = idx[g]
    BY <2>1, <1>0, ScanType
  <2> QED
    BY <2>1, <2>2, <1>0 DEF At, kernel, Home, OneFrame, StatusRead, UnstartedHasNoPid,
       CondemnedDies, Condemned, EventsOfLiving, Frames
<1> QED BY <1>1, <1>2, <1>3, <1>4 DEF ExecuteStep

-----------------------------------------------------------------------------
(* The steps of main outside its scans.                                    *)

LEMMA MainTo ==
  ASSUME IInv, NEW loc \in MainLocs, NEW i \in Jobs, Goto("main", loc, i, 0)
  PROVE  /\ pc'["main"] = loc /\ idx'["main"] = i
         /\ pc'["handler"] = pc["handler"] /\ idx'["handler"] = idx["handler"]
<1>1. /\ "main" \in Frames /\ "handler" \in Frames \ {"main"} /\ loc \in Locs
      /\ FrameTypes
  BY DEF Frames, IInv, TypeOK, FrameTypes, Locs
<1> QED BY <1>1, GotoType

LEMMA MainScans ==
  ASSUME IInv, NEW en \in BOOLEAN, CheckAndExecute("main", en)
  PROVE  /\ pc'["main"] \in {"scan", "prompt"}
         /\ pc'["handler"] = pc["handler"] /\ idx'["handler"] = idx["handler"]
<1>1. /\ "main" \in Frames /\ "handler" \in Frames \ {"main"} /\ FrameTypes
  BY DEF Frames, IInv, TypeOK, FrameTypes, Locs
<1> QED BY <1>1, CheckAndExecuteType DEF Home

\* A job that can be canceled has been started: job_cancel never finds a
\* group to kill for a job that waits.
LEMMA CancelableIsStarted ==
  ASSUME MInv, NEW j \in Jobs, Cancelable(j)
  PROVE  task[j] /\ status[j] \in Started /\ pgid[j] \in Pids /\ proc[pgid[j]] # "none"
BY DEF Cancelable, GroupExists, MInv, IInv, TypeOK, UnstartedHasNoPid, Statuses,
   Started, Terminal

\* SIGKILL leaves no runner running, and touches no other.
LEMMA SigKillCondemns ==
  ASSUME TypeOK, EventsOfLiving, NEW g \in Pids, proc[g] # "none", SigKill(g)
  PROVE  /\ proc'[g] \notin {"running", "stopped"} /\ EventsOfLiving'
         /\ \A p \in Pids : p # g => proc'[p] = proc[p]
BY DEF SigKill, TypeOK, EventsOfLiving, kernel

LEMMA CommandMInv ==
  ASSUME MInv, Command \/ JobCreated \/ JobCanceled, IInv'
  PROVE  MInv'
<1> USE DEF AtPrompt
<1>0. /\ IInv /\ TypeOK /\ "main" \in Frames /\ idx["main"] \in Jobs
      /\ {"prompt", "create", "cancel", "fini_cancel"} \subseteq MainLocs
      /\ pc["handler"] = "idle"
  BY DEF MInv, IInv, TypeOK, MainLocs, Finishing, Frames, At, Command, SetEnabled,
     JobCreate, JobExpunge, JobCancel, JobPause, JobResume, Quit, JobCreated, JobCanceled
<1>1. ASSUME NEW val \in BOOLEAN, SetEnabled(val)  PROVE MInv'
  <2>1. /\ pc'["main"] \in {"scan", "prompt"} /\ pc'["handler"] = "idle"
        /\ UNCHANGED <<task, status, pgid, canceled, child, kernel>>
    BY <1>0, <1>1, MainScans DEF SetEnabled
  <2> QED
    BY <1>0, <1>1, <2>1 DEF SetEnabled, At, kernel, MInv, OneFrame, StatusRead, UnstartedHasNoPid,
       CondemnedDies, Condemned, EventsOfLiving, Frames
<1>2. ASSUME NEW ok \in BOOLEAN, JobCreate(ok)  PROVE MInv'
  <2>1. PICK j \in Jobs :
          /\ task' = [task EXCEPT ![j] = ok]
          /\ status' = [status EXCEPT ![j] = "NEW"]
          /\ pgid' = [pgid EXCEPT ![j] = NoPid]
          /\ Goto("main", "create", j, 0)
    BY <1>2 DEF JobCreate, AlterStatus
  <2>2. /\ pc'["main"] = "create" /\ idx'["main"] = j /\ pc'["handler"] = "idle"
        /\ UNCHANGED kernel
    BY <1>0, <1>2, <2>1, MainTo DEF JobCreate
  <2> QED
    BY <1>0, <1>2, <2>1, <2>2 DEF JobCreate, At, kernel, MInv, TypeOK, OneFrame,
       StatusRead, UnstartedHasNoPid, CondemnedDies, Condemned, EventsOfLiving, Frames
<1>3. ASSUME NEW j \in Jobs, JobExpunge(j)  PROVE MInv'
  BY <1>0, <1>3 DEF JobExpunge, At, frames, kernel, MInv, TypeOK, OneFrame,
     StatusRead, UnstartedHasNoPid, CondemnedDies, Condemned, EventsOfLiving, Frames
<1>4. ASSUME NEW j \in Jobs, JobCancel(j)  PROVE MInv'
  <2>1. /\ pc["main"] = "prompt" /\ Cancelable(j) /\ SigKill(pgid[j])
        /\ pc'["main"] = "cancel" /\ idx'["main"] = j /\ pc'["handler"] = "idle"
        /\ UNCHANGED <<task, status, pgid>>
    BY <1>0, <1>4, MainTo DEF JobCancel, At, table
  <2>2. task[j] /\ status[j] \in Started /\ pgid[j] \in Pids /\ proc[pgid[j]] # "none"
    BY <2>1, CancelableIsStarted
  <2>3. /\ proc'[pgid[j]] \notin {"running", "stopped"} /\ EventsOfLiving'
        /\ \A p \in Pids : p # pgid[j] => proc'[p] = proc[p]
    BY <1>0, <2>1, <2>2, SigKillCondemns DEF MInv
  <2>4. CondemnedDies'
    BY <2>1, <2>2, <2>3 DEF MInv, CondemnedDies, Condemned
  <2> QED
    BY <1>0, <2>1, <2>2, <2>3, <2>4 DEF MInv, OneFrame, StatusRead, UnstartedHasNoPid, Frames
<1>5. ASSUME NEW j \in Jobs, JobPause(j) \/ JobResume(j)  PROVE MInv'
  <2>1. /\ UNCHANGED <<table, frames>> /\ pgid[j] \in Pids
        /\ \/ Signal(pgid[j], "running", "stopped", "stopped")
           \/ Signal(pgid[j], "stopped", "running", "continued")
    BY <1>5 DEF JobPause, JobResume, GroupExists
  <2>2. EventsOfLiving' /\ CondemnedDies'
    BY <1>0, <2>1 DEF Signal, table, frames, kernel, MInv, TypeOK, EventsOfLiving,
       CondemnedDies, Condemned
  <2> QED
    BY <2>1, <2>2 DEF table, frames, MInv, OneFrame, StatusRead, UnstartedHasNoPid
<1>6. ASSUME Quit  PROVE MInv'
  <2>1. /\ pc'["main"] = "fini_cancel" /\ pc'["handler"] = "idle"
        /\ UNCHANGED <<table, proc, event>>
    BY <1>0, <1>6, JobsFacts, MainTo DEF Quit
  <2> QED
    BY <1>0, <1>6, <2>1 DEF Quit, At, table, MInv, OneFrame, StatusRead, UnstartedHasNoPid,
       CondemnedDies, Condemned, EventsOfLiving, Frames
<1>7. ASSUME JobCreated  PROVE MInv'
  <2>1. /\ pc["main"] = "create"
        /\ pc'["main"] \in {"scan", "prompt"} /\ pc'["handler"] = "idle"
        /\ status' = [status EXCEPT ![idx["main"]] = "WAITING"]
        /\ UNCHANGED <<task, pgid, kernel>>
    BY <1>0, <1>7, MainScans DEF JobCreated, At, AlterStatus, TypeOK
  <2>2. status[idx["main"]] = "NEW" /\ (task[idx["main"]] => pgid[idx["main"]] = NoPid)
    BY <1>0, <2>1 DEF MInv, StatusRead, UnstartedHasNoPid
  <2> QED
    BY <1>0, <2>1, <2>2 DEF kernel, MInv, TypeOK, OneFrame, StatusRead, UnstartedHasNoPid,
       CondemnedDies, Condemned, EventsOfLiving, Frames
<1>8. ASSUME JobCanceled  PROVE MInv'
  <2>1. /\ pc["main"] = "cancel" /\ pc'["main"] = "prompt" /\ pc'["handler"] = "idle"
        /\ MarkCanceled(idx["main"]) /\ UNCHANGED <<task, pgid, kernel>>
    BY <1>0, <1>8, JobsFacts, MainTo DEF JobCanceled, Return, Home, At
  <2>2. status' = [status EXCEPT ![idx["main"]] = "CANCELED"]
    BY <2>1 DEF MarkCanceled, AlterStatus, MInv, StatusRead, Started
  <2> QED
    BY <1>0, <2>1, <2>2 DEF kernel, MInv, TypeOK, OneFrame, StatusRead, UnstartedHasNoPid,
       CondemnedDies, Condemned, EventsOfLiving, Frames
<1> QED BY <1>1, <1>2, <1>3, <1>4, <1>5, <1>6, <1>7, <1>8 DEF Command

\* A condemned runner is reported only when it is dead.
LEMMA CondemnedEnds ==
  ASSUME MInv, NEW j \in Jobs, Condemned(j), NEW p \in Reportable(pgid[j])
  PROVE  p = pgid[j] /\ proc[p] \in Zombie /\ StatusFor(p) \in Terminal
<1>1. pgid[j] \in Pids /\ proc[pgid[j]] \notin {"running", "stopped"}
  BY DEF MInv, CondemnedDies
<1>2. p = pgid[j] /\ (proc[p] \in Zombie \/ event[p] # "none")
  BY <1>1 DEF Reportable, Ended, Asked
<1>3. proc[p] \in Zombie
  BY <1>1, <1>2 DEF MInv, EventsOfLiving
<1> QED BY <1>1, <1>2, <1>3, StatusForType

\* Reports end runners; they start and continue none.
LEMMA CollectKeeps ==
  ASSUME TypeOK, EventsOfLiving, NEW p \in Pids, Collect(p)
  PROVE  /\ EventsOfLiving'
         /\ \A q \in Pids : proc'[q] \in {proc[q], "none"}
BY DEF Collect, TypeOK, EventsOfLiving, Zombie

LEMMA FiniMInv ==
  ASSUME MInv, FiniCancel \/ FiniWait \/ FiniExpunge, IInv'
  PROVE  MInv'
<1> DEFINE j == idx["main"]
<1>0. /\ IInv /\ TypeOK /\ j \in Jobs /\ "main" \in Frames /\ EventsOfLiving
      /\ pc["main"] \in Finishing /\ pc["handler"] = "idle"
  BY DEF MInv, IInv, TypeOK, Frames, FiniCancel, FiniWait, FiniExpunge, At, Finishing
<1>1. pc'["main"] \in Finishing /\ pc'["handler"] = "idle"
  <2>1. PICK loc \in Finishing, i \in Jobs : Goto("main", loc, i, 0)
    <3>1. j + 1 < MAX_JOBS => j + 1 \in Jobs  BY <1>0, JobsFacts
    <3> QED
      BY <1>0, <3>1, JobsFacts DEF FiniCancel, FiniWait, FiniExpunge, FiniNext, Finishing
  <2>2. loc \in MainLocs  BY DEF MainLocs
  <2> QED BY <1>0, <2>1, <2>2, MainTo
<1>2. OneFrame' /\ StatusRead'
  BY <1>1 DEF OneFrame, StatusRead, Finishing, Frames
<1>3. CASE FiniCancel
  <2>1. CASE Cancelable(j) /\ SigKill(pgid[j]) /\ MarkCanceled(j)
    <3>1. task[j] /\ status[j] \in Started /\ pgid[j] \in Pids /\ proc[pgid[j]] # "none"
      BY <1>0, <2>1, CancelableIsStarted
    <3>2. /\ proc'[pgid[j]] \notin {"running", "stopped"} /\ EventsOfLiving'
          /\ \A p \in Pids : p # pgid[j] => proc'[p] = proc[p]
      BY <1>0, <2>1, <3>1, SigKillCondemns
    <3>3. status' = [status EXCEPT ![j] = "CANCELED"] /\ UNCHANGED <<task, pgid>>
      BY <1>3, <2>1, <3>1 DEF FiniCancel, MarkCanceled, AlterStatus, Started
    <3>4. CondemnedDies' /\ UnstartedHasNoPid'
      BY <1>0, <1>1, <3>1, <3>2, <3>3
         DEF MInv, TypeOK, CondemnedDies, Condemned, UnstartedHasNoPid, Finishing
    <3> QED BY <1>2, <3>2, <3>4 DEF MInv
  <2>2. CASE UNCHANGED <<status, canceled, kernel>>
    BY <1>0, <1>1, <1>2, <1>3, <2>2 DEF FiniCancel, kernel, MInv, UnstartedHasNoPid,
       CondemnedDies, Condemned, EventsOfLiving, Finishing
  <2> QED BY <1>3, <2>1, <2>2 DEF FiniCancel
<1>4. CASE FiniWait
  <2>1. /\ UNCHANGED <<task, pgid>>
        /\ \A k \in Jobs : k # j => status'[k] = status[k]
        /\ status'[j] \in Terminal
        /\ EventsOfLiving' /\ \A q \in Pids : proc'[q] \in {proc[q], "none"}
    <3>1. CASE \E p \in Ended(pgid[j]) : AlterStatus(j, StatusFor(p)) /\ Collect(p)
      BY <1>0, <1>4, <3>1, CollectKeeps, StatusForType
         DEF FiniWait, AlterStatus, Ended, Asked, TypeOK
    <3>2. CASE AlterStatus(j, "COMPLETED") /\ UNCHANGED kernel
      BY <1>0, <1>4, <3>2
         DEF FiniWait, AlterStatus, kernel, TypeOK, EventsOfLiving, Terminal
    <3> QED BY <1>4, <3>1, <3>2 DEF FiniWait
  <2>2. CondemnedDies' /\ UnstartedHasNoPid'
    BY <1>0, <1>1, <2>1
       DEF MInv, TypeOK, CondemnedDies, Condemned, UnstartedHasNoPid, Finishing, Terminal
  <2> QED BY <1>2, <2>1, <2>2 DEF MInv
<1>5. CASE FiniExpunge
  BY <1>0, <1>1, <1>2, <1>5 DEF FiniExpunge, kernel, MInv, TypeOK, UnstartedHasNoPid,
     CondemnedDies, Condemned, EventsOfLiving, Finishing
<1> QED BY <1>3, <1>4, <1>5

-----------------------------------------------------------------------------
(* The handler and the runners.                                            *)

LEMMA DeliverMInv ==
  ASSUME MInv, Deliver, pc["main"] = "prompt", IInv'
  PROVE  MInv'
<1>1. /\ "handler" \in Frames /\ "main" \in Frames \ {"handler"} /\ "check" \in Locs
      /\ FrameTypes
  BY DEF MInv, IInv, TypeOK, FrameTypes, Frames, Locs, HandlerLocs
<1>2. /\ pc'["handler"] = "check"
      /\ pc'["main"] = pc["main"] /\ idx'["main"] = idx["main"]
  BY <1>1, JobsFacts, GotoType DEF Deliver
<1> QED
  BY <1>2 DEF Deliver, table, MInv, OneFrame, StatusRead, UnstartedHasNoPid,
     CondemnedDies, Condemned, EventsOfLiving, Frames

\* What CheckAJob does to its job: nothing, or what a report says.
LEMMA CheckAJobFrames ==
  ASSUME MInv, CheckAJob
  PROVE  /\ pc["main"] = "prompt" /\ pc'["main"] = "prompt"
         /\ pc'["handler"] \in {"check", "idle", "scan"}
         /\ UNCHANGED <<task, pgid, enable>>
         /\ idx["handler"] \in Jobs
<1> DEFINE j == idx["handler"]
<1>1. /\ "handler" \in Frames /\ "main" \in Frames \ {"handler"} /\ "check" \in Locs
      /\ FrameTypes /\ j \in Jobs /\ enable \in BOOLEAN
  BY DEF MInv, IInv, TypeOK, FrameTypes, Frames, Locs, HandlerLocs
<1>2. pc["main"] = "prompt" /\ UNCHANGED <<task, pgid, enable>>
  BY DEF CheckAJob, At, MInv, OneFrame
<1>3. CASE j + 1 < MAX_JOBS
  <2>1. j + 1 \in Jobs /\ Goto("handler", "check", j + 1, 0)
    BY <1>1, <1>3, JobsFacts DEF CheckAJob, CheckNext
  <2> QED BY <1>1, <1>2, <2>1, GotoType
<1>4. CASE ~(j + 1 < MAX_JOBS)
  BY <1>1, <1>2, <1>4, CheckAndExecuteType DEF CheckAJob, CheckNext, Home
<1> QED BY <1>3, <1>4

LEMMA CheckAJobMInv ==
  ASSUME MInv, CheckAJob, IInv'
  PROVE  MInv'
<1> DEFINE j == idx["handler"]
<1>1. /\ pc["main"] = "prompt" /\ pc'["main"] = "prompt"
      /\ pc'["handler"] \in {"check", "idle", "scan"}
      /\ UNCHANGED <<task, pgid, enable>> /\ j \in Jobs /\ TypeOK
  BY CheckAJobFrames DEF MInv, IInv
<1>2. OneFrame' /\ StatusRead'
  BY <1>1 DEF OneFrame, StatusRead, Frames
<1>3. CASE /\ task[j] /\ status[j] \in Active
           /\ \E p \in Reportable(pgid[j]) : AlterStatus(j, StatusFor(p)) /\ Collect(p)
  <2>1. PICK p \in Reportable(pgid[j]) : AlterStatus(j, StatusFor(p)) /\ Collect(p)
    BY <1>3
  <2>2. p \in Pids /\ StatusFor(p) \in {"COMPLETED", "ABORTED", "PAUSED", "RUNNING"}
    BY <2>1 DEF Reportable, Ended, Asked, StatusFor
  <2>3. EventsOfLiving' /\ \A q \in Pids : proc'[q] \in {proc[q], "none"}
    BY <1>1, <2>1, <2>2, CollectKeeps DEF MInv
  <2>4. CondemnedDies' /\ UnstartedHasNoPid'
    BY <1>1, <2>1, <2>2, <2>3 DEF AlterStatus, MInv, TypeOK, CondemnedDies, Condemned,
       UnstartedHasNoPid
  <2> QED BY <1>2, <2>3, <2>4 DEF MInv
<1>4. CASE UNCHANGED <<status, kernel>>
  BY <1>1, <1>2, <1>4 DEF kernel, MInv, UnstartedHasNoPid, CondemnedDies, Condemned,
     EventsOfLiving
<1> QED BY <1>3, <1>4 DEF CheckAJob, Poll

LEMMA RunnerMInv ==
  ASSUME MInv, NEW p \in Pids, RunnerStep(p), IInv'
  PROVE  MInv'
<1>1. UNCHANGED <<table, frames>>
  BY DEF RunnerStep, RunnerGroups, RunnerExits, RunnerKilled, RunnerStops, RunnerDies, Become
<1>2. EventsOfLiving'
  BY DEF MInv, IInv, TypeOK, EventsOfLiving, RunnerStep, RunnerGroups, RunnerExits,
     RunnerKilled, RunnerStops, RunnerDies, Become
<1>3. \A q \in Pids : proc[q] \notin {"running", "stopped"}
                        => proc'[q] \notin {"running", "stopped"}
  BY DEF MInv, IInv, TypeOK, RunnerStep, RunnerGroups, RunnerExits, RunnerKilled,
     RunnerStops, RunnerDies, Become
<1> QED
  BY <1>1, <1>2, <1>3 DEF table, frames, MInv, OneFrame, StatusRead, UnstartedHasNoPid,
     CondemnedDies, Condemned

LEMMA NextMInv == MInv /\ [MaskedNext]_vars => MInv'
<1> SUFFICES ASSUME MInv, [MaskedNext]_vars PROVE MInv'
  OBVIOUS
<1>1. IInv'  BY MaskedIsNext, NextIInv DEF MInv
<1>2. "main" \in Frames /\ "handler" \in Frames  BY DEF Frames
<1>3. CASE Deliver /\ pc["main"] = "prompt"   BY <1>1, <1>3, DeliverMInv
<1>4. CASE Command                            BY <1>1, <1>4, CommandMInv
<1>5. CASE MainStep
  BY <1>1, <1>2, <1>5, ExecuteMInv, CommandMInv, FiniMInv DEF MainStep
<1>6. CASE HandlerStep
  BY <1>1, <1>2, <1>6, CheckAJobMInv, ExecuteMInv DEF HandlerStep
<1>7. CASE \E p \in Pids : RunnerStep(p)      BY <1>1, <1>7, RunnerMInv
<1>8. CASE Exited \/ UNCHANGED vars
  BY <1>1, <1>8 DEF Exited, vars, table, frames, kernel, MInv, OneFrame, StatusRead,
     UnstartedHasNoPid, CondemnedDies, Condemned, EventsOfLiving
<1> QED BY <1>3, <1>4, <1>5, <1>6, <1>7, <1>8 DEF MaskedNext, OtherStep

LEMMA MaskedSpecMInv == MaskedSpec => []MInv
BY InitMInv, NextMInv, PTL DEF MaskedSpec

-----------------------------------------------------------------------------
(* Every step is a step of the documented life of a job, or moves no job.  *)

LifecycleStep == [Lifecycle!Next]_(Lifecycle!vars)

\* A change of status of a job that has its task is a change of its life.
LEMMA LifeMove ==
  ASSUME TypeOK, NEW j \in Jobs, task[j], NEW s,
         UNCHANGED <<task, enable>>, AlterStatus(j, s)
  PROVE  life[j] = status[j] /\ life' = [life EXCEPT ![j] = s]
BY DEF TypeOK, AlterStatus, life

LEMMA LifeSame ==
  ASSUME TypeOK, UNCHANGED <<enable, task>>,
         \A j \in Jobs : task[j] => status'[j] = status[j]
  PROVE  LifecycleStep
BY DEF TypeOK, life, LifecycleStep, Lifecycle!vars

\* What a report does to an active job.
LEMMA ReportStep ==
  ASSUME MInv, NEW j \in Jobs, task[j], status[j] \in Active,
         NEW p \in Reportable(pgid[j]), AlterStatus(j, StatusFor(p)),
         UNCHANGED <<task, enable>>
  PROVE  LifecycleStep
<1>1. TypeOK /\ StatusFor(p) \in {"COMPLETED", "ABORTED", "PAUSED", "RUNNING"}
  BY DEF MInv, IInv, StatusFor
<1>2. life[j] = status[j] /\ life' = [life EXCEPT ![j] = StatusFor(p)]
  BY <1>1, LifeMove
<1>3. CASE StatusFor(p) \in Terminal
  BY <1>2, <1>3 DEF Active, Started, Terminal, LifecycleStep, Lifecycle!Next,
     Lifecycle!End, Lifecycle!Move
<1>4. CASE StatusFor(p) \notin Terminal
  <2>1. status[j] \in Started
    BY <1>4, CondemnedEnds DEF Condemned, Active
  <2>2. StatusFor(p) = status[j] \/ Lifecycle!Pause(j) \/ Lifecycle!Resume(j)
    BY <1>1, <1>2, <1>4, <2>1 DEF Started, Terminal, Lifecycle!Pause, Lifecycle!Resume,
       Lifecycle!Move
  <2>3. CASE StatusFor(p) = status[j]
    BY <1>1, <2>3, LifeSame DEF AlterStatus, TypeOK
  <2> QED BY <2>2, <2>3 DEF LifecycleStep, Lifecycle!Next
<1> QED BY <1>3, <1>4

\* The steps that change no status of a job that exists.
LEMMA SilentSteps ==
  ASSUME MInv,
         \/ Deliver \/ Exited \/ UNCHANGED vars
         \/ \E p \in Pids : RunnerStep(p)
         \/ \E j \in Jobs : JobCancel(j) \/ JobPause(j) \/ JobResume(j)
         \/ Quit
         \/ \E f \in Frames : ScanJob(f) \/ Fork(f) \/ ForkFails(f) \/ RecordPgid(f)
  PROVE  LifecycleStep
<1>1. UNCHANGED <<task, status, enable>>
  BY DEF Deliver, Exited, vars, RunnerStep, RunnerGroups, RunnerExits, RunnerKilled,
     RunnerStops, RunnerDies, Become, JobCancel, JobPause, JobResume, Quit, ScanJob,
     Fork, ForkFails, RecordPgid, table
<1> QED BY <1>1, LifeSame DEF MInv, IInv

LEMMA CommandLife ==
  ASSUME MInv, Command \/ JobCreated \/ JobCanceled
  PROVE  LifecycleStep
<1>0. TypeOK /\ idx["main"] \in Jobs  BY DEF MInv, IInv, TypeOK, Frames
<1>1. ASSUME NEW val \in BOOLEAN, SetEnabled(val)  PROVE LifecycleStep
  <2>1. Lifecycle!SetEnabled
    BY <1>1 DEF SetEnabled, life, Lifecycle!SetEnabled
  <2> QED BY <2>1 DEF LifecycleStep, Lifecycle!Next
<1>2. ASSUME NEW ok \in BOOLEAN, JobCreate(ok)  PROVE LifecycleStep
  <2>1. PICK j \in Jobs : /\ ~task[j]
                          /\ task' = [task EXCEPT ![j] = ok]
                          /\ status' = [status EXCEPT ![j] = "NEW"]
                          /\ enable' = enable
    BY <1>2 DEF JobCreate, AlterStatus
  <2>2. CASE ok
    <3>1. life[j] = "FREE" /\ life' = [life EXCEPT ![j] = "NEW"]
      BY <1>0, <2>1, <2>2 DEF life, TypeOK
    <3>2. Lifecycle!Create(j)
      BY <2>1, <3>1 DEF Lifecycle!Create, Lifecycle!Move
    <3> QED BY <3>2 DEF LifecycleStep, Lifecycle!Next
  <2>3. CASE ~ok
    <3>1. task' = task /\ \A k \in Jobs : task[k] => status'[k] = status[k]
      BY <1>0, <2>1, <2>3 DEF TypeOK
    <3> QED BY <1>0, <2>1, <3>1, LifeSame
  <2> QED BY <2>2, <2>3
<1>3. ASSUME NEW j \in Jobs, JobExpunge(j)  PROVE LifecycleStep
  <2>1. life[j] \in Terminal /\ life' = [life EXCEPT ![j] = "FREE"] /\ enable' = enable
    BY <1>0, <1>3 DEF JobExpunge, Expungeable, life, TypeOK
  <2>2. Lifecycle!Expunge(j)
    BY <2>1 DEF Terminal, Lifecycle!Expunge, Lifecycle!Move
  <2> QED BY <2>2 DEF LifecycleStep, Lifecycle!Next
<1>4. CASE \/ \E j \in Jobs : JobCancel(j) \/ JobPause(j) \/ JobResume(j)
           \/ Quit
  BY <1>4, SilentSteps
<1>5. ASSUME JobCreated  PROVE LifecycleStep
  <2> DEFINE j == idx["main"]
  <2>1. /\ status[j] = "NEW" /\ AlterStatus(j, "WAITING") /\ UNCHANGED <<task, enable>>
    BY <1>5 DEF JobCreated, At, MInv, StatusRead
  <2>2. CASE task[j]
    <3>1. life[j] = "NEW" /\ life' = [life EXCEPT ![j] = "WAITING"]
      BY <1>0, <2>1, <2>2, LifeMove
    <3>2. Lifecycle!Initialize(j)
      BY <2>1, <3>1 DEF Lifecycle!Initialize, Lifecycle!Move
    <3> QED BY <1>0, <3>2 DEF LifecycleStep, Lifecycle!Next
  <2>3. CASE ~task[j]
    <3>1. \A k \in Jobs : task[k] => status'[k] = status[k]
      BY <1>0, <2>1, <2>3 DEF AlterStatus, TypeOK
    <3> QED BY <1>0, <2>1, <3>1, LifeSame
  <2> QED BY <2>2, <2>3
<1>6. ASSUME JobCanceled  PROVE LifecycleStep
  <2> DEFINE j == idx["main"]
  <2>1. /\ task[j] /\ status[j] \in Started
        /\ AlterStatus(j, "CANCELED") /\ UNCHANGED <<task, enable>>
    BY <1>6 DEF JobCanceled, MarkCanceled, At, MInv, StatusRead, Started
  <2>2. life[j] = status[j] /\ life' = [life EXCEPT ![j] = "CANCELED"]
    BY <1>0, <2>1, LifeMove
  <2>3. Lifecycle!Cancel(j)
    BY <2>1, <2>2 DEF Started, Lifecycle!Cancel, Lifecycle!Move
  <2> QED BY <1>0, <2>3 DEF LifecycleStep, Lifecycle!Next
<1> QED BY <1>1, <1>2, <1>3, <1>4, <1>5, <1>6 DEF Command

LEMMA FiniLife ==
  ASSUME MInv, FiniCancel \/ FiniWait \/ FiniExpunge
  PROVE  LifecycleStep
<1> DEFINE j == idx["main"]
<1>0. TypeOK /\ j \in Jobs  BY DEF MInv, IInv, TypeOK, Frames
<1>1. CASE FiniCancel
  <2>1. CASE Cancelable(j) /\ MarkCanceled(j)
    <3>1. task[j] /\ status[j] \in Started
      BY <1>0, <2>1, CancelableIsStarted
    <3>2. AlterStatus(j, "CANCELED") /\ UNCHANGED <<task, enable>>
      BY <1>1, <2>1, <3>1 DEF FiniCancel, MarkCanceled, Started
    <3>3. life[j] = status[j] /\ life' = [life EXCEPT ![j] = "CANCELED"]
      BY <1>0, <3>1, <3>2, LifeMove
    <3>4. Lifecycle!Cancel(j)
      BY <3>1, <3>2, <3>3 DEF Started, Lifecycle!Cancel, Lifecycle!Move
    <3> QED BY <1>0, <3>4 DEF LifecycleStep, Lifecycle!Next
  <2>2. CASE UNCHANGED <<status, canceled, kernel>>
    BY <1>0, <1>1, <2>2, LifeSame DEF FiniCancel
  <2> QED BY <1>1, <2>1, <2>2 DEF FiniCancel
<1>2. CASE FiniWait
  <2>1. task[j] /\ status[j] \in Active /\ UNCHANGED <<task, enable>>
    BY <1>2 DEF FiniWait
  <2>2. PICK s \in Terminal : AlterStatus(j, s)
    BY <1>2, StatusForType DEF FiniWait, Ended, Asked, Terminal
  <2>3. life[j] = status[j] /\ life' = [life EXCEPT ![j] = s]
    BY <1>0, <2>1, <2>2, LifeMove
  <2>4. Lifecycle!End(j)
    BY <2>1, <2>2, <2>3 DEF Active, Started, Terminal, Lifecycle!End, Lifecycle!Move
  <2> QED BY <1>0, <2>4 DEF LifecycleStep, Lifecycle!Next
<1>3. CASE FiniExpunge
  <2>1. /\ task' = [task EXCEPT ![j] = task[j] /\ ~Expungeable(j)]
        /\ UNCHANGED <<status, enable>>
    BY <1>3 DEF FiniExpunge
  <2>2. CASE Expungeable(j)
    <3>1. life[j] \in Terminal /\ life' = [life EXCEPT ![j] = "FREE"]
      BY <1>0, <2>1, <2>2 DEF Expungeable, life, TypeOK
    <3>2. Lifecycle!Expunge(j)
      BY <2>1, <3>1 DEF Terminal, Lifecycle!Expunge, Lifecycle!Move
    <3> QED BY <1>0, <3>2 DEF LifecycleStep, Lifecycle!Next
  <2>3. CASE ~Expungeable(j)
    <3>1. task' = task
      BY <1>0, <2>1, <2>3 DEF TypeOK
    <3> QED BY <1>0, <2>1, <3>1, LifeSame
  <2> QED BY <2>2, <2>3
<1> QED BY <1>1, <1>2, <1>3

LEMMA ExecuteLife ==
  ASSUME MInv, NEW f \in Frames, ExecuteStep(f)
  PROVE  LifecycleStep
<1>1. CASE StartJob(f)
  <2> DEFINE j == idx[f]
  <2>1. /\ TypeOK /\ j \in Jobs /\ task[j] /\ status[j] = "WAITING" /\ enable
        /\ AlterStatus(j, "RUNNING") /\ UNCHANGED <<task, enable>>
    BY <1>1 DEF StartJob, At, MInv, IInv, TypeOK, StatusRead, ExecutesLiveTask, Executing,
       LaunchEnabled, Launching
  <2>2. life[j] = "WAITING" /\ life' = [life EXCEPT ![j] = "RUNNING"]
    BY <2>1, LifeMove
  <2>3. Lifecycle!Start(j)
    BY <2>1, <2>2 DEF Lifecycle!Start, Lifecycle!Move
  <2> QED BY <2>1, <2>3 DEF LifecycleStep, Lifecycle!Next
<1> QED BY <1>1, SilentSteps DEF ExecuteStep

LEMMA CheckAJobLife ==
  ASSUME MInv, CheckAJob
  PROVE  LifecycleStep
<1> DEFINE j == idx["handler"]
<1>1. UNCHANGED <<task, enable>> /\ j \in Jobs /\ TypeOK
  BY CheckAJobFrames DEF MInv, IInv
<1>2. CASE /\ task[j] /\ status[j] \in Active
           /\ \E p \in Reportable(pgid[j]) : AlterStatus(j, StatusFor(p))
  BY <1>1, <1>2, ReportStep
<1>3. CASE UNCHANGED <<status, kernel>>
  BY <1>1, <1>3, LifeSame
<1> QED BY <1>2, <1>3 DEF CheckAJob, Poll

\* With SIGCHLD masked during commands the code implements the job states of
\* jobber.h: no job is started while disabled or twice, a canceled job only
\* terminates, a terminated one is only expunged.
THEOREM JobberFollowsLifecycle == MaskedSpec => FollowsLifecycle
<1>1. Init => Lifecycle!Init
  BY DEF Init, Lifecycle!Init, life
<1>2. MInv /\ [MaskedNext]_vars => [Lifecycle!Next]_(Lifecycle!vars)
  <2> SUFFICES ASSUME MInv, [MaskedNext]_vars PROVE LifecycleStep
    BY DEF LifecycleStep
  <2>1. "main" \in Frames /\ "handler" \in Frames  BY DEF Frames
  <2>2. CASE MainStep
    BY <2>1, <2>2, ExecuteLife, CommandLife, FiniLife DEF MainStep
  <2>3. CASE HandlerStep
    BY <2>1, <2>3, CheckAJobLife, ExecuteLife DEF HandlerStep
  <2>4. CASE Command
    BY <2>4, CommandLife
  <2> QED BY <2>2, <2>3, <2>4, SilentSteps DEF MaskedNext, OtherStep
<1> QED
  BY <1>1, <1>2, MaskedSpecMInv, PTL DEF MaskedSpec, FollowsLifecycle, Lifecycle!Spec


-----------------------------------------------------------------------------
(* Each active job has a runner of its own, if fork does not fail.         *)

\* Fork does not fail: it may not, and there are as many numbers as jobs.
ForksSucceed ==
  ~ForkMayFail /\ \E f \in [Jobs -> Pids] : \A j, k \in Jobs : f[j] = f[k] => j = k

Recording(f) == pc[f] = "record"

\* What execute_job has in its variable cpid, and not in the table yet.
ForkedChild ==
  \A f \in Frames :
    IF Recording(f) THEN /\ child[f] \in Pids
                         /\ proc[child[f]] # "none" /\ owner[child[f]] = idx[f]
                    ELSE child[f] = NoPid

NotYetRecorded ==
  \A f \in Frames : pc[f] \in {"fork", "record"} => pgid[idx[f]] = NoPid

JobHasRunner ==
  \A j \in Jobs : task[j] /\ status[j] \in Active /\ ~InExecute(j)
    => pgid[j] # NoPid /\ proc[pgid[j]] # "none" /\ owner[pgid[j]] = j

\* A process is in the table, or in the variable of the frame that forked it.
RunnerHasJob ==
  \A p \in Pids : proc[p] # "none" =>
    LET j == owner[p] IN
    /\ task[j] /\ status[j] \in Active
    /\ pgid[j] = p \/ \E f \in Frames : Recording(f) /\ idx[f] = j /\ child[f] = p

RInv == ForkedChild /\ NotYetRecorded /\ JobHasRunner /\ RunnerHasJob

LEMMA InitRInv == Init => RInv
BY DEF Init, RInv, ForkedChild, NotYetRecorded, JobHasRunner, RunnerHasJob, Recording,
   Frames, Home, Active, Started

\* A step that neither makes nor ends a process or an active job.
QuietStep ==
  /\ UNCHANGED <<task, pgid, child, owner>>
  /\ \A p \in Pids : proc'[p] # "none" <=> proc[p] # "none"
  /\ \A j \in Jobs : task[j] => (status'[j] \in Active <=> status[j] \in Active)
  /\ \A f \in Frames : /\ Executing(f) => pc'[f] = pc[f] /\ idx'[f] = idx[f]
                       /\ pc'[f] \in {"fork", "record"} => pc[f] = pc'[f]

LEMMA QuietRInv ==
  ASSUME MInv, RInv, QuietStep
  PROVE  RInv'
<1> USE DEF QuietStep, RInv, MInv, IInv, TypeOK, Executing, Recording
<1>1. \A f \in Frames : idx[f] \in Jobs /\ (Recording(f)' <=> Recording(f))
  OBVIOUS
<1>2. ForkedChild' /\ NotYetRecorded'
  BY DEF ForkedChild, NotYetRecorded
<1>3. JobHasRunner'
  BY DEF JobHasRunner, InExecute
<1>4. RunnerHasJob'
  BY DEF RunnerHasJob
<1> QED BY <1>2, <1>3, <1>4

\* The other frame is not in execute_job.
LEMMA OnlyFrame ==
  ASSUME MInv, NEW f \in Frames, NEW loc \in Launching, At(f, loc), NEW g \in Frames \ {f}
  PROVE  ~Executing(g) /\ ~Recording(g)
BY DEF MInv, OneFrame, At, Frames, Executing, Recording, Launching

\* The numbers in use are those of other jobs, and there are more.
LEMMA ForkIsPossible ==
  ASSUME MInv, RInv, ForksSucceed, NEW f \in Frames
  PROVE  ~ForkFails(f)
<1> SUFFICES ASSUME ForkFails(f) PROVE FALSE
  OBVIOUS
<1> DEFINE i == idx[f]
<1>1. At(f, "fork") /\ FreshPids = {} /\ i \in Jobs
  BY DEF ForkFails, ForksSucceed, MInv, IInv, TypeOK
<1>2. \A g \in Frames : ~Recording(g) /\ child[g] = NoPid
  BY <1>1, OnlyFrame DEF At, Recording, RInv, ForkedChild, Launching
<1>3. pgid[i] = NoPid
  BY <1>1 DEF At, RInv, NotYetRecorded
<1>4. ASSUME NEW p \in Pids PROVE \E j \in Jobs \ {i} : pgid[j] = p
  <2>1. CASE proc[p] # "none"
    <3>1. pgid[owner[p]] = p /\ owner[p] \in Jobs
      BY <1>2, <2>1 DEF RInv, RunnerHasJob, MInv, IInv, TypeOK
    <3> QED BY <1>3, <3>1
  <2>2. ASSUME NEW j \in Jobs, pgid[j] = p PROVE \E k \in Jobs \ {i} : pgid[k] = p
    BY <1>3, <2>2
  <2> QED BY <1>1, <1>2, <2>1, <2>2 DEF FreshPids
<1>5. PICK number \in [Jobs -> Pids] : \A j, k \in Jobs : number[j] = number[k] => j = k
  BY DEF ForksSucceed
<1> DEFINE user == [j \in Jobs |-> CHOOSE k \in Jobs \ {i} : pgid[k] = number[j]]
<1>6. user \in [Jobs -> Jobs \ {i}] /\ \A j \in Jobs : pgid[user[j]] = number[j]
  BY <1>4, <1>5
<1>7. IsFiniteSet(Jobs) /\ IsFiniteSet(Jobs \ {i})
      /\ Cardinality(Jobs \ {i}) < Cardinality(Jobs)
  <2>1. IsFiniteSet(Jobs) BY FS_Interval DEF Jobs
  <2>2. /\ IsFiniteSet(Jobs \ {i})
        /\ Cardinality(Jobs \ {i}) = Cardinality(Jobs) - 1
    BY <1>1, <2>1, FS_RemoveElement
  <2> QED BY <2>1, <2>2, FS_CardinalityType
<1>8. \E j, k \in Jobs : j # k /\ user[j] = user[k]
  <2> HIDE DEF user
  <2> QED BY <1>6, <1>7, FS_PigeonHole
<1> QED BY <1>5, <1>6, <1>8

LEMMA ExecuteRInv ==
  ASSUME MInv, RInv, ForksSucceed, NEW f \in Frames, ExecuteStep(f)
  PROVE  RInv'
<1> USE DEF MInv, IInv, TypeOK, FrameTypes, Locs
<1> DEFINE i == idx[f]
<1>0. i \in Jobs /\ i \in Nat /\ i + 1 \in Nat /\ cnt[f] \in Nat /\ cnt[f] + 1 \in Nat
  BY DEF Jobs
<1>1. CASE ScanJob(f)
  <2>1. At(f, "scan") /\ UNCHANGED <<table, child, kernel>>
    BY <1>1 DEF ScanJob, Considered
  <2>2. /\ pc'[f] \in {"start", "scan", Home(f)}
        /\ \A g \in Frames \ {f} :
              pc'[g] = pc[g] /\ idx'[g] = idx[g] /\ cnt'[g] = cnt[g]
    <3>1. CASE Goto(f, "start", i, cnt[f])
      <4>1. "start" \in Locs  BY DEF MainLocs, Launching
      <4> QED BY <3>1, <4>1, <1>0, GotoType
    <3>2. CASE Scan(f, i + 1, cnt[f] + 1)
      BY <3>2, <1>0, ScanType
    <3>3. CASE Scan(f, i + 1, cnt[f])
      BY <3>3, <1>0, ScanType
    <3> QED BY <1>1, <3>1, <3>2, <3>3 DEF ScanJob
  <2>3. QuietStep
    BY <2>1, <2>2 DEF At, table, kernel, QuietStep, Home, Executing, Frames
  <2> QED BY <2>3, QuietRInv
<1>2. CASE StartJob(f)
  <2>1. /\ At(f, "start") /\ Goto(f, "fork", i, cnt[f])
        /\ status' = [status EXCEPT ![i] = "RUNNING"]
        /\ UNCHANGED <<task, pgid, canceled, enable, child, kernel>>
    BY <1>2 DEF StartJob, AlterStatus
  <2>2. "fork" \in Locs  BY DEF MainLocs, Launching
  <2>3. /\ pc'[f] = "fork" /\ idx'[f] = i
        /\ \A g \in Frames \ {f} : pc'[g] = pc[g] /\ idx'[g] = idx[g]
    BY <2>1, <2>2, <1>0, GotoType
  <2>4. task[i] /\ status[i] = "WAITING" /\ pgid[i] = NoPid
    BY <1>0, <2>1 DEF At, StatusRead, ExecutesLiveTask, Executing, UnstartedHasNoPid
  <2>5. \A g \in Frames : Recording(g)' <=> Recording(g)
    BY <2>1, <2>3 DEF At, Recording
  <2>6. ForkedChild' /\ NotYetRecorded'
    BY <2>1, <2>3, <2>4, <2>5 DEF At, kernel, RInv, ForkedChild, NotYetRecorded, Recording
  <2>7. JobHasRunner'
    BY <1>0, <2>1, <2>3, <2>4 DEF At, kernel, RInv, JobHasRunner, InExecute, Executing
  <2>8. RunnerHasJob'
    BY <1>0, <2>1, <2>3, <2>4, <2>5 DEF At, kernel, RInv, RunnerHasJob, Recording, Active,
       Started
  <2> QED BY <2>6, <2>7, <2>8 DEF RInv
<1>3. CASE Fork(f)
  <2>1. /\ At(f, "fork") /\ Goto(f, "record", i, cnt[f])
        /\ UNCHANGED <<table, grouped, event, sigchld>>
    BY <1>3 DEF Fork
  <2>2. PICK p \in Pids :
          /\ proc[p] = "none" /\ proc' = [proc EXCEPT ![p] = "running"]
          /\ owner' = [owner EXCEPT ![p] = i]
          /\ child' = [child EXCEPT ![f] = p]
    BY <1>3 DEF Fork, FreshPids
  <2>3. "record" \in Locs  BY DEF MainLocs, Launching
  <2>4. /\ pc'[f] = "record" /\ idx'[f] = i
        /\ \A g \in Frames \ {f} : pc'[g] = pc[g] /\ idx'[g] = idx[g]
    BY <2>1, <2>3, <1>0, GotoType
  <2>5. \A g \in Frames \ {f} : ~Recording(g)
    BY <2>1, OnlyFrame DEF Launching
  <2>6. task[i] /\ status[i] \in Active /\ pgid[i] = NoPid
    BY <2>1 DEF At, StatusRead, ExecutesLiveTask, Executing, RInv, NotYetRecorded,
       Active, Started
  <2>7. ForkedChild' /\ NotYetRecorded'
    BY <1>0, <2>1, <2>2, <2>4, <2>5, <2>6 DEF At, table, RInv, ForkedChild,
       NotYetRecorded, Recording
  <2>8. JobHasRunner'
    BY <1>0, <2>1, <2>2, <2>4, <2>6 DEF At, table, RInv, JobHasRunner, InExecute, Executing
  <2>9. RunnerHasJob'
    BY <1>0, <2>1, <2>2, <2>4, <2>5, <2>6 DEF At, table, RInv, RunnerHasJob, Recording
  <2> QED BY <2>7, <2>8, <2>9 DEF RInv
<1>4. CASE RecordPgid(f)
  <2> DEFINE p == child[f]
  <2>1. /\ At(f, "record") /\ Scan(f, i + 1, cnt[f] + 1)
        /\ pgid' = [pgid EXCEPT ![i] = p]
        /\ child' = [child EXCEPT ![f] = NoPid]
        /\ UNCHANGED <<task, status, canceled, enable, kernel>>
    BY <1>4 DEF RecordPgid
  <2>2. /\ pc'[f] \in {"scan", Home(f)}
        /\ \A g \in Frames \ {f} : pc'[g] = pc[g] /\ idx'[g] = idx[g]
    BY <2>1, <1>0, ScanType
  <2>3. \A g \in Frames \ {f} : ~Executing(g) /\ ~Recording(g)
    BY <2>1, OnlyFrame DEF Launching
  <2>4. p \in Pids /\ proc[p] # "none" /\ owner[p] = i /\ p # NoPid
    BY <2>1 DEF At, RInv, ForkedChild, Recording
  <2>5. \A g \in Frames : ~Executing(g)' /\ ~Recording(g)'
    BY <2>2, <2>3 DEF Executing, Recording, Home
  <2>6. ForkedChild' /\ NotYetRecorded'
    BY <2>1, <2>3, <2>5 DEF RInv, ForkedChild, NotYetRecorded, Executing, Recording
  <2>7. JobHasRunner'
    <3>1. \A j \in Jobs \ {i} : ~InExecute(j)
      BY <2>3 DEF InExecute
    <3> QED BY <1>0, <2>1, <2>4, <3>1 DEF kernel, RInv, JobHasRunner
  <2>8. RunnerHasJob'
    BY <1>0, <2>1, <2>3, <2>4 DEF At, kernel, RInv, RunnerHasJob, NotYetRecorded
  <2> QED BY <2>6, <2>7, <2>8 DEF RInv
<1> QED BY <1>1, <1>2, <1>3, <1>4, ForkIsPossible DEF ExecuteStep

\* No frame is in execute_job while a command, or the polling of jobs, goes on.
LEMMA NobodyExecutes ==
  ASSUME MInv, pc["main"] \notin Launching, pc["handler"] \notin Launching
  PROVE  \A f \in Frames : ~Executing(f) /\ ~Recording(f)
BY DEF Frames, Executing, Recording, Launching

\* Main's commands and jobs_fini up to the end of its first loop: runners may be
\* killed, but none goes before it has been waited for.
LEMMA CommandRInv ==
  ASSUME MInv, RInv, Command \/ JobCreated \/ JobCanceled
  PROVE  RInv'
<1>0. /\ TypeOK /\ "main" \in Frames /\ Frames = {"main", "handler"} /\ idx["main"] \in Jobs
      /\ pc["handler"] = "idle" /\ pc["main"] \in {"prompt", "create", "cancel"}
  BY DEF AtPrompt, MInv, IInv, TypeOK, Frames, At, Command, SetEnabled, JobCreate,
     JobExpunge, JobCancel, JobPause, JobResume, Quit, JobCreated, JobCanceled
<1>1. \A f \in Frames : ~Executing(f) /\ ~Recording(f)
  BY <1>0, NobodyExecutes DEF Launching
<1>2. {"create", "cancel", "fini_cancel"} \subseteq MainLocs
  BY DEF MainLocs, Finishing
<1>3. ASSUME NEW loc \in {"scan", "prompt", "create", "cancel", "fini_cancel"},
             pc'["main"] = loc, pc'["handler"] = pc["handler"],
             UNCHANGED <<task, pgid, child, owner>>,
             \A p \in Pids : proc'[p] # "none" <=> proc[p] # "none",
             \A j \in Jobs : task[j] => (status'[j] \in Active <=> status[j] \in Active)
      PROVE  RInv'
  <2>1. QuietStep  BY <1>0, <1>1, <1>3 DEF QuietStep
  <2> QED BY <2>1, QuietRInv
<1>4. ASSUME NEW val \in BOOLEAN, SetEnabled(val)  PROVE RInv'
  BY <1>0, <1>3, <1>4, MainScans DEF SetEnabled, kernel, MInv
<1>5. ASSUME NEW ok \in BOOLEAN, JobCreate(ok)  PROVE RInv'
  <2>1. PICK j \in Jobs :
          /\ ~task[j]
          /\ task' = [task EXCEPT ![j] = ok]
          /\ status' = [status EXCEPT ![j] = "NEW"]
          /\ pgid' = [pgid EXCEPT ![j] = NoPid]
          /\ Goto("main", "create", j, 0)
    BY <1>5 DEF JobCreate, AlterStatus
  <2>2. /\ pc'["main"] = "create" /\ pc'["handler"] = "idle"
        /\ UNCHANGED <<child, kernel>>
    BY <1>0, <1>2, <1>5, <2>1, MainTo DEF JobCreate, MInv
  <2>3. \A f \in Frames : ~Executing(f)' /\ ~Recording(f)' /\ pc'[f] # "fork"
    BY <1>0, <2>2 DEF Executing, Recording
  <2>4. ForkedChild' /\ NotYetRecorded'
    BY <1>1, <2>2, <2>3 DEF RInv, ForkedChild, NotYetRecorded, Recording
  <2>5. JobHasRunner'
    BY <1>0, <1>1, <2>1, <2>2 DEF TypeOK, kernel, RInv, JobHasRunner, InExecute, Active,
       Started
  <2>6. RunnerHasJob'
    BY <1>0, <1>1, <2>1, <2>2 DEF TypeOK, kernel, RInv, RunnerHasJob
  <2> QED BY <2>4, <2>5, <2>6 DEF RInv
<1>6. ASSUME NEW j \in Jobs, JobExpunge(j)  PROVE RInv'
  <2>1. /\ task' = [task EXCEPT ![j] = FALSE] /\ status[j] \in Terminal
        /\ UNCHANGED <<status, pgid, frames, kernel>>
    BY <1>6 DEF JobExpunge, Expungeable
  <2>2. ForkedChild' /\ NotYetRecorded' /\ JobHasRunner'
    BY <1>0, <2>1 DEF TypeOK, frames, kernel, RInv, ForkedChild, NotYetRecorded,
       JobHasRunner, InExecute, Executing, Recording
  <2>3. RunnerHasJob'
    BY <1>0, <2>1 DEF TypeOK, frames, kernel, RInv, RunnerHasJob, Recording, Terminal,
       Active, Started
  <2> QED BY <2>2, <2>3 DEF RInv
<1>7. ASSUME NEW j \in Jobs, JobCancel(j)  PROVE RInv'
  <2>1. pc'["main"] = "cancel" /\ pc'["handler"] = pc["handler"]
    BY <1>0, <1>2, <1>7, MainTo DEF JobCancel, MInv
  <2> QED
    BY <1>0, <1>3, <1>7, <2>1 DEF JobCancel, SigKill, table, kernel, TypeOK
<1>8. ASSUME NEW j \in Jobs, JobPause(j) \/ JobResume(j)  PROVE RInv'
  <2>1. pc' = pc /\ pc["main"] = "prompt"
    BY <1>8 DEF JobPause, JobResume, frames, AtPrompt, At
  <2> QED
    BY <1>0, <1>3, <1>8, <2>1
       DEF JobPause, JobResume, GroupExists, Signal, table, frames, kernel, TypeOK
<1>9. ASSUME Quit  PROVE RInv'
  <2>1. pc'["main"] = "fini_cancel" /\ pc'["handler"] = pc["handler"]
    BY <1>0, <1>2, <1>9, MainTo, JobsFacts DEF Quit, MInv
  <2> QED
    BY <1>0, <1>3, <1>9, <2>1 DEF Quit, table
<1>10. ASSUME JobCreated  PROVE RInv'
  <2>1. /\ pc'["main"] \in {"scan", "prompt"} /\ pc'["handler"] = pc["handler"]
        /\ status[idx["main"]] = "NEW" /\ status' = [status EXCEPT ![idx["main"]] = "WAITING"]
        /\ UNCHANGED <<task, pgid, child, kernel>>
    BY <1>0, <1>10, MainScans DEF JobCreated, AlterStatus, At, MInv, StatusRead, TypeOK
  <2> QED
    BY <1>0, <1>3, <2>1 DEF kernel, TypeOK, Active, Started
<1>11. ASSUME JobCanceled  PROVE RInv'
  <2>1. /\ pc'["main"] = "prompt" /\ pc'["handler"] = pc["handler"]
        /\ status[idx["main"]] \in Started
        /\ status' = [status EXCEPT ![idx["main"]] = "CANCELED"]
        /\ UNCHANGED <<task, pgid, child, kernel>>
    <3>1. "prompt" \in MainLocs  BY DEF MainLocs
    <3> QED
      BY <1>0, <1>11, <3>1, JobsFacts, MainTo DEF JobCanceled, MarkCanceled, AlterStatus,
         Return, Home, At, MInv, StatusRead, Started
  <2> QED
    BY <1>0, <1>3, <2>1 DEF kernel, TypeOK, Active, Started
<1> QED BY <1>4, <1>5, <1>6, <1>7, <1>8, <1>9, <1>10, <1>11 DEF Command

\* A process that is waited for ends with its job, or goes on with it.
LEMMA CollectRInv ==
  ASSUME MInv, RInv, NEW j \in Jobs, task[j], status[j] \in Active,
         NEW p \in Reportable(pgid[j]), AlterStatus(j, StatusFor(p)), Collect(p),
         UNCHANGED <<task, pgid, child>>,
         \A f \in Frames : ~Executing(f) /\ ~Recording(f),
         \A f \in Frames : ~Executing(f)' /\ ~Recording(f)'
  PROVE  RInv'
<1> USE DEF MInv, IInv, TypeOK
<1>1. pgid[j] # NoPid /\ owner[pgid[j]] = j
  BY DEF RInv, JobHasRunner, InExecute
<1>2. p = pgid[j] /\ p \in Pids /\ proc[p] # "none"
  BY <1>1 DEF Reportable, Ended, Asked
<1>3. /\ \A q \in Pids \ {p} : proc'[q] = proc[q] /\ owner'[q] = owner[q]
      /\ IF proc[p] \in Zombie THEN proc'[p] = "none" ELSE UNCHANGED <<proc, owner>>
  BY <1>2 DEF Collect
<1>4. IF proc[p] \in Zombie THEN status'[j] \in Terminal ELSE status'[j] \in Active
  BY DEF AlterStatus, StatusFor, Zombie, Terminal, Active, Started
<1>5. ForkedChild' /\ NotYetRecorded'
  BY DEF RInv, ForkedChild, NotYetRecorded, Executing, Recording
<1>6. JobHasRunner'
  <2> SUFFICES ASSUME NEW k \in Jobs, task[k], status'[k] \in Active
               PROVE  pgid[k] # NoPid /\ proc'[pgid[k]] # "none" /\ owner'[pgid[k]] = k
    BY DEF JobHasRunner
  <2>1. CASE k = j
    <3>1. proc[p] \notin Zombie
      BY <1>4, <2>1 DEF Terminal, Active, Started
    <3> QED BY <1>1, <1>2, <1>3, <2>1, <3>1
  <2>2. CASE k # j
    <3>1. status[k] \in Active
      BY <2>2 DEF AlterStatus
    <3>2. pgid[k] # NoPid /\ proc[pgid[k]] # "none" /\ owner[pgid[k]] = k
      BY <3>1 DEF RInv, JobHasRunner, InExecute
    <3> QED BY <1>1, <1>2, <1>3, <2>2, <3>2
  <2> QED BY <2>1, <2>2
<1>7. RunnerHasJob'
  <2> SUFFICES ASSUME NEW q \in Pids, proc'[q] # "none"
               PROVE  /\ task[owner'[q]] /\ status'[owner'[q]] \in Active
                      /\ pgid[owner'[q]] = q
    BY DEF RunnerHasJob
  <2>1. owner'[q] = owner[q] /\ proc[q] # "none"
    BY <1>2, <1>3
  <2>2. task[owner[q]] /\ status[owner[q]] \in Active /\ pgid[owner[q]] = q
    BY <2>1 DEF RInv, RunnerHasJob
  <2>3. status'[owner[q]] \in Active
    BY <1>1, <1>2, <1>3, <1>4, <2>2 DEF AlterStatus
  <2> QED BY <2>1, <2>2, <2>3
<1> QED BY <1>5, <1>6, <1>7 DEF RInv

LEMMA FiniRInv ==
  ASSUME MInv, RInv, FiniCancel \/ FiniWait \/ FiniExpunge
  PROVE  RInv'
<1> DEFINE j == idx["main"]
<1>0. /\ TypeOK /\ j \in Jobs /\ Frames = {"main", "handler"}
      /\ pc["main"] \in Finishing /\ pc["handler"] = "idle"
  BY DEF MInv, IInv, TypeOK, Frames, FiniCancel, FiniWait, FiniExpunge, At, Finishing
<1>1. pc'["main"] \in Finishing /\ pc'["handler"] = "idle"
  <2>1. PICK loc \in Finishing, i \in Jobs : Goto("main", loc, i, 0)
    <3>1. j + 1 < MAX_JOBS => j + 1 \in Jobs  BY <1>0, JobsFacts
    <3> QED
      BY <1>0, <3>1, JobsFacts DEF FiniCancel, FiniWait, FiniExpunge, FiniNext, Finishing
  <2>2. loc \in MainLocs  BY DEF MainLocs
  <2> QED BY <1>0, <2>1, <2>2, MainTo DEF MInv
<1>2. /\ \A f \in Frames : ~Executing(f) /\ ~Recording(f)
      /\ \A f \in Frames : ~Executing(f)' /\ ~Recording(f)' /\ pc'[f] # "fork"
  BY <1>0, <1>1 DEF Finishing, Executing, Recording
<1>3. CASE FiniCancel
  <2>1. /\ UNCHANGED <<task, pgid, child, owner>>
        /\ \A p \in Pids : proc'[p] # "none" <=> proc[p] # "none"
    BY <1>0, <1>3 DEF FiniCancel, SigKill, kernel, TypeOK
  <2>2. \A k \in Jobs : task[k] => (status'[k] \in Active <=> status[k] \in Active)
    <3>1. CASE Cancelable(j) /\ MarkCanceled(j)
      <4>1. status[j] \in Started
        BY <1>0, <3>1, CancelableIsStarted
      <4> QED BY <1>0, <3>1, <4>1 DEF MarkCanceled, AlterStatus, TypeOK, Active, Started
    <3> QED BY <1>3, <3>1 DEF FiniCancel
  <2>3. QuietStep
    BY <1>1, <1>2, <2>1, <2>2 DEF QuietStep, Executing, Recording
  <2> QED BY <2>3, QuietRInv
<1>4. CASE FiniWait
  <2>1. task[j] /\ status[j] \in Active /\ UNCHANGED <<task, pgid, child>>
    BY <1>4 DEF FiniWait
  <2>2. pgid[j] \in Pids /\ proc[pgid[j]] # "none"
    BY <1>0, <1>2, <2>1 DEF RInv, JobHasRunner, InExecute, TypeOK
  <2>3. Asked(pgid[j]) # {}
    BY <2>2 DEF Asked
  <2>4. PICK p \in Ended(pgid[j]) : AlterStatus(j, StatusFor(p)) /\ Collect(p)
    BY <1>4, <2>3 DEF FiniWait
  <2>5. p \in Reportable(pgid[j])
    BY DEF Reportable
  <2> QED BY <1>0, <1>2, <2>1, <2>4, <2>5, CollectRInv
<1>5. CASE FiniExpunge
  <2>1. /\ task' = [task EXCEPT ![j] = task[j] /\ ~Expungeable(j)]
        /\ UNCHANGED <<status, pgid, child, kernel>>
    BY <1>5 DEF FiniExpunge
  <2>2. ForkedChild' /\ NotYetRecorded'
    BY <1>2, <2>1 DEF RInv, ForkedChild, NotYetRecorded, Executing, Recording
  <2>3. JobHasRunner'
    BY <1>0, <1>2, <2>1 DEF TypeOK, kernel, RInv, JobHasRunner, InExecute
  <2>4. RunnerHasJob'
    BY <1>0, <1>2, <2>1 DEF TypeOK, kernel, RInv, RunnerHasJob, Expungeable, Terminal,
       Active, Started
  <2> QED BY <2>2, <2>3, <2>4 DEF RInv
<1> QED BY <1>3, <1>4, <1>5

LEMMA CheckAJobRInv ==
  ASSUME MInv, RInv, CheckAJob
  PROVE  RInv'
<1> DEFINE j == idx["handler"]
<1>1. /\ pc["main"] = "prompt" /\ pc'["main"] = "prompt"
      /\ pc["handler"] = "check" /\ pc'["handler"] \in {"check", "idle", "scan"}
      /\ UNCHANGED <<task, pgid, child>> /\ j \in Jobs /\ Frames = {"main", "handler"}
  BY CheckAJobFrames DEF CheckAJob, At, Frames
<1>2. /\ \A f \in Frames : ~Executing(f) /\ ~Recording(f)
      /\ \A f \in Frames : ~Executing(f)' /\ ~Recording(f)' /\ pc'[f] # "fork"
  BY <1>1 DEF Executing, Recording
<1>3. CASE /\ task[j] /\ status[j] \in Active
           /\ \E p \in Reportable(pgid[j]) : AlterStatus(j, StatusFor(p)) /\ Collect(p)
  BY <1>1, <1>2, <1>3, CollectRInv
<1>4. CASE UNCHANGED <<status, kernel>>
  <2>1. QuietStep
    BY <1>1, <1>2, <1>4 DEF kernel, QuietStep, Recording
  <2> QED BY <2>1, QuietRInv
<1> QED BY <1>3, <1>4 DEF CheckAJob, Poll

LEMMA RunnerRInv ==
  ASSUME MInv, RInv, NEW p \in Pids, RunnerStep(p)
  PROVE  RInv'
<1>1. QuietStep
  BY DEF QuietStep, MInv, IInv, TypeOK, RunnerStep, RunnerGroups, RunnerExits,
     RunnerKilled, RunnerStops, RunnerDies, Become, table, frames
<1> QED BY <1>1, QuietRInv

LEMMA NextRInv == ForksSucceed /\ MInv /\ RInv /\ [MaskedNext]_vars => RInv'
<1> SUFFICES ASSUME ForksSucceed, MInv, RInv, [MaskedNext]_vars PROVE RInv'
  OBVIOUS
<1>1. "main" \in Frames /\ "handler" \in Frames  BY DEF Frames
<1>2. CASE Deliver
  <2>1. /\ pc'["handler"] = "check" /\ pc["handler"] = "idle"
        /\ pc'["main"] = pc["main"] /\ idx'["main"] = idx["main"]
        /\ UNCHANGED <<table, child, proc, grouped, event, owner>>
    BY <1>1, <1>2 DEF Deliver, Goto, MInv, IInv, TypeOK
  <2>2. QuietStep
    BY <2>1 DEF table, QuietStep, Frames, Executing
  <2> QED BY <2>2, QuietRInv
<1>3. CASE Command                        BY <1>3, CommandRInv
<1>4. CASE MainStep
  BY <1>1, <1>4, ExecuteRInv, CommandRInv, FiniRInv DEF MainStep
<1>5. CASE HandlerStep
  BY <1>1, <1>5, CheckAJobRInv, ExecuteRInv DEF HandlerStep
<1>6. CASE \E p \in Pids : RunnerStep(p)  BY <1>6, RunnerRInv
<1>7. CASE Exited \/ UNCHANGED vars
  <2>1. QuietStep  BY <1>7 DEF QuietStep, Exited, vars, table, frames, kernel
  <2> QED BY <2>1, QuietRInv
<1> QED BY <1>2, <1>3, <1>4, <1>5, <1>6, <1>7 DEF MaskedNext, OtherStep

\* If SIGCHLD comes at the prompt only and forks succeed, neither of which the code
\* sees to, active jobs and runner processes are one to one: none is leaked, shared
\* or waited for in the name of another job.
LEMMA OneRunnerPerActiveJobHolds ==
  ASSUME ForksSucceed
  PROVE  MaskedSpec => []OneRunnerPerActiveJob
<1>1. MInv /\ RInv => OneRunnerPerActiveJob
  BY DEF RInv, JobHasRunner, RunnerHasJob, OneRunnerPerActiveJob, InExecute, Executing,
     Recording
<1>2. MInv /\ RInv /\ [MaskedNext]_vars => RInv'
  BY NextRInv
<1> QED BY <1>1, <1>2, InitRInv, MaskedSpecMInv, PTL DEF MaskedSpec

-----------------------------------------------------------------------------
(* At rest the table tells what the runners do: what it does not tell is   *)
(* announced by a pending SIGCHLD, or is of a job the handler has yet to   *)
(* poll, or of the job that is being canceled.                             *)

\* An event that was not reported is the last thing that happened.
EventTells ==
  \A p \in Pids : /\ event[p] = "stopped" => proc[p] = "stopped"
                  /\ event[p] = "continued" => proc[p] = "running"

Unreported(p) == proc[p] \in Zombie \/ event[p] # "none"
Announced(p) == sigchld \/ (pc["handler"] = "check" /\ idx["handler"] <= owner[p])
Shown(s) == CASE s = "RUNNING"  -> "running"
              [] s = "PAUSED"   -> "stopped"
              [] s = "CANCELED" -> "dying"
Canceling(j) == pc["main"] = "cancel" /\ idx["main"] = j

Told(p) ==
  proc[p] # "none" =>
    IF Unreported(p) THEN Announced(p)
    ELSE proc[p] = Shown(status[owner[p]]) \/ Canceling(owner[p])

TInv == EventTells /\ (pc["main"] \notin Finishing => \A p \in Pids : Told(p))

LEMMA InitTInv == Init => TInv
BY DEF Init, TInv, EventTells, Told

\* A step in which no process changes, no job with a process changes its status, and
\* no announcement is taken back.
LEMMA SameTInv ==
  ASSUME TInv, UNCHANGED <<proc, event, owner, sigchld>>,
         \A p \in Pids : proc[p] # "none" => status'[owner[p]] = status[owner[p]],
         pc["handler"] = "check" => pc'["handler"] = "check" /\ idx'["handler"] = idx["handler"],
         pc["main"] = "cancel" => pc'["main"] = "cancel" /\ idx'["main"] = idx["main"],
         pc'["main"] \notin Finishing => pc["main"] \notin Finishing
  PROVE  TInv'
BY DEF TInv, EventTells, Told, Unreported, Announced, Canceling

LEMMA ExecuteTInv ==
  ASSUME MInv, RInv, TInv, ForksSucceed, NEW f \in Frames, ExecuteStep(f)
  PROVE  TInv'
<1> USE DEF MInv, IInv, TypeOK
<1>1. /\ \A g \in Frames \ {f} : pc'[g] = pc[g] /\ idx'[g] = idx[g]
      /\ pc[f] \notin {"check", "cancel"} \cup Finishing
      /\ pc'[f] \notin Finishing
  BY DEF ExecuteStep, ScanJob, StartJob, Fork, ForkFails, RecordPgid, At, Scan, Return,
     Goto, Home, Frames, Finishing
<1>2. Frames = {"main", "handler"}  BY DEF Frames
<1>3. CASE ScanJob(f) \/ RecordPgid(f)
  <2>1. UNCHANGED <<proc, event, owner, sigchld, status>>
    BY <1>3 DEF ScanJob, RecordPgid, table, kernel
  <2> QED BY <1>1, <1>2, <2>1, SameTInv
<1>4. CASE StartJob(f)
  <2>1. status[idx[f]] = "WAITING" /\ idx[f] \in Jobs
    BY <1>4 DEF StartJob, At, StatusRead
  <2>2. \A p \in Pids : proc[p] # "none" => owner[p] # idx[f]
    BY <2>1 DEF RInv, RunnerHasJob, Active, Started
  <2>3. /\ UNCHANGED <<proc, event, owner, sigchld>>
        /\ \A p \in Pids : proc[p] # "none" => status'[owner[p]] = status[owner[p]]
    BY <1>4, <2>1, <2>2 DEF StartJob, AlterStatus, kernel
  <2> QED BY <1>1, <1>2, <2>3, SameTInv
<1>5. CASE Fork(f)
  <2>1. PICK p \in Pids :
          /\ proc[p] = "none" /\ proc' = [proc EXCEPT ![p] = "running"]
          /\ owner' = [owner EXCEPT ![p] = idx[f]]
          /\ UNCHANGED <<status, event, sigchld>>
    BY <1>5 DEF Fork, FreshPids, table
  <2>2. event[p] = "none" /\ status[idx[f]] = "RUNNING"
    BY <1>5, <2>1 DEF TInv, EventTells, Fork, At, StatusRead
  <2>3. EventTells'
    BY <2>1, <2>2 DEF TInv, EventTells
  <2>4. ASSUME pc'["main"] \notin Finishing PROVE \A q \in Pids : Told(q)'
    <3>1. ASSUME NEW q \in Pids \ {p} PROVE Told(q)'
      <4>1. Told(q)
        BY <1>1, <1>2, <2>4 DEF TInv
      <4> QED
        BY <1>1, <1>2, <2>1, <4>1 DEF Told, Unreported, Announced, Canceling
    <3>2. Told(p)'
      BY <2>1, <2>2 DEF Told, Unreported, Shown, Zombie
    <3> QED BY <3>1, <3>2
  <2> QED BY <2>3, <2>4 DEF TInv
<1> QED BY <1>3, <1>4, <1>5, ForkIsPossible DEF ExecuteStep

\* A process that changes is announced.
LEMMA ChangeTInv ==
  ASSUME MInv, TInv, NEW g \in Pids, NEW s, NEW ev,
         proc' = [proc EXCEPT ![g] = s], event' = [event EXCEPT ![g] = ev],
         s \in Zombie \/ ev # "none",
         ev = "stopped" => s = "stopped", ev = "continued" => s = "running",
         ev \in {"none", "stopped", "continued"},
         UNCHANGED <<table, frames, owner>>,
         pc["main"] \notin Finishing => sigchld'
  PROVE  TInv'
<1> USE DEF MInv, IInv, TypeOK
<1>1. EventTells'
  BY DEF TInv, EventTells
<1>2. ASSUME NEW p \in Pids, pc["main"] \notin Finishing PROVE Told(p)'
  <2>1. Announced(p)'
    BY <1>2 DEF Announced
  <2>2. CASE p = g
    BY <2>1, <2>2 DEF Told, Unreported
  <2>3. CASE p # g
    BY <1>2, <2>1, <2>3 DEF TInv, Told, Unreported, Canceling, table, frames
  <2> QED BY <2>2, <2>3
<1> QED BY <1>1, <1>2 DEF TInv, frames

LEMMA CommandTInv ==
  ASSUME MInv, RInv, TInv, Command \/ JobCreated \/ JobCanceled
  PROVE  TInv'
<1>0. /\ TypeOK /\ "main" \in Frames /\ Frames = {"main", "handler"} /\ idx["main"] \in Jobs
      /\ pc["handler"] = "idle" /\ pc["main"] \in {"prompt", "create", "cancel"}
      /\ IInv
  BY DEF AtPrompt, MInv, IInv, TypeOK, Frames, At, Command, SetEnabled, JobCreate,
     JobExpunge, JobCancel, JobPause, JobResume, Quit, JobCreated, JobCanceled
<1>1. \A f \in Frames : ~Executing(f) /\ ~Recording(f)
  BY <1>0, NobodyExecutes DEF Launching
<1>2. {"create", "cancel", "fini_cancel", "prompt"} \subseteq MainLocs
  BY DEF MainLocs, Finishing
<1>3. pc["main"] \notin Finishing /\ \A p \in Pids : Told(p)
  BY <1>0 DEF Finishing, TInv
<1>4. \A p \in Pids : proc[p] # "none" =>
         pgid[owner[p]] = p /\ task[owner[p]] /\ status[owner[p]] \in Active
  BY <1>1 DEF RInv, RunnerHasJob
<1>5. ASSUME pc["main"] # "cancel", UNCHANGED <<proc, event, owner, sigchld>>,
             \A j \in Jobs : task[j] /\ status[j] \in Active => status'[j] = status[j],
             pc'["handler"] = pc["handler"]
      PROVE  TInv'
  <2>1. \A p \in Pids : proc[p] # "none" => status'[owner[p]] = status[owner[p]]
    BY <1>0, <1>4, <1>5 DEF TypeOK
  <2> QED BY <1>0, <1>3, <1>5, <2>1, SameTInv
<1>6. ASSUME NEW val \in BOOLEAN, SetEnabled(val)  PROVE TInv'
  BY <1>0, <1>5, <1>6, MainScans DEF SetEnabled, AtPrompt, At, kernel
<1>7. ASSUME NEW ok \in BOOLEAN, JobCreate(ok)  PROVE TInv'
  <2>1. PICK j \in Jobs : /\ ~task[j] /\ status' = [status EXCEPT ![j] = "NEW"]
                          /\ Goto("main", "create", j, 0)
    BY <1>7 DEF JobCreate, AlterStatus
  <2> QED
    BY <1>0, <1>2, <1>5, <1>7, <2>1, MainTo DEF JobCreate, AtPrompt, At, kernel
<1>8. ASSUME NEW j \in Jobs, JobExpunge(j)  PROVE TInv'
  BY <1>0, <1>5, <1>8 DEF JobExpunge, AtPrompt, At, frames, kernel
<1>9. ASSUME NEW j \in Jobs, JobCancel(j)  PROVE TInv'
  <2> DEFINE g == pgid[j]
  <2>1. /\ pc["main"] = "prompt" /\ Cancelable(j) /\ SigKill(g)
        /\ pc'["main"] = "cancel" /\ idx'["main"] = j /\ pc'["handler"] = "idle"
        /\ UNCHANGED <<task, status, pgid>>
    BY <1>0, <1>2, <1>9, MainTo DEF JobCancel, AtPrompt, At, table
  <2>2. /\ task[j] /\ status[j] \in Started /\ g \in Pids /\ owner[g] = j
    BY <1>1, <2>1, CancelableIsStarted DEF RInv, JobHasRunner, InExecute, Active
  <2>3. CASE proc[g] \in {"running", "stopped"}
    <3>1. /\ proc' = [proc EXCEPT ![g] = "dying"] /\ event' = [event EXCEPT ![g] = "none"]
          /\ UNCHANGED <<owner, sigchld>>
      BY <2>1, <2>3 DEF SigKill
    <3>2. EventTells'
      BY <1>0, <3>1 DEF TypeOK, TInv, EventTells
    <3>3. ASSUME NEW p \in Pids PROVE Told(p)'
      <4>1. CASE p = g
        BY <1>0, <2>1, <2>2, <3>1, <4>1 DEF TypeOK, Told, Unreported, Canceling, Zombie
      <4>2. CASE p # g
        BY <1>0, <1>3, <2>1, <3>1, <4>2
           DEF TypeOK, Told, Unreported, Announced, Canceling
      <4> QED BY <4>1, <4>2
    <3> QED BY <3>2, <3>3 DEF TInv
  <2>4. CASE UNCHANGED kernel
    BY <1>0, <1>5, <2>1, <2>4 DEF kernel
  <2> QED BY <2>1, <2>3, <2>4 DEF SigKill
<1>10. ASSUME NEW j \in Jobs, JobPause(j) \/ JobResume(j)  PROVE TInv'
  <2>1. /\ pc["main"] = "prompt" /\ pgid[j] \in Pids /\ UNCHANGED <<table, frames>>
        /\ \/ Signal(pgid[j], "running", "stopped", "stopped")
           \/ Signal(pgid[j], "stopped", "running", "continued")
    BY <1>10 DEF JobPause, JobResume, GroupExists, AtPrompt, At
  <2>2. CASE UNCHANGED kernel
    BY <1>5, <2>1, <2>2 DEF kernel, table, frames
  <2> QED BY <2>1, <2>2, ChangeTInv DEF Signal
<1>11. ASSUME Quit  PROVE TInv'
  <2>1. pc'["main"] = "fini_cancel" /\ UNCHANGED <<proc, event>>
    BY <1>0, <1>2, <1>11, MainTo, JobsFacts DEF Quit
  <2> QED BY <2>1 DEF TInv, EventTells, Finishing
<1>12. ASSUME JobCreated  PROVE TInv'
  <2>1. /\ pc["main"] = "create" /\ pc'["handler"] = pc["handler"]
        /\ status[idx["main"]] = "NEW" /\ status' = [status EXCEPT ![idx["main"]] = "WAITING"]
        /\ UNCHANGED kernel
    BY <1>0, <1>12, MainScans DEF JobCreated, AlterStatus, At, MInv, StatusRead, TypeOK
  <2> QED
    BY <1>0, <1>5, <2>1 DEF kernel, TypeOK, Active, Started
<1>13. ASSUME JobCanceled  PROVE TInv'
  <2> DEFINE j == idx["main"]
  <2>1. /\ pc["main"] = "cancel" /\ task[j] /\ status[j] \in Started
        /\ pc'["main"] = "prompt" /\ pc'["handler"] = "idle"
        /\ status' = [status EXCEPT ![j] = "CANCELED"]
        /\ UNCHANGED kernel
    BY <1>0, <1>2, <1>13, JobsFacts, MainTo DEF JobCanceled, MarkCanceled, AlterStatus,
       Return, Home, At, MInv, StatusRead, Started
  <2>2. proc[pgid[j]] \notin {"running", "stopped"}
    BY <1>0, <2>1 DEF MInv, CondemnedDies, Condemned
  <2>3. ASSUME NEW p \in Pids PROVE Told(p)'
    <3>1. Told(p) /\ owner[p] \in Jobs /\ proc[p] \in ProcStates
      BY <1>0, <1>3 DEF TypeOK
    <3>2. CASE owner[p] = j
      <4>1. proc[p] # "none" => proc[p] \in {"dying"} \cup Zombie
        BY <1>4, <2>2, <3>1, <3>2 DEF ProcStates
      <4> QED
        BY <1>0, <2>1, <3>1, <3>2, <4>1
           DEF TypeOK, kernel, Told, Unreported, Announced, Shown
    <3>3. CASE owner[p] # j
      BY <1>0, <2>1, <3>1, <3>3
         DEF TypeOK, kernel, Told, Unreported, Announced, Canceling
    <3> QED BY <3>2, <3>3
  <2>4. EventTells'
    BY <2>1 DEF kernel, TInv, EventTells
  <2> QED BY <2>3, <2>4 DEF TInv
<1> QED BY <1>6, <1>7, <1>8, <1>9, <1>10, <1>11, <1>12, <1>13 DEF Command

\* Fini's steps only have to keep the events.
LEMMA FiniTInv ==
  ASSUME MInv, TInv, FiniCancel \/ FiniWait \/ FiniExpunge
  PROVE  TInv'
<1> USE DEF MInv, IInv, TypeOK
<1>1. pc'["main"] \in Finishing
  BY DEF FiniCancel, FiniWait, FiniExpunge, FiniNext, At, Goto, Finishing, Frames
<1>2. EventTells'
  <2>1. ASSUME NEW p \in Pids, Collect(p) PROVE EventTells'
    BY <2>1 DEF Collect, TInv, EventTells, Zombie
  <2>2. ASSUME NEW p \in Pids, SigKill(p) PROVE EventTells'
    BY <2>2 DEF SigKill, kernel, TInv, EventTells
  <2>3. CASE UNCHANGED kernel
    BY <2>3 DEF kernel, TInv, EventTells
  <2> QED
    BY <2>1, <2>2, <2>3 DEF FiniCancel, FiniWait, FiniExpunge, Cancelable, GroupExists,
       Ended, Asked
<1> QED BY <1>1, <1>2 DEF TInv

\* What the handler finds is told, and it goes on to the next job, or has polled all.
LEMMA CheckAJobTInv ==
  ASSUME MInv, RInv, TInv, CheckAJob
  PROVE  TInv'
<1> DEFINE j == idx["handler"]
<1> USE DEF MInv, IInv, TypeOK
<1>1. /\ pc["main"] = "prompt" /\ pc'["main"] = "prompt" /\ pc["handler"] = "check"
      /\ j \in Jobs /\ Frames = {"main", "handler"} /\ sigchld' = sigchld
  BY CheckAJobFrames DEF CheckAJob, At, Frames, Poll, Collect, kernel
<1>2. \A f \in Frames : ~Executing(f) /\ ~Recording(f)
  BY <1>1 DEF Executing, Recording
<1>3. \A p \in Pids : proc[p] # "none" =>
         pgid[owner[p]] = p /\ task[owner[p]] /\ status[owner[p]] \in Active
  BY <1>2 DEF RInv, RunnerHasJob
<1>4. \A p \in Pids : Told(p)
  BY <1>1 DEF TInv, Finishing
<1>5. \A k \in Jobs : j <= k /\ k # j => pc'["handler"] = "check" /\ idx'["handler"] <= k
  <2> SUFFICES ASSUME NEW k \in Jobs, j <= k, k # j
               PROVE  pc'["handler"] = "check" /\ idx'["handler"] <= k
    OBVIOUS
  <2>1. j + 1 <= k /\ j + 1 < MAX_JOBS
    BY <1>1 DEF Jobs
  <2>2. Goto("handler", "check", j + 1, 0)
    BY <2>1 DEF CheckAJob, CheckNext
  <2> QED BY <1>1, <2>1, <2>2 DEF Goto
<1>6. ASSUME NEW p \in Pids, owner[p] # j, proc'[p] = proc[p], event'[p] = event[p],
             owner'[p] = owner[p], status'[owner[p]] = status[owner[p]]
      PROVE  Told(p)'
  BY <1>1, <1>4, <1>5, <1>6 DEF Told, Unreported, Announced, Canceling
<1>7. CASE /\ task[j] /\ status[j] \in Active
           /\ \E p \in Reportable(pgid[j]) : AlterStatus(j, StatusFor(p)) /\ Collect(p)
  <2>1. PICK g \in Reportable(pgid[j]) : AlterStatus(j, StatusFor(g)) /\ Collect(g)
    BY <1>7
  <2>2. pgid[j] # NoPid /\ owner[pgid[j]] = j
    BY <1>1, <1>2, <1>7 DEF RInv, JobHasRunner, InExecute
  <2>3. g = pgid[j] /\ g \in Pids /\ Unreported(g)
    BY <2>1, <2>2 DEF Reportable, Ended, Asked, Unreported
  <2>4. EventTells'
    BY <2>1, <2>3 DEF Collect, TInv, EventTells, Zombie
  <2>5. Told(g)'
    <3>1. CASE proc[g] \in Zombie
      BY <2>1, <2>3, <3>1 DEF Collect, Told
    <3>2. CASE proc[g] \notin Zombie
      <4>1. event[g] \in {"stopped", "continued"}
        BY <2>3, <3>2 DEF Unreported
      <4>2. /\ proc' = proc /\ owner' = owner /\ event'[g] = "none"
            /\ status'[j] = StatusFor(g)
        BY <1>1, <2>1, <2>3, <3>2 DEF Collect, AlterStatus
      <4>3. proc[g] = Shown(StatusFor(g))
        BY <2>3, <3>2, <4>1 DEF TInv, EventTells, StatusFor, Shown, Zombie
      <4> QED BY <2>2, <2>3, <3>2, <4>2, <4>3 DEF Told, Unreported
    <3> QED BY <3>1, <3>2
  <2>6. ASSUME NEW p \in Pids \ {g} PROVE Told(p)'
    <3>1. proc'[p] = proc[p] /\ event'[p] = event[p] /\ owner'[p] = owner[p]
      BY <2>1, <2>3 DEF Collect
    <3>2. CASE proc[p] = "none"
      BY <3>1, <3>2 DEF Told
    <3>3. CASE proc[p] # "none"
      <4>1. owner[p] # j
        BY <1>3, <2>3, <3>3
      <4> QED BY <1>6, <2>1, <3>1, <4>1 DEF AlterStatus
    <3> QED BY <3>2, <3>3
  <2> QED BY <2>4, <2>5, <2>6 DEF TInv
<1>8. CASE /\ ~(task[j] /\ status[j] \in Active /\ Reportable(pgid[j]) # {})
           /\ UNCHANGED <<status, kernel>>
  <2>1. EventTells'
    BY <1>8 DEF kernel, TInv, EventTells
  <2>2. ASSUME NEW p \in Pids, proc[p] # "none", owner[p] = j PROVE Told(p)'
    <3>1. ~Unreported(p)
      BY <1>3, <1>8, <2>2 DEF Unreported, Reportable, Ended, Asked
    <3> QED
      BY <1>1, <1>4, <1>8, <2>2, <3>1 DEF kernel, Told, Unreported, Canceling
  <2>3. ASSUME NEW p \in Pids, proc[p] = "none" PROVE Told(p)'
    BY <1>8, <2>3 DEF kernel, Told
  <2>4. ASSUME NEW p \in Pids, owner[p] # j PROVE Told(p)'
    BY <1>6, <1>8, <2>4 DEF kernel
  <2> QED BY <2>1, <2>2, <2>3, <2>4 DEF TInv
<1> QED BY <1>7, <1>8 DEF CheckAJob, Poll

LEMMA RunnerTInv ==
  ASSUME MInv, TInv, NEW p \in Pids, RunnerStep(p)
  PROVE  TInv'
<1>1. CASE RunnerGroups(p)
  BY <1>1, SameTInv DEF RunnerGroups, table, frames
<1>2. CASE RunnerExits(p) \/ RunnerKilled(p) \/ RunnerDies(p)
  <2>1. PICK s \in Zombie : Become(p, s, "none")
    BY <1>2 DEF RunnerExits, RunnerKilled, RunnerDies, Zombie
  <2> QED BY <2>1, ChangeTInv DEF Become
<1>3. CASE RunnerStops(p)
  <2>1. Become(p, "stopped", "stopped")
    BY <1>3 DEF RunnerStops
  <2> QED BY <2>1, ChangeTInv DEF Become
<1> QED BY <1>1, <1>2, <1>3 DEF RunnerStep

LEMMA NextTInv == ForksSucceed /\ MInv /\ RInv /\ TInv /\ [MaskedNext]_vars => TInv'
<1> SUFFICES ASSUME ForksSucceed, MInv, RInv, TInv, [MaskedNext]_vars PROVE TInv'
  OBVIOUS
<1>1. "main" \in Frames /\ "handler" \in Frames  BY DEF Frames
<1>2. CASE Deliver
  <2>1. /\ pc'["handler"] = "check" /\ idx'["handler"] = 0
        /\ pc'["main"] = pc["main"] /\ idx'["main"] = idx["main"]
        /\ pc["handler"] = "idle" /\ pc["main"] \notin Finishing
        /\ UNCHANGED <<table, proc, event, owner>>
    BY <1>1, <1>2 DEF Deliver, Goto, MInv, IInv, TypeOK
  <2>2. \A p \in Pids : 0 <= owner[p]
    BY DEF MInv, IInv, TypeOK, Jobs
  <2> QED
    BY <2>1, <2>2 DEF table, TInv, EventTells, Told, Unreported, Announced, Canceling
<1>3. CASE Command                        BY <1>3, CommandTInv
<1>4. CASE MainStep
  BY <1>1, <1>4, ExecuteTInv, CommandTInv, FiniTInv DEF MainStep
<1>5. CASE HandlerStep
  BY <1>1, <1>5, CheckAJobTInv, ExecuteTInv DEF HandlerStep
<1>6. CASE \E p \in Pids : RunnerStep(p)  BY <1>6, RunnerTInv
<1>7. CASE Exited \/ UNCHANGED vars
  BY <1>7, SameTInv DEF Exited, vars, table, frames, kernel
<1> QED BY <1>2, <1>3, <1>4, <1>5, <1>6, <1>7 DEF MaskedNext, OtherStep

\* However stops, continuations and deaths are merged into one pending SIGCHLD: when
\* the spooler is at rest the table tells what each runner is doing.
THEOREM JobberTableTellsProcesses ==
  ASSUME ForksSucceed
  PROVE  MaskedSpec => []TableTellsProcesses
<1>1. MInv /\ RInv /\ TInv => TableTellsProcesses
  <2> SUFFICES ASSUME MInv, RInv, TInv, AtRest, NEW j \in ActiveJobs
               PROVE  proc[pgid[j]] = Shown(status[j])
    BY DEF TableTellsProcesses, Shown
  <2>1. /\ pc["main"] = "prompt" /\ pc["handler"] = "idle" /\ ~sigchld
        /\ j \in Jobs /\ task[j] /\ status[j] \in Active
    BY DEF AtRest, AtPrompt, At, ActiveJobs
  <2>2. ~InExecute(j)
    BY <2>1 DEF InExecute, Executing, Frames
  <2>3. pgid[j] \in Pids /\ proc[pgid[j]] # "none" /\ owner[pgid[j]] = j
    BY <2>1, <2>2 DEF RInv, JobHasRunner, MInv, IInv, TypeOK
  <2>4. Told(pgid[j])
    BY <2>1, <2>3 DEF TInv, Finishing
  <2> QED BY <2>1, <2>3, <2>4 DEF Told, Announced, Canceling
<1>2. MInv /\ RInv /\ TInv /\ [MaskedNext]_vars => RInv' /\ TInv'
  BY NextRInv, NextTInv
<1> QED BY <1>1, <1>2, InitRInv, InitTInv, MaskedSpecMInv, PTL DEF MaskedSpec

=============================================================================
