---------------------------- MODULE JobLifecycle ----------------------------
(***************************************************************************)
(* What include/jobber.h (lines 22-47) promises of the life of a job: the  *)
(* states it goes through, from the slot of the table it is created in to  *)
(* its expunging, and what must be true for it to move.  Nothing is said   *)
(* of processes, signals, or the order of the code's steps.                *)
(***************************************************************************)
CONSTANTS Slots     \* the slots of the job table

VARIABLES
  life,     \* life[j]: the status of the job in slot j, "FREE" when it has none
  enabled   \* whether jobs may start

vars == <<life, enabled>>

Lives == {"FREE", "NEW", "WAITING", "RUNNING", "PAUSED",
          "CANCELED", "COMPLETED", "ABORTED"}

Move(j, from, to) ==
  /\ life[j] \in from
  /\ life' = [life EXCEPT ![j] = to]
  /\ UNCHANGED enabled

Create(j) == Move(j, {"FREE"}, "NEW")
Initialize(j) == Move(j, {"NEW"}, "WAITING")
Start(j) == enabled /\ Move(j, {"WAITING"}, "RUNNING")
Pause(j) == Move(j, {"RUNNING"}, "PAUSED")
Resume(j) == Move(j, {"PAUSED"}, "RUNNING")
Cancel(j) == Move(j, {"WAITING", "RUNNING", "PAUSED"}, "CANCELED")

\* a job ends once; only a job that has a runner ends
End(j) == \E s \in {"COMPLETED", "ABORTED"} :
            Move(j, {"RUNNING", "PAUSED", "CANCELED"}, s)

Expunge(j) == Move(j, {"COMPLETED", "ABORTED"}, "FREE")

SetEnabled == enabled' \in BOOLEAN /\ UNCHANGED life

Init == life = [j \in Slots |-> "FREE"] /\ enabled = FALSE

Next ==
  \/ SetEnabled
  \/ \E j \in Slots :
       \/ Create(j) \/ Initialize(j) \/ Start(j) \/ Pause(j) \/ Resume(j)
       \/ Cancel(j) \/ End(j) \/ Expunge(j)

Spec == Init /\ [][Next]_vars

=============================================================================
