\* Pipelines of up to three commands, up to three pipelines; the job may be killed.
CONSTANTS
  Tasks <- AllTasks
  Capacity = 1
  Failures = {"pipe", "fork"}
CHECK_DEADLOCK FALSE \* the runner ends
SPECIFICATION FairSpec
INVARIANTS Connected InTurn KilledWhole
PROPERTY RunnerEnds
