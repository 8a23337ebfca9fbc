\* As many runners as jobs, and a pid to spare.
SPECIFICATION FairMaskedSpec
CONSTANTS
  MAX_JOBS = 2
  MAX_RUNNERS = 2
  Pids = {p1, p2, p3}
  NoPid = NoPid
  ForkMayFail = FALSE
INVARIANTS OneRunnerPerActiveJob TableTellsProcesses
PROPERTIES FollowsLifecycle CancelTerminates ZombiesReaped
