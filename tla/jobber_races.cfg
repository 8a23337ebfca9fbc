\* SIGCHLD strikes anywhere
SPECIFICATION Spec
CONSTANTS
  MAX_JOBS = 2
  MAX_RUNNERS = 1
  Pids = {p1, p2}
  NoPid = NoPid
  ForkMayFail = TRUE
SYMMETRY PidSymmetry
INVARIANTS TypeOK ExecutesLiveTask WorkConserving
PROPERTY NoStartWhenForbidden
