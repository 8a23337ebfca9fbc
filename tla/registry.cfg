\* Three callers, three descriptors, two slots: the table can be full.
SPECIFICATION RegistrySpec
CONSTANTS
  Callers = {x1, x2, x3}
  Fds = {f1, f2, f3}
  NoFd = NoFd
  BUF_SIZE = 2
SYMMETRY RegistrySymmetry
INVARIANTS CountIsOccupied HeldIsRegistered RegisteredOnce
PROPERTY SweepEmpties
\* creg_wait_for_empty may keep the semaphore, and a finalized registry is final
CHECK_DEADLOCK FALSE
