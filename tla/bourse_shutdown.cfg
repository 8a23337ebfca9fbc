\* One SIGHUP: the handler runs on the main thread, the others go on.
SPECIFICATION FairSpec
CONSTANTS
  c1 = c1
  c2 = c2
  c3 = c3
  m = m
  Conns <- ThreeConns
  Fds <- ThreeConns
  Main = m
  Callers <- ThreeCallers
  NoFd = NoFd
  BUF_SIZE = 2
  MaxHups = 1
INVARIANT RegisteredAreShutDown
PROPERTY ShutdownCompletes
