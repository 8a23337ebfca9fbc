\* Sessions of several lines; realloc may fail.
SPECIFICATION Spec
CONSTANTS
  Sessions <- ShortSessions
  BUFSIZE = 2
  Garbage <- AnyGarbage
  MayRefuse = TRUE
INVARIANTS LineIntact ParsesTasks RoundTrip
 
\* the program ends
CHECK_DEADLOCK FALSE
