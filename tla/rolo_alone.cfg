\* One user, called any way, who leaves any way and is interrupted anywhere.
SPECIFICATION Spec
CONSTANTS
  Sessions = {s1}
  Edits = {e1, e2, e3}
  Inodes = {1, 2, 3, 4, 5, 6}
  None = None
  Modes = {"edit", "nolock", "read"}
  Events = {"eof", "crash", "full", "denied", "unread", "nomenu"}
  Interrupts <- Places
SYMMETRY StoreSymmetry
INVARIANT LockIsHeld
CHECK_DEADLOCK FALSE
