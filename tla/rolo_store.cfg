\* Two sessions that lock, which may crash anywhere, and be interrupted anywhere but in
\* the writing of a save and behind their last unlink.
SPECIFICATION Spec
CONSTANTS
  Sessions = {s1, s2}
  Edits = {e1, e2}
  Inodes = {1, 2, 3, 4, 5, 6}
  None = None
  Modes = {"edit"}
  Events = {"crash", "unread", "nomenu"}
  Interrupts <- OutsideWriting
SYMMETRY StoreSymmetry
INVARIANTS OneOwner LockIsHeld UpToDate SavedUnlessLost
CHECK_DEADLOCK FALSE
