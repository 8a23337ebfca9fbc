\* A user who deletes no entry that an outer scan shows.
CONSTANTS
  MaxLinks = 3
  Entries <- ThreeEntries
  Files <- SomeFiles
  MaxMatches = 2
  Depth = 2
  MaxEdits = 3
  Habits = {}
CHECK_DEADLOCK FALSE \* a session ends
SPECIFICATION Spec
INVARIANTS Sound Sorted ChangedTells
