\* Two names, directories in directories; what is there before may be in the way.
CONSTANTS
  a = a
  b = b
  Dir = Dir
  Names <- TwoNames
  NoName = NoName
  Sources <- SmallTrees
  Targets <- FewTargets
CHECK_DEADLOCK FALSE \* both programs end
SPECIFICATION Spec
INVARIANTS StreamDescribes Copied
PROPERTY NothingOverwritten
