SPECIFICATION Spec
CONSTANTS
  NumFrames = 9
  MaxTableFrames = 1
  MaxWindows = 3
  Offsets <- MCOffsets
  UserOffsets <- MCUserOffsets
  MAX_PROCS = 3
  Binaries <- MCBinaries
  ArgsOffset = 1
  HeapOffset = 2
  MaxPc = 2
  MaxFaults = 2
INVARIANTS TypeOK LiveChain ParentHasContext FramesDistinct WindowsDisjoint ContextsMatch
PROPERTIES LiveEntriesKept AncestorPagesKept ImplementsCalls
CHECK_DEADLOCK FALSE
