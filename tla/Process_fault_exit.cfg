SPECIFICATION Spec
CONSTANTS
  NumFrames = 8
  MaxTableFrames = 1
  MaxWindows = 2
  Offsets <- MCOffsets
  UserOffsets <- MCUserOffsets
  MAX_PROCS = 3
  Binaries <- MCBinaries
  ArgsOffset = 1
  HeapOffset = 2
  MaxPc = 2
  MaxFaults = 2
INVARIANT ExitSurrendersToParent
CHECK_DEADLOCK FALSE
