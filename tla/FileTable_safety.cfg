SPECIFICATION Spec
CONSTANTS
  Devices <- MCDevices
  RegularFiles = {"f"}
  GoodProcs = {"ppid"}
  BadProcs = {"uid"}
  NoPaths = {"nodev"}
  FlagSets <- MCFlagSets
  BlockSize = 2
  Sizes = {1, 2}
  MaxLen = 4
  Positions = {0, 3}
  MaxFds = 3
CHECK_DEADLOCK FALSE
INVARIANTS
  TypeOK
  PositionsWithinFile
  LengthsAligned
PROPERTIES
  DenseKeepsDescriptors
