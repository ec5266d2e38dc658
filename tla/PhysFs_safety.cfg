SPECIFICATION Spec
CONSTANTS
  Names = {f, g}
  Attrs = {0}
  Values = {1}
  NumInodes = 2
  NumBlocks = 4
  NumDirect = 3
  PointersPerBlock = 2
  MaxBlocks = 2
INVARIANTS
  TypeOK
  BlocksNotShared
  DirectFilesReadable
PROPERTY
  OnlyCreateLosesBlocks
SYMMETRY Symmetry
