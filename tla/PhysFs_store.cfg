SPECIFICATION WholeFlushSpec
CONSTANTS
  Names = {f, g}
  Attrs = {1}
  Values = {1}
  NumInodes = 2
  NumBlocks = 5
  NumDirect = 3
  PointersPerBlock = 2
  MaxBlocks = 2
PROPERTY ImplementsStore
