SPECIFICATION Spec
CONSTANTS
  Names = {f}
  Attrs = {1}
  Values = {1}
  NumInodes = 2
  NumBlocks = 10
  NumDirect = 2
  PointersPerBlock = 3
  MaxBlocks = 4
PROPERTY ReadsBackWrites
