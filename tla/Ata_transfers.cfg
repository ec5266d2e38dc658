CONSTANTS
  Machines <- MCMachines
  BlockCount <- MCBlockCount
  Blocks = {0}
  Values = {0, 1}
  MaxFaults = 1
SPECIFICATION Spec
INVARIANTS TypeOK ReadsLastWrite SelectionCached PanicNeedsFault
PROPERTIES CommandsToReadyDrives RequestsEnd
CHECK_DEADLOCK FALSE
