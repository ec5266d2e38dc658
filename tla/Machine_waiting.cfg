CONSTANTS
  BUF_WIDTH = 4
  MIN_CAPACITY = 1
  Keys = {"Backspace", "Tab", "Escape", "LShift", "LControl", "LAlt"}
  MaxKeys = 3
  QueueSize = 2
  SleepArgs = {1, 2000}
  SleepTicks = 2
  MaxRead = 2
SPECIFICATION Spec
INVARIANTS TypeOK OnlyHeapBlocksHandlers MaskedInCalls KeyboardAlive NoStuckShift
PROPERTIES EchoTracksInput SleepsLongEnough CallsReturn
CHECK_DEADLOCK FALSE
