CONSTANTS
  BUF_WIDTH = 4
  MIN_CAPACITY = 1
  Keys = {"LShift"}
  MaxKeys = 0
  QueueSize = 1
  SleepArgs = {2000}
  SleepTicks = 3
  MaxRead = 1
SPECIFICATION Spec
PROPERTY SleepsMilliseconds
CHECK_DEADLOCK FALSE
