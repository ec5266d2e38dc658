CONSTANTS
  NumTasks = 3
  QueueSize = 3
SPECIFICATION Spec
INVARIANTS TypeOK NoLostWake OverflowOnlyByRepeats
PROPERTIES WokenIsPolled
CHECK_DEADLOCK FALSE
