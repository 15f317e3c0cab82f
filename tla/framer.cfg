SPECIFICATION FairSpec
CONSTANTS
  TaskSlots = 7
  MaxFrames = 3
  MaxErrors = 1
  MaxHeard = 2
  Lengths = {"whole", "short", "empty", "long"}
  SlowTasks = FALSE
  Nothing = Nothing
  UART_QUEUE_LEN = 2
  RADIO_QUEUE_LEN = 1
INVARIANTS
  BaseTypeOK
  BuffersMatchTasks
  AckedOnlyIfQueued
  QueuesHaveOneMover
PROPERTIES
  ImplementsBridge
  EventuallyLeaves
CHECK_DEADLOCK FALSE
