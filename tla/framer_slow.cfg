SPECIFICATION Spec
CONSTANTS
  TaskSlots = 7
  MaxFrames = 2
  MaxErrors = 0
  MaxHeard = 3
  Lengths = {"whole", "short"}
  SlowTasks = TRUE
  Nothing = Nothing
  UART_QUEUE_LEN = 2
  RADIO_QUEUE_LEN = 1
PROPERTIES
  LeavesOnTheOtherInterface
CHECK_DEADLOCK FALSE
