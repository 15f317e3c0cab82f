SPECIFICATION FairSpec
CONSTANTS
  MaxTasks = 4
  Tasks = {t1, t2}
  NoTask = NoTask
  Boot = Boot
INVARIANTS
  UsedSlotsAreContiguous
  NoSleepOverTask
PROPERTIES
  ImplementsFifo
  WaitingTaskRuns
