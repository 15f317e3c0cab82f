SPECIFICATION FairHistorySpec
CONSTANTS
  NUM_TIMERS = 2
  maxTimerInterval = 4
  CounterMod = 8
  OutstandingMod = 16
  Types = {"TIMER_REPEAT", "TIMER_ONE_SHOT"}
  Intervals = {0, 6}
  Callers = {"boot", "App", "signalOneTimer"}
  Capacity = 6
  MaxApps = 1
  Lag = FALSE
  MaxLag = 0
  Coincide = FALSE
  Overdue = 2
INVARIANTS
  TimeIsAccounted
  OneShotFires
PROPERTIES
  OnTime
  TimersFire
