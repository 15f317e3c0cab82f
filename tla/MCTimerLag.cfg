SPECIFICATION FairSpec
CONSTANTS
  NUM_TIMERS = 2
  maxTimerInterval = 4
  CounterMod = 6
  OutstandingMod = 16
  Types = {"TIMER_REPEAT"}
  Intervals = {4}
  Callers = {"boot"}
  Capacity = 6
  MaxApps = 1
  Lag = TRUE
  MaxLag = 1
INVARIANTS
  TypeOK
  OutstandingIsHandled
PROPERTIES
  RepeatingTimersFire
