---------------------------- MODULE TimerHistory ----------------------------
(***************************************************************************)
(* TimerM with history variables, to say what its interface promises about *)
(* time and events: a timer fires once its interval has passed, and not    *)
(* after it is stopped; a repeating timer does not drift.                  *)
(***************************************************************************)
EXTENDS TimerM

CONSTANTS
  Coincide,   \* may another device's interrupt come while ticks await HandleFire
  Overdue     \* bound: a timer this many ticks late is not followed further

ASSUME HistoryAssumption == Coincide \in BOOLEAN /\ Overdue \in Nat \ {0, 1}

VARIABLES
  due,       \* timer -> ticks that really remain until it should fire
  stopped,   \* timer -> stopped while it was queued to be signalled
  owed       \* timer -> one-shot, it expired and its event is not yet signalled

historyVars == <<vars, due, stopped, owed>>

HistoryInit ==
  /\ Init
  /\ due = [t \in Timers |-> 0]
  /\ stopped = [t \in Timers |-> FALSE]
  /\ owed = [t \in Timers |-> FALSE]

\* The timers in the queue, from queue_head on.
Queued == {queue[(queue_head + n) % NUM_TIMERS] : n \in 1 .. queue_size}

\* The time of a timer that does not run is not followed.
Running(d) == [t \in Timers |-> IF mState'[t] THEN d[t] ELSE 0]

Passed == [t \in Timers |-> IF due[t] > -Overdue THEN due[t] - 1 ELSE due[t]]

\* The step queues timer t to be signalled.
Expires(t) == handling = "timers" /\ i = t /\ queue_size' = queue_size + 1

NextPeriod == [t \in Timers |-> IF Expires(t) THEN due[t] + mTimerList[t].ticks ELSE due[t]]

HistoryNext ==
  \/ Tick /\ due' = Running(Passed) /\ UNCHANGED <<stopped, owed>>
  \/ \E id \in Timers, type \in Types, interval \in Intervals :
       /\ Timer_start(id, type, interval)
       /\ due' = [due EXCEPT ![id] = interval]
       /\ stopped' = [stopped EXCEPT ![id] = FALSE]
       /\ UNCHANGED owed
  \/ \E id \in Timers :
       /\ Timer_stop(id)
       /\ due' = Running(due)
       /\ stopped' = [stopped EXCEPT ![id] = id \in Queued]
       /\ UNCHANGED owed
  \/ StdControl_stop /\ due' = Running(due) /\ UNCHANGED <<stopped, owed>>
  \/ /\ HandleTimer
     /\ due' = Running(NextPeriod)
     /\ owed' = [t \in Timers |-> owed[t] \/ (mState[t] /\ ~mState'[t])]
     /\ UNCHANGED stopped
  \/ /\ signalOneTimer
     /\ owed' = [t \in Timers |-> owed[t] /\ fired' # t]
     /\ UNCHANGED <<due, stopped>>
  \/ /\ AppInterrupt
     /\ Coincide \/ (~OCF0 /\ interval_outstanding = 0)
     /\ UNCHANGED <<due, stopped, owed>>
  \/ /\ \/ Clock_fire \/ HandleFire \/ CheckOutstanding \/ AdjustInterval
        \/ UserCodeReturns \/ RunApp \/ Sleep
     /\ UNCHANGED <<due, stopped, owed>>

HistorySpec == HistoryInit /\ [][HistoryNext]_historyVars

FairHistorySpec == HistorySpec /\ Fairness

-----------------------------------------------------------------------------

\* Ticks that have passed and are not yet taken off ticksLeft: counted by the
\* interrupt, about to be counted, or held by HandleFire's loop.
Untaken(t) ==
  interval_outstanding + (IF OCF0 THEN OCR0 + 1 ELSE 0)
    + (IF handling = "timers" /\ t >= i THEN int_out ELSE 0)

\* TimerM's books are exact: what is left for a timer, less the ticks not yet
\* taken off, is the time that really remains plus the ticks the counter shows.
\* This and OnTime are checked for a processor that keeps up with time.
TimeIsAccounted ==
  \A t \in Timers : mState[t] => mTimerList[t].ticksLeft - Untaken(t) = due[t] + TCNT0

\* A timer expires no sooner than two ticks before its time (HandleFire's <= 2)
\* and no later than one tick after it.
OnTime == [][\A t \in Timers : Expires(t) => due[t] \in -1 .. 2]_historyVars

\* Timer.start "cannot support continuous timers that fire faster than every 3
\* ticks", and accepts the others: these are never a whole period behind.
NeverAPeriodBehind ==
  \A t \in Timers :
    mState[t] /\ mTimerList[t].type = "TIMER_REPEAT" => due[t] > -mTimerList[t].ticks

\* interfaces/Timer.nc: "Stop the timer, preventing it from firing again."
StopPreventsFiring ==
  [][signalOneTimer => \A t \in Timers : fired' = t => ~stopped[t]]_historyVars

\* interfaces/Timer.nc: "TIMER_ONE_SHOT for a timer that fires once": what has
\* expired is in the queue until its event is signalled.
OneShotFires == \A t \in Timers : owed[t] => t \in Queued

\* A timer the program leaves alone fires: in the end it neither runs nor has an
\* event outstanding, unless it fires again and again.
TimersFire ==
  \A t \in Timers :
    \/ []<><<Touches(t)>>_vars
    \/ []<>(fired = t)
    \/ TimeStops
    \/ <>[](~mState[t] /\ ~owed[t])

=============================================================================
