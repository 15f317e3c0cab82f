------------------------------- MODULE TimerM -------------------------------
(***************************************************************************)
(* The timer multiplexer of TinyOS 1.x (tos/system/TimerM.nc) above the    *)
(* compare-match counter of tos/platform/mica/HPLClock.nc, run by the task *)
(* scheduler (TaskFifo).                                                   *)
(*                                                                         *)
(* The hardware counts TCNT0 up to OCR0, starts again from zero and raises *)
(* an interrupt.  Clock.fire counts the elapsed ticks and posts            *)
(* HandleFire; HandleFire takes the count, posts a signalOneTimer for each *)
(* timer that is due, queues the timer's number, and sets the counter for  *)
(* the next timer.  HandleFire is a task: ticks and interrupts go on while *)
(* it runs, so each of its atomic sections is an action.                   *)
(***************************************************************************)
EXTENDS Integers, Sequences, FiniteSets

CONSTANTS
  NUM_TIMERS,        \* timers of the program
  maxTimerInterval,  \* longest interval asked of the counter
  CounterMod,        \* 2^8: values of the counter and of a uint8_t
  OutstandingMod,    \* 2^16: values of a uint16_t
  Types,             \* the types of timer the program uses: one-shot, repeating
  Intervals,         \* intervals the program asks for
  Callers,           \* the code that calls the commands
  Capacity,          \* room in the task queue
  MaxApps,           \* other tasks that wait at the same time, 0 for none
  Lag,               \* whether ticks pass while the processor has work to do
  MaxLag             \* bound: how far, in ticks, the processor falls behind

ASSUME TimerAssumption ==
  /\ NUM_TIMERS \in Nat \ {0}
  /\ CounterMod \in Nat
  /\ OutstandingMod \in Nat \ {0}
  /\ maxTimerInterval \in 3 .. CounterMod - 1
  /\ Types \subseteq {"TIMER_REPEAT", "TIMER_ONE_SHOT"}
  /\ Intervals \subseteq Nat
  /\ Callers \subseteq {"boot", "signalOneTimer", "App"}
  /\ Capacity \in Nat \ {0}
  /\ MaxApps \in Nat
  /\ Lag \in BOOLEAN
  /\ MaxLag \in Nat

VARIABLES
  mState,                \* timer -> is it running (one bit each in the code)
  mTimerList,            \* timer -> type, ticks, ticksLeft
  mInterval,
  queue, queue_head, queue_tail, queue_size,   \* timers to be signalled
  interval_outstanding,  \* ticks the interrupt counted for HandleFire
  TCNT0, OCR0, OCF0,     \* counter, compare value, pending compare match
  fifo, running, asleep, posted,               \* the task scheduler
  handling, i, int_out,  \* where HandleFire is, and its local variables
  fired                  \* the timer whose event signalOneTimer signals

timers   == <<mState, mTimerList, mInterval>>
signals  == <<queue, queue_head, queue_tail, queue_size>>
hardware == <<TCNT0, OCR0, OCF0>>
tasks    == <<fifo, running, asleep, posted>>
locals   == <<handling, i, int_out>>
vars == <<timers, signals, interval_outstanding, hardware, tasks, locals, fired>>

Timers    == 0 .. NUM_TIMERS - 1
NoTimer   == NUM_TIMERS
TaskNames == {"HandleFire", "signalOneTimer", "App"}

Sched == INSTANCE TaskFifo WITH Tasks <- TaskNames, NoTask <- "none", Boot <- "boot"

CountOf(t) == Cardinality({k \in DOMAIN fifo : fifo[k] = t})

\* A faulty uint8_t, wide enough for a negative number.
wideInt(n) == n

\* The value of a number stored in a uint8_t.
uint8(n) == n % CounterMod

\* The value of a number stored in a uint16_t.
uint16(n) == n % OutstandingMod

\* The state StdControl.init leaves, and main() goes on with start-up code.
Init ==
  /\ mState = [t \in Timers |-> FALSE]
  /\ mTimerList = [t \in Timers |-> [type |-> "TIMER_REPEAT", ticks |-> 0, ticksLeft |-> 0]]
  /\ mInterval = maxTimerInterval
  /\ queue = [t \in Timers |-> 0]
  /\ queue_head = -1
  /\ queue_tail = -1
  /\ queue_size = 0
  /\ interval_outstanding = 0
  /\ TCNT0 = 0
  /\ OCR0 = maxTimerInterval
  /\ OCF0 = FALSE
  /\ Sched!Init
  /\ handling = "no"
  /\ i = 0
  /\ int_out = 0
  /\ fired = NoTimer

-----------------------------------------------------------------------------
(***************************************************************************)
(* The counter.                                                            *)
(***************************************************************************)

Count ==
  /\ TCNT0' = IF TCNT0 = OCR0 THEN 0 ELSE uint8(TCNT0 + 1)
  /\ OCF0' = (OCF0 \/ TCNT0 = OCR0)

\* Nothing is left to do for the ticks that have passed.
Idle == asleep /\ ~OCF0

\* Bound: while there is work to do, ticks pass only up to this backlog.
WithinLag ==
  /\ Lag
  /\ interval_outstanding <= MaxLag
  /\ \A t \in Timers : mState[t] => mTimerList[t].ticksLeft >= -MaxLag

Tick ==
  /\ Idle \/ WithinLag
  /\ Count
  /\ UNCHANGED <<timers, signals, interval_outstanding, OCR0, tasks, locals, fired>>

\* The two hardware accesses of an atomic section: the counter is read, and
\* may count once before the compare value is written.
SetInterval(value) ==
  /\ OCR0' = value
  /\ \/ UNCHANGED <<TCNT0, OCF0>>
     \/ WithinLag /\ Count

\* A faulty Clock.fire that posts HandleFire for every interrupt.
Clock_fireAlwaysPosts ==
  /\ OCF0
  /\ OCF0' = FALSE
  /\ Sched!InterruptPosts("HandleFire")
  /\ interval_outstanding' = uint16(interval_outstanding + OCR0 + 1)
  /\ UNCHANGED <<timers, signals, TCNT0, OCR0, locals, fired>>

\* A faulty Clock.fire that forgets that a period is one tick longer than OCR0.
Clock_fireOffByOne ==
  /\ OCF0
  /\ OCF0' = FALSE
  /\ IF interval_outstanding = 0 THEN Sched!InterruptPosts("HandleFire")
                                 ELSE Sched!InterruptOnly
  /\ interval_outstanding' = uint16(interval_outstanding + OCR0)
  /\ UNCHANGED <<timers, signals, TCNT0, OCR0, locals, fired>>

\* Clock.fire, the event of the compare-match interrupt.  The result of the
\* post is not looked at.
Clock_fire ==
  /\ OCF0
  /\ OCF0' = FALSE
  /\ IF interval_outstanding = 0 THEN Sched!InterruptPosts("HandleFire")
                                 ELSE Sched!InterruptOnly
  /\ interval_outstanding' = uint16(interval_outstanding + OCR0 + 1)
  /\ UNCHANGED <<timers, signals, TCNT0, OCR0, locals, fired>>

-----------------------------------------------------------------------------
(***************************************************************************)
(* Commands, called by the start-up code, by other tasks and by the fired  *)
(* events of the timers.                                                   *)
(***************************************************************************)

\* The program's own code runs.
UserCode ==
  /\ running \in Callers
  /\ running = "signalOneTimer" => fired # NoTimer

\* A faulty Timer.start that forgets the ticks since the counter restarted.
Timer_startNoDiff(id, type, interval) ==
  /\ UserCode
  /\ ~(type = "TIMER_REPEAT" /\ interval <= 2)
  /\ mTimerList' = [mTimerList EXCEPT ![id] =
       [type |-> type, ticks |-> interval, ticksLeft |-> interval]]
  /\ mState' = [mState EXCEPT ![id] = TRUE]
  /\ IF interval < mInterval
       THEN /\ mInterval' = interval
            /\ SetInterval(interval)
       ELSE UNCHANGED <<mInterval, hardware>>
  /\ UNCHANGED <<signals, interval_outstanding, tasks, locals, fired>>

\* Timer.start, for the arguments it does not refuse.
Timer_start(id, type, interval) ==
  /\ UserCode
  /\ ~(type = "TIMER_REPEAT" /\ interval <= 2)
  /\ mTimerList' = [mTimerList EXCEPT ![id] =
       [type |-> type, ticks |-> interval, ticksLeft |-> interval + TCNT0]]
  /\ mState' = [mState EXCEPT ![id] = TRUE]
  /\ IF interval + TCNT0 < mInterval
       THEN /\ mInterval' = interval + TCNT0
            /\ SetInterval(interval + TCNT0)
       ELSE UNCHANGED <<mInterval, hardware>>
  /\ UNCHANGED <<signals, interval_outstanding, tasks, locals, fired>>

\* Timer.stop: what is queued for the timer stays queued.
Timer_stop(id) ==
  /\ UserCode
  /\ mState[id]
  /\ mState' = [mState EXCEPT ![id] = FALSE]
  /\ UNCHANGED <<mTimerList, mInterval, signals, interval_outstanding, hardware,
                 tasks, locals, fired>>

\* StdControl.stop: the compare value is left as it is.
StdControl_stop ==
  /\ UserCode
  /\ mState' = [t \in Timers |-> FALSE]
  /\ mInterval' = maxTimerInterval
  /\ UNCHANGED <<mTimerList, signals, interval_outstanding, hardware, tasks, locals, fired>>

-----------------------------------------------------------------------------
(***************************************************************************)
(* The task HandleFire.                                                    *)
(***************************************************************************)

\* HandleFire starts: one atomic section takes the ticks counted so far.
HandleFire ==
  /\ Sched!Dispatch
  /\ running' = "HandleFire"
  /\ int_out' = interval_outstanding
  /\ interval_outstanding' = 0
  /\ handling' = "timers"
  /\ i' = 0
  /\ UNCHANGED <<timers, signals, hardware, fired>>

enqueue(value) ==
  LET last == IF queue_tail = NUM_TIMERS - 1 THEN 0 ELSE queue_tail + 1
  IN /\ queue_tail' = last
     /\ queue_size' = queue_size + 1
     /\ queue' = [queue EXCEPT ![last] = value]
     /\ UNCHANGED queue_head

\* The timer is due: post signalOneTimer and enqueue, or wait one more interval.
Expire(left) ==
  /\ Sched!TaskPosts("signalOneTimer")
  /\ IF Sched!HasRoom
       THEN /\ enqueue(i)
            /\ IF mTimerList[i].type = "TIMER_REPEAT"
                 THEN /\ mTimerList' = [mTimerList EXCEPT ![i].ticksLeft = left + mTimerList[i].ticks]
                      /\ UNCHANGED mState
                 ELSE /\ mTimerList' = [mTimerList EXCEPT ![i].ticksLeft = left]
                      /\ mState' = [mState EXCEPT ![i] = FALSE]
       ELSE /\ mTimerList' = [mTimerList EXCEPT ![i].ticksLeft = mInterval]
            /\ UNCHANGED <<mState, signals>>

\* One turn of the loop over the timers.
HandleTimer ==
  /\ handling = "timers"
  /\ LET left == mTimerList[i].ticksLeft - int_out
     IN  \/ /\ ~mState[i]
            /\ UNCHANGED <<timers, signals, tasks>>
         \/ /\ mState[i]
            /\ left > 2
            /\ mTimerList' = [mTimerList EXCEPT ![i].ticksLeft = left]
            /\ UNCHANGED <<mState, mInterval, signals, tasks>>
         \/ /\ mState[i]
            /\ left <= 2
            /\ Expire(left)
            /\ UNCHANGED mInterval
  /\ i' = IF i = NUM_TIMERS - 1 THEN 0 ELSE i + 1
  /\ handling' = IF i = NUM_TIMERS - 1 THEN "check" ELSE "timers"
  /\ UNCHANGED <<interval_outstanding, hardware, int_out, fired>>

HandleFireReturns ==
  /\ Sched!Return
  /\ handling' = "no"
  /\ int_out' = 0
  /\ UNCHANGED i

\* After the loop: another interrupt may have struck meanwhile.
CheckOutstanding ==
  /\ handling = "check"
  /\ IF interval_outstanding = 0
       THEN /\ handling' = "adjust"
            /\ UNCHANGED <<tasks, i, int_out>>
       ELSE HandleFireReturns
  /\ UNCHANGED <<timers, signals, interval_outstanding, hardware, fired>>

\* One turn of the loop that looks for the least ticksLeft.
Least(t, least) ==
  IF mState[t] /\ mTimerList[t].ticksLeft < least THEN uint8(mTimerList[t].ticksLeft)
                                                  ELSE least

\* val after n turns: the least ticksLeft, kept in a uint8_t.
val[n \in 0 .. NUM_TIMERS] == IF n = 0 THEN maxTimerInterval ELSE Least(n - 1, val[n - 1])

LeastTicksLeft == val[NUM_TIMERS]

\* adjustInterval: not sooner than three ticks from now.
adjustInterval ==
  LET soonest == uint8(TCNT0 + 3)
  IN IF \E t \in Timers : mState[t]
       THEN IF LeastTicksLeft < soonest THEN soonest ELSE LeastTicksLeft
       ELSE maxTimerInterval

AdjustInterval ==
  /\ handling = "adjust"
  /\ mInterval' = adjustInterval
  /\ SetInterval(adjustInterval)
  /\ HandleFireReturns
  /\ UNCHANGED <<mState, mTimerList, signals, interval_outstanding, fired>>

-----------------------------------------------------------------------------
(***************************************************************************)
(* The task signalOneTimer, and the rest of the program.                   *)
(***************************************************************************)

\* A faulty dequeue that does not advance the head.
dequeueKeepsHead ==
  LET first == IF queue_head = NUM_TIMERS - 1 THEN 0 ELSE queue_head + 1
  IN /\ queue_size' = queue_size - 1
     /\ fired' = queue[first]
     /\ UNCHANGED <<queue, queue_head, queue_tail>>

dequeue ==
  IF queue_size = 0
    THEN /\ fired' = NoTimer
         /\ UNCHANGED signals
    ELSE LET first == IF queue_head = NUM_TIMERS - 1 THEN 0 ELSE queue_head + 1
         IN /\ queue_head' = first
            /\ queue_size' = queue_size - 1
            /\ fired' = queue[first]
            /\ UNCHANGED <<queue, queue_tail>>

signalOneTimer ==
  /\ Sched!Dispatch
  /\ running' = "signalOneTimer"
  /\ dequeue
  /\ UNCHANGED <<timers, interval_outstanding, hardware, locals>>

\* The fired event, another task, or the start-up code returns.
UserCodeReturns ==
  /\ running \in {"signalOneTimer", "App", "boot"}
  /\ Sched!Return
  /\ fired' = NoTimer
  /\ UNCHANGED <<timers, signals, interval_outstanding, hardware, locals>>

RunApp ==
  /\ Sched!Dispatch
  /\ running' = "App"
  /\ UNCHANGED <<timers, signals, interval_outstanding, hardware, locals, fired>>

\* An interrupt of another device posts a task that may call the commands.
AppInterrupt ==
  /\ CountOf("App") < MaxApps
  /\ Sched!InterruptPosts("App")
  /\ UNCHANGED <<timers, signals, interval_outstanding, hardware, locals, fired>>

Sleep ==
  /\ Sched!Sleep
  /\ UNCHANGED <<timers, signals, interval_outstanding, hardware, locals, fired>>

Command ==
  \/ \E id \in Timers, type \in Types, interval \in Intervals :
       Timer_start(id, type, interval)
  \/ \E id \in Timers : Timer_stop(id)
  \/ StdControl_stop

Next ==
  \/ Tick
  \/ Clock_fire
  \/ Command
  \/ HandleFire
  \/ HandleTimer
  \/ CheckOutstanding
  \/ AdjustInterval
  \/ signalOneTimer
  \/ UserCodeReturns
  \/ RunApp
  \/ AppInterrupt
  \/ Sleep

Spec == Init /\ [][Next]_vars

\* The counter counts, its interrupt is served, tasks run to completion and the
\* main loop goes on.  Nothing is assumed of the program's commands.
Fairness ==
  /\ WF_vars(Tick)
  /\ WF_vars(Clock_fire)
  /\ WF_vars(HandleFire \/ signalOneTimer \/ RunApp \/ Sleep)
  /\ WF_vars(HandleTimer \/ CheckOutstanding \/ AdjustInterval)
  /\ WF_vars(UserCodeReturns)

FairSpec == Spec /\ Fairness

-----------------------------------------------------------------------------
(***************************************************************************)
(* Properties.                                                             *)
(***************************************************************************)

TypeOK ==
  /\ mState \in [Timers -> BOOLEAN]
  /\ mTimerList \in [Timers -> [type : Types \union {"TIMER_REPEAT"}, ticks : Nat,
                               ticksLeft : Int]]
  /\ mInterval \in 0 .. CounterMod - 1
  /\ queue \in [Timers -> Timers]
  /\ queue_head \in -1 .. NUM_TIMERS - 1
  /\ queue_tail \in -1 .. NUM_TIMERS - 1
  /\ queue_size \in 0 .. Capacity
  /\ interval_outstanding \in 0 .. OutstandingMod - 1
  /\ TCNT0 \in 0 .. CounterMod - 1
  /\ OCR0 \in 0 .. CounterMod - 1
  /\ OCF0 \in BOOLEAN
  /\ Sched!TypeOK
  /\ handling \in {"no", "timers", "check", "adjust"}
  /\ i \in Timers
  /\ int_out \in 0 .. OutstandingMod - 1
  /\ fired \in Timers \union {NoTimer}

\* Each signalOneTimer that waits has its entry in the queue of timers: none
\* finds the queue empty and none is left over, whichever posts failed.
SignalsMatchQueue == CountOf("signalOneTimer") = queue_size

\* "Once we've posted HandleFire(), don't post it again until the original one
\* is handled": as long as the post succeeds, HandleFire waits exactly when ticks
\* are outstanding.  Twice would handle no ticks; not at all would stop every
\* timer, since no later interrupt posts it.
OutstandingIsHandled ==
  CountOf("HandleFire") = IF interval_outstanding > 0 THEN 1 ELSE 0

\* "If the interval is set to be less than the current counter value, the timer
\* will count an extra 256 ticks [...] we check for this condition and avoid it".
CompareIsAhead == TCNT0 <= OCR0

\* The program starts or stops timer t.
Touches(t) ==
  \/ \E type \in Types, interval \in Intervals : Timer_start(t, type, interval)
  \/ Timer_stop(t)
  \/ StdControl_stop

\* In the end no tick passes: the bound on the backlog, or a processor that keeps
\* up with time, would wait for tasks of the program that follow each other for ever.
TimeStops == <>[][~Tick]_vars

Repeats(t) == mState[t] /\ mTimerList[t].type = "TIMER_REPEAT"

\* A repeating timer the program leaves alone fires for ever, although ticks go
\* on during HandleFire and make it leave the counter to a later HandleFire, and
\* tasks of the program come in between.
RepeatingTimersFire ==
  \A t \in Timers :
    \/ []<><<Touches(t)>>_vars
    \/ []<>(fired = t)
    \/ <>[]~Repeats(t)
    \/ TimeStops

=============================================================================
