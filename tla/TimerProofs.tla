----------------------------- MODULE TimerProofs -----------------------------
(***************************************************************************)
(* Proofs about TimerM and TimerHistory.                                   *)
(*                                                                         *)
(* Types are correct, and each signalOneTimer that waits has its entry,    *)
(* whatever happens (TInv).  Ticks that are counted are handled if the     *)
(* processor falls behind by a bounded time and the task queue has room    *)
(* (RInv).  Timers keep time if the processor keeps up (HInv).             *)
(***************************************************************************)
EXTENDS TimerHistory, TaskCounts, WellFoundedInduction

-----------------------------------------------------------------------------
(***************************************************************************)
(* Numbers.                                                                *)
(***************************************************************************)

LEMMA Sizes ==
  /\ NUM_TIMERS \in Nat \ {0}
  /\ CounterMod \in Nat \ {0}
  /\ maxTimerInterval \in 3 .. CounterMod - 1
  /\ 0 \in Timers
  /\ Timers \subseteq Nat
  /\ \A t \in Timers : t + 1 \in Timers \/ t = NUM_TIMERS - 1
  BY TimerAssumption DEF Timers

\* What a uint8_t can hold is not changed by it.
LEMMA Narrow ==
  ASSUME NEW n \in Int
  PROVE  /\ uint8(n) \in 0 .. CounterMod - 1
         /\ n \in 0 .. CounterMod - 1 => uint8(n) = n
  <1>1. CounterMod \in Nat \ {0}
    BY Sizes
  <1> QED BY <1>1 DEF uint8

LEMMA Narrow16 ==
  ASSUME NEW n \in Nat
  PROVE  /\ uint16(n) \in Nat
         /\ n < OutstandingMod => uint16(n) = n
  <1>1. OutstandingMod \in Nat \ {0}
    BY TimerAssumption
  <1> QED BY <1>1 DEF uint16

\* The types of the variables in parts, without the widths that follow from the
\* matching of tasks and queue entries (TypeOK).
TimersT ==
  /\ mState \in [Timers -> BOOLEAN]
  /\ mTimerList \in [Timers -> [type : Types \union {"TIMER_REPEAT"}, ticks : Nat,
                               ticksLeft : Int]]
  /\ mInterval \in 0 .. CounterMod - 1

SignalsT ==
  /\ queue \in [Timers -> Timers]
  /\ queue_head \in -1 .. NUM_TIMERS - 1
  /\ queue_tail \in -1 .. NUM_TIMERS - 1
  /\ queue_size \in Nat

HardwareT ==
  /\ TCNT0 \in 0 .. CounterMod - 1
  /\ OCR0 \in 0 .. CounterMod - 1
  /\ OCF0 \in BOOLEAN

LocalsT ==
  /\ handling \in {"no", "timers", "check", "adjust"}
  /\ i \in Timers
  /\ int_out \in Nat

Others == interval_outstanding \in Nat /\ fired \in Timers \union {NoTimer}

Typed == TimersT /\ SignalsT /\ HardwareT /\ Sched!TypeOK /\ LocalsT /\ Others

\* A set of numbers that is not empty has a least element.
LEMMA LeastElement ==
  ASSUME NEW T, T \subseteq Nat, T # {}
  PROVE  \E m \in T : \A k \in T : m <= k
  <1> DEFINE R == OpToRel(<, Nat)
  <1>1. IsWellFoundedOn(R, Nat)
    BY NatLessThanWellFounded
  <1>2. \A x, y \in Nat : x < y => <<x, y>> \in R
    BY DEF OpToRel
  <1> HIDE DEF R
  <1>3. PICK m \in T : \A k \in T : ~ (<<k, m>> \in R)
    BY <1>1, WFMin
  <1>4. \A k \in T : m <= k
    <2> SUFFICES ASSUME NEW k \in T PROVE m <= k
      OBVIOUS
    <2>1. k \in Nat /\ m \in Nat
      OBVIOUS
    <2>2. ~(k < m)
      BY <1>2, <1>3, <2>1
    <2> QED BY <2>1, <2>2
  <1> QED BY <1>4

-----------------------------------------------------------------------------
(***************************************************************************)
(* The least ticksLeft.                                                    *)
(***************************************************************************)

\* f is the values of val up to n.
IsVal(f, n) ==
  f = [k \in 0 .. n |-> IF k = 0 THEN maxTimerInterval ELSE Least(k - 1, f[k - 1])]

\* The function that val is defined to be exists.
LEMMA ValExists == \A n \in Nat : \E f : IsVal(f, n)
  <1> SUFFICES ASSUME NEW n0 \in Nat, ~\E f : IsVal(f, n0) PROVE FALSE
    OBVIOUS
  <1> DEFINE T == {n \in Nat : ~\E f : IsVal(f, n)}
  <1>1. T \subseteq Nat /\ T # {}
    OBVIOUS
  <1> HIDE DEF T
  <1>2. PICK m \in T : \A k \in T : m <= k
    BY <1>1, LeastElement
  <1>3. m \in Nat /\ ~\E f : IsVal(f, m)
    BY <1>2 DEF T
  <1>4. CASE m = 0
    <2> DEFINE f == [k \in 0 .. 0 |-> maxTimerInterval]
    <2>1. f = [k \in 0 .. 0 |-> IF k = 0 THEN maxTimerInterval ELSE Least(k - 1, f[k - 1])]
      OBVIOUS
    <2>2. IsVal(f, 0)
      BY <2>1 DEF IsVal
    <2> QED BY <1>3, <1>4, <2>2
  <1>5. CASE m # 0
    <2>1. m - 1 \in Nat /\ ~(m <= m - 1)
      BY <1>3, <1>5
    <2>2. m - 1 \notin T
      BY <1>2, <2>1
    <2>3. PICK f : IsVal(f, m - 1)
      BY <2>1, <2>2 DEF T
    <2> DEFINE g == [k \in 0 .. m |-> IF k = m THEN Least(m - 1, f[m - 1]) ELSE f[k]]
    <2>4. \A k \in 0 .. m - 1 :
            f[k] = IF k = 0 THEN maxTimerInterval ELSE Least(k - 1, f[k - 1])
      BY <2>3 DEF IsVal
    <2>5. \A k \in 0 .. m : k # m => k \in 0 .. m - 1
      BY <1>3
    <2>6. \A k \in 0 .. m : k # 0 => k - 1 \in 0 .. m /\ k - 1 # m
      BY <1>3
    <2>7. \A k \in 0 .. m :
            g[k] = IF k = 0 THEN maxTimerInterval ELSE Least(k - 1, g[k - 1])
      <3> TAKE k \in 0 .. m
      <3>1. k # 0 => g[k - 1] = f[k - 1]
        BY <2>6
      <3>2. CASE k = m
        BY <1>5, <3>1, <3>2
      <3>3. CASE k # m
        <4>1. g[k] = f[k]
          BY <3>3
        <4> QED BY <2>4, <2>5, <3>1, <3>3, <4>1
      <3> QED BY <3>2, <3>3
    <2>8. g = [k \in 0 .. m |-> g[k]]
      OBVIOUS
    <2> HIDE DEF g
    <2>9. IsVal(g, m)
      BY <2>7, <2>8 DEF IsVal
    <2> QED BY <1>3, <2>9
  <1> QED BY <1>4, <1>5

LEMMA ValValue ==
  /\ val[0] = maxTimerInterval
  /\ \A n \in 0 .. NUM_TIMERS : n # 0 => val[n] = Least(n - 1, val[n - 1])
  <1>1. \E f : IsVal(f, NUM_TIMERS)
    BY ValExists, Sizes
  <1>2. \E f : f = [n \in 0 .. NUM_TIMERS |->
                      IF n = 0 THEN maxTimerInterval ELSE Least(n - 1, f[n - 1])]
    BY <1>1 DEF IsVal
  <1>3. val = [n \in 0 .. NUM_TIMERS |->
                 IF n = 0 THEN maxTimerInterval ELSE Least(n - 1, val[n - 1])]
    BY <1>2 DEF val
  <1>4. 0 \in 0 .. NUM_TIMERS
    BY Sizes
  <1>5. \A n \in 0 .. NUM_TIMERS :
          val[n] = IF n = 0 THEN maxTimerInterval ELSE Least(n - 1, val[n - 1])
    BY <1>3
  <1> QED BY <1>4, <1>5

\* val stays within a uint8_t.
LEMMA LeastIsNarrow ==
  ASSUME Typed
  PROVE  LeastTicksLeft \in 0 .. CounterMod - 1
  <1> DEFINE T == {n \in 0 .. NUM_TIMERS : val[n] \notin 0 .. CounterMod - 1}
  <1>1. SUFFICES T = {}
    BY Sizes DEF LeastTicksLeft
  <1>2. SUFFICES ASSUME T # {} PROVE FALSE
    OBVIOUS
  <1>3. T \subseteq Nat
    OBVIOUS
  <1> HIDE DEF T
  <1>4. PICK m \in T : \A k \in T : m <= k
    BY <1>2, <1>3, LeastElement
  <1>5. m \in 0 .. NUM_TIMERS /\ val[m] \notin 0 .. CounterMod - 1
    BY <1>4 DEF T
  <1>6. m # 0
    BY <1>5, ValValue, Sizes
  <1>7. /\ val[m] = Least(m - 1, val[m - 1])
        /\ m - 1 \in Timers /\ m - 1 \in 0 .. NUM_TIMERS /\ ~(m <= m - 1)
    BY <1>5, <1>6, ValValue, Sizes DEF Timers
  <1>8. val[m - 1] \in 0 .. CounterMod - 1
    BY <1>4, <1>7 DEF T
  <1>9. uint8(mTimerList[m - 1].ticksLeft) \in 0 .. CounterMod - 1
    BY <1>7, Narrow DEF Typed, TimersT, SignalsT, HardwareT
  <1> QED BY <1>5, <1>7, <1>8, <1>9 DEF Least

\* If every running timer has time left, val is the least of their times.
LEMMA LeastIsLeast ==
  ASSUME Typed, NEW low \in Nat, low <= maxTimerInterval,
         \A t \in Timers : mState[t] => mTimerList[t].ticksLeft >= low
  PROVE  /\ LeastTicksLeft \in low .. maxTimerInterval
         /\ \A t \in Timers : mState[t] => mTimerList[t].ticksLeft >= LeastTicksLeft
  <1> DEFINE Good(n) ==
               /\ val[n] \in low .. maxTimerInterval
               /\ \A t \in Timers : mState[t] /\ t < n => mTimerList[t].ticksLeft >= val[n]
             T == {n \in 0 .. NUM_TIMERS : ~Good(n)}
  <1>1. ASSUME NEW m \in 0 .. NUM_TIMERS, m # 0, Good(m - 1)
        PROVE  Good(m)
    <2> DEFINE u == m - 1
               left == mTimerList[u].ticksLeft
               v == val[u]
    <2>1. /\ val[m] = Least(u, v) /\ u \in Timers
          /\ \A t \in Timers : t < m => t < u \/ t = u
      BY <1>1, ValValue, Sizes DEF Timers
    <2>2. /\ left \in Int /\ (mState[u] => left >= low)
          /\ \A t \in Timers : mTimerList[t].ticksLeft \in Int
      BY <2>1 DEF Typed, TimersT
    <2>3. /\ v \in low .. maxTimerInterval
          /\ \A t \in Timers : mState[t] /\ t < u => mTimerList[t].ticksLeft >= v
      BY <1>1
    <2>4. val[m] = IF mState[u] /\ left < v THEN uint8(left) ELSE v
      BY <2>1 DEF Least
    <2> HIDE DEF u, left, v
    <2>5. mState[u] /\ left < v => uint8(left) = left
      <3>1. mState[u] /\ left < v => left \in 0 .. CounterMod - 1
        BY <2>2, <2>3, Sizes
      <3> QED BY <2>2, <3>1, Narrow
    <2>6. val[m] \in low .. maxTimerInterval /\ val[m] <= v /\ (mState[u] => left >= val[m])
      BY <2>2, <2>3, <2>4, <2>5, Sizes
    <2>7. \A t \in Timers : mState[t] /\ t < m => mTimerList[t].ticksLeft >= val[m]
      <3> SUFFICES ASSUME NEW t \in Timers, mState[t], t < m
                   PROVE  mTimerList[t].ticksLeft >= val[m]
        OBVIOUS
      <3>1. CASE t = u
        BY <2>6, <3>1 DEF left
      <3>2. CASE t < u
        <4>1. mTimerList[t].ticksLeft >= v /\ mTimerList[t].ticksLeft \in Int /\ v \in Int
          BY <2>2, <2>3, <3>2
        <4>2. val[m] \in Int
          BY <2>6
        <4> QED BY <2>6, <4>1, <4>2
      <3> QED BY <2>1, <3>1, <3>2
    <2> QED BY <2>6, <2>7
  <1>2. Good(0)
    <2>1. val[0] = maxTimerInterval
      BY ValValue, Sizes
    <2>2. maxTimerInterval \in low .. maxTimerInterval
      BY Sizes
    <2>3. \A t \in Timers : ~(t < 0)
      BY Sizes
    <2> QED BY <2>1, <2>2, <2>3
  <1>3. Good(NUM_TIMERS) => /\ LeastTicksLeft \in low .. maxTimerInterval
                            /\ \A t \in Timers :
                                 mState[t] => mTimerList[t].ticksLeft >= LeastTicksLeft
    BY Sizes DEF LeastTicksLeft, Timers
  <1> HIDE DEF Good
  <1>4. T \subseteq Nat
    OBVIOUS
  <1>5. ASSUME T # {} PROVE FALSE
    <2> HIDE DEF T
    <2>1. PICK m \in T : \A k \in T : m <= k
      BY <1>4, <1>5, LeastElement
    <2>2. m \in 0 .. NUM_TIMERS /\ ~Good(m)
      BY <2>1 DEF T
    <2>3. m # 0
      BY <1>2, <2>2
    <2>4. m - 1 \in 0 .. NUM_TIMERS /\ ~(m <= m - 1)
      BY <2>2, <2>3, Sizes
    <2>5. Good(m - 1)
      BY <2>1, <2>4 DEF T
    <2> QED BY <1>1, <2>2, <2>3, <2>5
  <1>6. Good(NUM_TIMERS)
    BY <1>5, Sizes
  <1> QED BY <1>3, <1>6

-----------------------------------------------------------------------------
(***************************************************************************)
(* The steps of the task scheduler.                                        *)
(***************************************************************************)

LEMMA CountOfIs ==
  /\ \A u : CountOf(u) = Occurrences(fifo, u)
  /\ \A u : CountOf(u)' = Occurrences(fifo', u)
  BY DEF CountOf, Occurrences, Places

LEMMA CountsAreNumbers ==
  /\ fifo \in Seq(TaskNames) => \A u : CountOf(u) \in Nat
  /\ fifo' \in Seq(TaskNames) => \A u : CountOf(u)' \in Nat
  <1>1. ASSUME NEW q \in Seq(TaskNames) PROVE \A u : Occurrences(q, u) \in Nat
    BY PlacesFinite
  <1> QED BY <1>1, CountOfIs

\* A post adds the task if there is room.
LEMMA PostStep ==
  ASSUME Sched!TypeOK, NEW t \in TaskNames, Sched!Enqueue(t)
  PROVE  /\ fifo' \in Seq(TaskNames) /\ Len(fifo') <= Capacity /\ posted' \in BOOLEAN
         /\ \A u : CountOf(u)' = CountOf(u) + (IF Sched!HasRoom /\ u = t THEN 1 ELSE 0)
         /\ \A u : CountOf(u) \in Nat /\ CountOf(u)' \in Nat
  <1>1. fifo \in Seq(TaskNames) /\ Len(fifo) \in Nat /\ Capacity \in Nat
    BY TimerAssumption DEF Sched!TypeOK
  <1>2. \A u : CountOf(u) \in Nat
    BY <1>1, CountsAreNumbers
  <1>3. CASE Sched!HasRoom
    <2>1. fifo' = Append(fifo, t) /\ posted' = TRUE /\ Len(fifo) < Capacity
      BY <1>3 DEF Sched!Enqueue, Sched!HasRoom
    <2>2. fifo' \in Seq(TaskNames) /\ Len(fifo') <= Capacity
      BY <1>1, <2>1
    <2>3. \A u : Occurrences(Append(fifo, t), u) = Occurrences(fifo, u) + (IF t = u THEN 1 ELSE 0)
      BY <1>1, CountAppend
    <2>4. \A u : CountOf(u)' = CountOf(u) + (IF t = u THEN 1 ELSE 0)
      BY <2>1, <2>3, CountOfIs
    <2> QED BY <1>2, <1>3, <2>1, <2>2, <2>4, CountsAreNumbers
  <1>4. CASE ~Sched!HasRoom
    <2>1. fifo' = fifo
      BY <1>4 DEF Sched!Enqueue
    <2>2. \A u : CountOf(u)' = CountOf(u)
      BY <2>1, CountOfIs
    <2>3. Len(fifo') <= Capacity /\ fifo' \in Seq(TaskNames)
      BY <2>1 DEF Sched!TypeOK
    <2>4. posted' \in BOOLEAN
      BY <1>1 DEF Sched!Enqueue, Sched!HasRoom
    <2> QED BY <1>2, <1>4, <2>1, <2>2, <2>3, <2>4
  <1> QED BY <1>3, <1>4

\* A dispatch takes the oldest task.
LEMMA DispatchStep ==
  ASSUME Sched!TypeOK, Sched!Dispatch
  PROVE  /\ Sched!TypeOK'
         /\ \A u : CountOf(u) = CountOf(u)' + (IF u = running' THEN 1 ELSE 0)
         /\ \A u : CountOf(u) \in Nat /\ CountOf(u)' \in Nat
         /\ running' \in TaskNames
  <1>1. /\ fifo \in Seq(TaskNames) /\ fifo # << >> /\ Len(fifo) <= Capacity /\ Capacity \in Nat
        /\ running' = Head(fifo) /\ fifo' = Tail(fifo) /\ asleep' = asleep /\ posted' = posted
    BY TimerAssumption DEF Sched!TypeOK, Sched!Dispatch
  <1>2. /\ fifo' \in Seq(TaskNames) /\ Len(fifo') <= Capacity /\ running' \in TaskNames
    BY <1>1
  <1>3. \A u : Occurrences(fifo, u)
                 = Occurrences(Tail(fifo), u) + (IF Head(fifo) = u THEN 1 ELSE 0)
    BY <1>1, CountTail
  <1>4. \A u : CountOf(u) = CountOf(u)' + (IF u = running' THEN 1 ELSE 0)
    BY <1>1, <1>3, CountOfIs
  <1> QED BY <1>1, <1>2, <1>4, CountsAreNumbers DEF Sched!TypeOK

\* The tasks of the program and of the timers are all there are.
LEMMA FifoLength ==
  ASSUME fifo \in Seq(TaskNames)
  PROVE  Len(fifo) = CountOf("HandleFire") + CountOf("signalOneTimer") + CountOf("App")
  <1>1. fifo \in Seq({"HandleFire", "signalOneTimer", "App", "none"})
    BY DEF TaskNames
  <1>2. Len(fifo) = Occurrences(fifo, "HandleFire") + Occurrences(fifo, "signalOneTimer")
                      + Occurrences(fifo, "App") + Occurrences(fifo, "none")
    BY <1>1, CountAll
  <1>3. "none" \notin TaskNames
    BY DEF TaskNames
  <1>4. Occurrences(fifo, "none") = 0
    BY <1>3, PlacesFinite
  <1>5. \A u : CountOf(u) \in Nat
    BY CountsAreNumbers
  <1> QED BY <1>2, <1>4, <1>5, CountOfIs

LEMMA SameCounts == UNCHANGED fifo => \A u : CountOf(u)' = CountOf(u)
  BY CountOfIs

-----------------------------------------------------------------------------
(***************************************************************************)
(* Types, and the matching of tasks and queue entries.                     *)
(***************************************************************************)

LEMMA TypeParts ==
  /\ Typed <=> TimersT /\ SignalsT /\ HardwareT /\ Sched!TypeOK /\ LocalsT /\ Others
  /\ Typed' <=> TimersT' /\ SignalsT' /\ HardwareT' /\ Sched!TypeOK' /\ LocalsT' /\ Others'
  BY DEF Typed

\* The tasks and what is queued for them.
Matched == CountOf("App") <= MaxApps /\ SignalsMatchQueue

TInv == Typed /\ Matched

LEMMA CountTypes ==
  ASSUME HardwareT, Count
  PROVE  TCNT0' \in 0 .. CounterMod - 1 /\ OCF0' \in BOOLEAN
  <1>1. uint8(TCNT0 + 1) \in 0 .. CounterMod - 1 /\ 0 \in 0 .. CounterMod - 1
    BY Narrow, Sizes DEF HardwareT
  <1> QED BY <1>1 DEF Count, HardwareT

LEMMA SetIntervalTypes ==
  ASSUME HardwareT, NEW n \in 0 .. CounterMod - 1, SetInterval(n)
  PROVE  HardwareT'
  BY CountTypes DEF SetInterval, HardwareT

\* Steps that leave tasks and queue as they are.
LEMMA MatchedKept ==
  ASSUME Matched, UNCHANGED <<fifo, queue_size>>
  PROVE  Matched'
  BY SameCounts DEF Matched, SignalsMatchQueue

\* Steps that change one part of the state leave the others.
LEMMA Kept ==
  /\ TimersT /\ UNCHANGED timers => TimersT'
  /\ SignalsT /\ UNCHANGED signals => SignalsT'
  /\ HardwareT /\ UNCHANGED hardware => HardwareT'
  /\ Sched!TypeOK /\ UNCHANGED tasks => Sched!TypeOK'
  /\ LocalsT /\ UNCHANGED locals => LocalsT'
  /\ Others /\ UNCHANGED <<interval_outstanding, fired>> => Others'
  BY DEF TimersT, timers, SignalsT, signals, HardwareT, hardware, Sched!TypeOK, tasks,
         LocalsT, locals, Others

LEMMA TInit == Init => TInv
  <1> SUFFICES ASSUME Init PROVE TInv
    OBVIOUS
  <1>1. TimersT /\ HardwareT /\ LocalsT /\ Others
    <2>1. 0 \in 0 .. CounterMod - 1 /\ maxTimerInterval \in 0 .. CounterMod - 1 /\ 0 \in Nat
      BY Sizes
    <2>2. TimersT
      BY <2>1 DEF Init, TimersT
    <2>3. HardwareT /\ LocalsT /\ Others
      BY <2>1, Sizes DEF Init, HardwareT, LocalsT, Others
    <2> QED BY <2>2, <2>3
  <1>2. SignalsT
    <2>1. -1 \in -1 .. NUM_TIMERS - 1
      BY Sizes
    <2> QED BY <2>1, Sizes DEF Init, SignalsT
  <1>3. Sched!TypeOK /\ fifo = << >> /\ fifo \in Seq(TaskNames)
    <2>1. /\ fifo = << >> /\ running = "boot" /\ asleep = FALSE /\ posted = TRUE
      BY DEF Init, Sched!Init
    <2>2. fifo \in Seq(TaskNames) /\ Len(fifo) = 0
      BY <2>1
    <2>3. Len(fifo) <= Capacity
      BY <2>2, TimerAssumption
    <2> QED BY <2>1, <2>2, <2>3 DEF Sched!TypeOK
  <1>4. \A u : CountOf(u) = 0
    <2>1. \A u : Places(fifo, u) = {}
      BY <1>3 DEF Places
    <2>2. \A u : Occurrences(fifo, u) = 0
      BY <2>1, FS_EmptySet DEF Occurrences
    <2> QED BY <2>2, CountOfIs
  <1>5. Matched
    BY <1>4, TimerAssumption DEF Matched, SignalsMatchQueue, Init
  <1> QED BY <1>1, <1>2, <1>3, <1>5, TypeParts DEF TInv

\* The arguments of the parts of TInv.
LEMMA TParts ==
  TInv => /\ TimersT /\ SignalsT /\ HardwareT /\ Sched!TypeOK /\ LocalsT /\ Others /\ Matched
          /\ fifo \in Seq(TaskNames) /\ Typed
  BY TypeParts DEF TInv, Sched!TypeOK

LEMMA TTick == TInv /\ Tick => TInv'
  <1> SUFFICES ASSUME TInv, Tick PROVE TInv'
    OBVIOUS
  <1>1. HardwareT'
    BY TParts, CountTypes DEF Tick, HardwareT
  <1>2. Matched'
    BY TParts, MatchedKept DEF Tick, tasks, signals
  <1> QED BY <1>1, <1>2, TParts, Kept, TypeParts DEF TInv, Tick, Others

LEMMA TClock_fire == TInv /\ Clock_fire => TInv'
  <1> SUFFICES ASSUME TInv, Clock_fire PROVE TInv'
    OBVIOUS
  <1>1. Sched!TypeOK' /\ Matched'
    <2>1. CASE interval_outstanding = 0
      <3>1. Sched!Enqueue("HandleFire") /\ asleep' = FALSE /\ running' = running
        BY <2>1 DEF Clock_fire, Sched!InterruptPosts
      <3>2. /\ fifo' \in Seq(TaskNames) /\ Len(fifo') <= Capacity /\ posted' \in BOOLEAN
            /\ CountOf("App")' = CountOf("App")
            /\ CountOf("signalOneTimer")' = CountOf("signalOneTimer")
        BY <3>1, TParts, PostStep DEF TaskNames
      <3> QED BY <3>1, <3>2, TParts
           DEF Sched!TypeOK, Matched, SignalsMatchQueue, Clock_fire, signals
    <2>2. CASE interval_outstanding # 0
      BY <2>2, TParts, MatchedKept
         DEF Clock_fire, Sched!InterruptOnly, Sched!TypeOK, signals
    <2> QED BY <2>1, <2>2
  <1>2. interval_outstanding' \in Nat
    BY TParts, Narrow16 DEF Clock_fire, Others, HardwareT
  <1>3. HardwareT'
    BY TParts DEF Clock_fire, HardwareT
  <1> QED BY <1>1, <1>2, <1>3, TParts, Kept, TypeParts DEF TInv, Clock_fire, Others

LEMMA TTimer_start ==
  ASSUME TInv, NEW id \in Timers, NEW type \in Types, NEW interval \in Intervals,
         Timer_start(id, type, interval)
  PROVE  TInv'
  <1> DEFINE n == interval + TCNT0
  <1>1. interval \in Nat /\ TCNT0 \in 0 .. CounterMod - 1 /\ n \in Nat /\ CounterMod \in Nat
    BY TParts, Sizes, TimerAssumption DEF HardwareT
  <1>2. /\ mState' = [mState EXCEPT ![id] = TRUE]
        /\ mTimerList' = [mTimerList EXCEPT ![id] =
             [type |-> type, ticks |-> interval, ticksLeft |-> n]]
        /\ UNCHANGED <<signals, interval_outstanding, tasks, locals, fired>>
    BY DEF Timer_start
  <1>3. \/ n < mInterval /\ mInterval' = n /\ SetInterval(n)
        \/ UNCHANGED <<mInterval, hardware>>
    BY DEF Timer_start
  <1> HIDE DEF n
  <1>4. /\ mState \in [Timers -> BOOLEAN] /\ mInterval \in 0 .. CounterMod - 1
        /\ mTimerList \in [Timers -> [type : Types \union {"TIMER_REPEAT"}, ticks : Nat,
                                     ticksLeft : Int]]
    BY TParts DEF TimersT
  <1>5. n < mInterval => n \in 0 .. CounterMod - 1
    BY <1>1, <1>4
  <1>6. HardwareT'
    BY <1>3, <1>5, TParts, SetIntervalTypes, Kept
  <1>7. mState' \in [Timers -> BOOLEAN] /\ mInterval' \in 0 .. CounterMod - 1
    BY <1>2, <1>3, <1>4, <1>5
  <1>8. mTimerList' \in [Timers -> [type : Types \union {"TIMER_REPEAT"}, ticks : Nat,
                                   ticksLeft : Int]]
    <2>1. [type |-> type, ticks |-> interval, ticksLeft |-> n]
             \in [type : Types \union {"TIMER_REPEAT"}, ticks : Nat, ticksLeft : Int]
      BY <1>1
    <2> QED BY <1>2, <1>4, <2>1
  <1>9. Matched'
    BY <1>2, TParts, MatchedKept DEF tasks, signals
  <1> QED BY <1>2, <1>6, <1>7, <1>8, <1>9, TParts, Kept, TypeParts DEF TInv, TimersT

LEMMA TTimer_stop ==
  ASSUME TInv, NEW id \in Timers, Timer_stop(id)
  PROVE  TInv'
  <1>1. TimersT'
    BY TParts DEF Timer_stop, TimersT
  <1>2. Matched'
    BY TParts, MatchedKept DEF Timer_stop, tasks, signals
  <1> QED BY <1>1, <1>2, TParts, Kept, TypeParts DEF TInv, Timer_stop

LEMMA TStdControl_stop == TInv /\ StdControl_stop => TInv'
  <1> SUFFICES ASSUME TInv, StdControl_stop PROVE TInv'
    OBVIOUS
  <1>1. TimersT'
    <2>1. maxTimerInterval \in 0 .. CounterMod - 1
      BY Sizes
    <2> QED BY <2>1, TParts DEF StdControl_stop, TimersT
  <1>2. Matched'
    BY TParts, MatchedKept DEF StdControl_stop, tasks, signals
  <1> QED BY <1>1, <1>2, TParts, Kept, TypeParts DEF TInv, StdControl_stop

LEMMA THandleFire == TInv /\ HandleFire => TInv'
  <1> SUFFICES ASSUME TInv, HandleFire PROVE TInv'
    OBVIOUS
  <1>1. Sched!TypeOK' /\ CountOf("App")' = CountOf("App")
        /\ CountOf("signalOneTimer")' = CountOf("signalOneTimer")
    <2>1. Sched!Dispatch /\ running' = "HandleFire"
      BY DEF HandleFire
    <2>2. /\ Sched!TypeOK' /\ CountOf("App") = CountOf("App")' + 0
          /\ CountOf("signalOneTimer") = CountOf("signalOneTimer")' + 0
          /\ CountOf("App")' \in Nat /\ CountOf("signalOneTimer")' \in Nat
      BY <2>1, TParts, DispatchStep
    <2> QED BY <2>2
  <1>2. Matched'
    BY <1>1, TParts DEF HandleFire, Matched, SignalsMatchQueue, signals
  <1>3. LocalsT' /\ Others'
    BY TParts, Sizes DEF HandleFire, LocalsT, Others
  <1> QED BY <1>1, <1>2, <1>3, TParts, Kept, TypeParts DEF TInv, HandleFire

\* The parts of the timer's record that Expire writes.
LEMMA TicksLeftTypes ==
  ASSUME TimersT, NEW t \in Timers, NEW left \in Int,
         mTimerList' = [mTimerList EXCEPT ![t].ticksLeft = left]
  PROVE  /\ mTimerList' \in [Timers -> [type : Types \union {"TIMER_REPEAT"}, ticks : Nat,
                                       ticksLeft : Int]]
         /\ mTimerList'[t].ticksLeft = left
         /\ mTimerList'[t].type = mTimerList[t].type
         /\ mTimerList'[t].ticks = mTimerList[t].ticks
         /\ \A u \in Timers : u # t => mTimerList'[u] = mTimerList[u]
  BY DEF TimersT

\* What one turn of HandleFire's loop does.
LEMMA TurnIs ==
  ASSUME TInv, HandleTimer
  PROVE  /\ i \in Timers /\ i' \in Timers /\ handling' \in {"timers", "check"}
         /\ \/ UNCHANGED <<mState, mInterval, signals, tasks, mTimerList>> /\ ~mState[i]
            \/ /\ mState[i] /\ mTimerList[i].ticksLeft - int_out > 2
               /\ mTimerList' = [mTimerList EXCEPT ![i].ticksLeft =
                                   mTimerList[i].ticksLeft - int_out]
               /\ UNCHANGED <<mState, mInterval, signals, tasks>>
            \/ /\ mState[i] /\ mTimerList[i].ticksLeft - int_out <= 2
               /\ Expire(mTimerList[i].ticksLeft - int_out) /\ UNCHANGED mInterval
         /\ UNCHANGED <<interval_outstanding, hardware, int_out, fired>>
  BY TParts, Sizes DEF HandleTimer, LocalsT, timers, Timers

LEMMA ExpirePosts ==
  ASSUME TInv, NEW left \in Int, Expire(left)
  PROVE  /\ Sched!TypeOK' /\ running # "none" /\ UNCHANGED <<running, asleep>>
         /\ Sched!Enqueue("signalOneTimer")
         /\ CountOf("App")' = CountOf("App") /\ CountOf("HandleFire")' = CountOf("HandleFire")
         /\ CountOf("signalOneTimer")'
              = CountOf("signalOneTimer") + (IF Sched!HasRoom THEN 1 ELSE 0)
         /\ queue_size' = queue_size + (IF Sched!HasRoom THEN 1 ELSE 0)
  <1>1. Sched!Enqueue("signalOneTimer") /\ running # "none" /\ UNCHANGED <<running, asleep>>
    BY DEF Expire, Sched!TaskPosts
  <1>2. "signalOneTimer" \in TaskNames
    BY DEF TaskNames
  <1>3. /\ fifo' \in Seq(TaskNames) /\ Len(fifo') <= Capacity /\ posted' \in BOOLEAN
        /\ \A u : CountOf(u)'
                    = CountOf(u) + (IF Sched!HasRoom /\ u = "signalOneTimer" THEN 1 ELSE 0)
        /\ \A u : CountOf(u) \in Nat
    BY <1>1, <1>2, TParts, PostStep
  <1>4. Sched!TypeOK'
    BY <1>1, <1>3, TParts DEF Sched!TypeOK
  <1>5. CountOf("App")' = CountOf("App") /\ CountOf("HandleFire")' = CountOf("HandleFire")
    <2>1. CountOf("App")' = CountOf("App") + 0
      BY <1>3
    <2>2. CountOf("HandleFire")' = CountOf("HandleFire") + 0
      BY <1>3
    <2> QED BY <1>3, <2>1, <2>2
  <1>6. CountOf("signalOneTimer")'
          = CountOf("signalOneTimer") + (IF Sched!HasRoom THEN 1 ELSE 0)
    BY <1>3
  <1>7. queue_size' = queue_size + (IF Sched!HasRoom THEN 1 ELSE 0)
    <2>1. queue_size \in Nat
      BY TParts DEF SignalsT
    <2> QED BY <2>1 DEF Expire, enqueue, signals
  <1> QED BY <1>1, <1>4, <1>5, <1>6, <1>7

LEMMA THandleTimer == TInv /\ HandleTimer => TInv'
  <1> SUFFICES ASSUME TInv, HandleTimer PROVE TInv'
    OBVIOUS
  <1> DEFINE left == mTimerList[i].ticksLeft - int_out
  <1>1. i \in Timers /\ TimersT /\ SignalsT /\ left \in Int
    BY TParts, TurnIs DEF TimersT, LocalsT
  <1>2. LocalsT' /\ Others' /\ HardwareT'
    <2>1. i' \in Timers /\ handling' \in {"timers", "check"}
          /\ UNCHANGED <<interval_outstanding, hardware, int_out, fired>>
      BY TurnIs
    <2> QED BY <2>1, TParts, Kept DEF LocalsT
  <1>3. \/ UNCHANGED <<mState, mInterval, signals, tasks, mTimerList>>
        \/ /\ mTimerList' = [mTimerList EXCEPT ![i].ticksLeft = left]
           /\ UNCHANGED <<mState, mInterval, signals, tasks>>
        \/ Expire(left) /\ UNCHANGED mInterval
    BY TurnIs
  <1> HIDE DEF left
  <1>4. CASE UNCHANGED <<mState, mInterval, signals, tasks, mTimerList>>
    <2>1. Matched' /\ TimersT' /\ SignalsT' /\ Sched!TypeOK'
      BY <1>4, TParts, MatchedKept, Kept DEF tasks, signals, timers
    <2> QED BY <1>2, <2>1, TypeParts DEF TInv
  <1>5. CASE /\ mTimerList' = [mTimerList EXCEPT ![i].ticksLeft = left]
             /\ UNCHANGED <<mState, mInterval, signals, tasks>>
    <2>1. Matched' /\ SignalsT' /\ Sched!TypeOK'
      BY <1>5, TParts, MatchedKept, Kept DEF tasks, signals
    <2>2. TimersT'
      BY <1>1, <1>5, TicksLeftTypes DEF TimersT
    <2> QED BY <1>2, <2>1, <2>2, TypeParts DEF TInv
  <1>6. CASE Expire(left) /\ UNCHANGED mInterval
    <2>1. Sched!TypeOK' /\ Matched'
      BY <1>1, <1>6, ExpirePosts, TParts DEF Matched, SignalsMatchQueue
    <2>2. TimersT'
      <3>1. \E n \in Int : mTimerList' = [mTimerList EXCEPT ![i].ticksLeft = n]
        <4>1. left + mTimerList[i].ticks \in Int /\ mInterval \in Int
          BY <1>1 DEF TimersT
        <4> QED BY <1>1, <1>6, <4>1 DEF Expire
      <3>2. mState' = mState \/ mState' = [mState EXCEPT ![i] = FALSE]
        BY <1>6 DEF Expire
      <3>3. mTimerList' \in [Timers -> [type : Types \union {"TIMER_REPEAT"}, ticks : Nat,
                                       ticksLeft : Int]]
        BY <1>1, <3>1, TicksLeftTypes
      <3>4. mState' \in [Timers -> BOOLEAN]
        BY <1>1, <3>2 DEF TimersT
      <3> QED BY <1>1, <1>6, <3>3, <3>4 DEF TimersT
    <2>3. SignalsT'
      <3>1. enqueue(i) \/ UNCHANGED signals
        BY <1>6 DEF Expire
      <3>2. CASE enqueue(i)
        <4> DEFINE last == IF queue_tail = NUM_TIMERS - 1 THEN 0 ELSE queue_tail + 1
        <4>1. last \in Timers /\ last \in -1 .. NUM_TIMERS - 1
          BY <1>1, Sizes DEF SignalsT, Timers
        <4>2. /\ queue_tail' = last /\ queue' = [queue EXCEPT ![last] = i]
              /\ queue_head' = queue_head /\ queue_size' = queue_size + 1
          BY <3>2 DEF enqueue
        <4> HIDE DEF last
        <4> QED BY <1>1, <4>1, <4>2 DEF SignalsT
      <3> QED BY <1>1, <3>1, <3>2, Kept
    <2> QED BY <1>2, <2>1, <2>2, <2>3, TypeParts DEF TInv
  <1> QED BY <1>3, <1>4, <1>5, <1>6

LEMMA ReturnTypes ==
  ASSUME TInv, Sched!Return
  PROVE  Sched!TypeOK' /\ UNCHANGED <<fifo, asleep>> /\ running' = "none"
  BY TParts DEF Sched!Return, Sched!TypeOK

LEMMA TCheckOutstanding == TInv /\ CheckOutstanding => TInv'
  <1> SUFFICES ASSUME TInv, CheckOutstanding PROVE TInv'
    OBVIOUS
  <1>1. CASE interval_outstanding = 0
    <2>1. handling' = "adjust" /\ UNCHANGED <<tasks, i, int_out>>
      BY <1>1 DEF CheckOutstanding
    <2>2. LocalsT' /\ Sched!TypeOK'
      BY <2>1, TParts, Kept DEF LocalsT
    <2>3. Matched'
      BY <2>1, TParts, MatchedKept DEF CheckOutstanding, tasks, signals
    <2> QED BY <2>2, <2>3, TParts, Kept, TypeParts DEF TInv, CheckOutstanding
  <1>2. CASE interval_outstanding # 0
    <2>1. Sched!Return /\ handling' = "no" /\ int_out' = 0 /\ UNCHANGED i
      BY <1>2 DEF CheckOutstanding, HandleFireReturns
    <2>2. LocalsT' /\ Sched!TypeOK'
      BY <2>1, TParts, ReturnTypes DEF LocalsT
    <2>3. Matched'
      BY <2>1, TParts, ReturnTypes, MatchedKept DEF CheckOutstanding, signals
    <2> QED BY <2>2, <2>3, TParts, Kept, TypeParts DEF TInv, CheckOutstanding
  <1> QED BY <1>1, <1>2

LEMMA AdjustTypes == Typed => adjustInterval \in 0 .. CounterMod - 1
  <1> SUFFICES ASSUME Typed PROVE adjustInterval \in 0 .. CounterMod - 1
    OBVIOUS
  <1>1. uint8(TCNT0 + 3) \in 0 .. CounterMod - 1
    BY Narrow DEF Typed, TimersT, SignalsT, HardwareT
  <1>2. maxTimerInterval \in 0 .. CounterMod - 1
    BY Sizes
  <1> QED BY <1>1, <1>2, LeastIsNarrow DEF adjustInterval

LEMMA TAdjustInterval == TInv /\ AdjustInterval => TInv'
  <1> SUFFICES ASSUME TInv, AdjustInterval PROVE TInv'
    OBVIOUS
  <1>1. adjustInterval \in 0 .. CounterMod - 1
    BY TParts, AdjustTypes
  <1>2. /\ mInterval' = adjustInterval /\ SetInterval(adjustInterval)
        /\ Sched!Return /\ handling' = "no" /\ int_out' = 0 /\ UNCHANGED i
        /\ UNCHANGED <<mState, mTimerList, signals, interval_outstanding, fired>>
    BY DEF AdjustInterval, HandleFireReturns
  <1>3. HardwareT'
    BY <1>1, <1>2, TParts, SetIntervalTypes
  <1>4. TimersT' /\ LocalsT' /\ Sched!TypeOK'
    BY <1>1, <1>2, TParts, ReturnTypes DEF TimersT, LocalsT
  <1>5. Matched'
    BY <1>2, TParts, ReturnTypes, MatchedKept DEF signals
  <1> QED BY <1>2, <1>3, <1>4, <1>5, TParts, Kept, TypeParts DEF TInv

\* A dispatch of signalOneTimer takes the oldest entry, which is there.
LEMMA SignalIs ==
  ASSUME TInv, signalOneTimer
  PROVE  /\ queue_size \in Nat \ {0}
         /\ Sched!TypeOK' /\ running' = "signalOneTimer"
         /\ CountOf("App")' = CountOf("App") /\ CountOf("HandleFire")' = CountOf("HandleFire")
         /\ CountOf("signalOneTimer") = CountOf("signalOneTimer")' + 1
         /\ queue_size' = queue_size - 1
         /\ queue_head' = IF queue_head = NUM_TIMERS - 1 THEN 0 ELSE queue_head + 1
         /\ queue_head' \in Timers
         /\ fired' = queue[queue_head']
         /\ UNCHANGED <<queue, queue_tail>>
  <1>1. Sched!Dispatch /\ running' = "signalOneTimer" /\ dequeue
    BY DEF signalOneTimer
  <1>2. /\ Sched!TypeOK' /\ \A u : CountOf(u) \in Nat /\ CountOf(u)' \in Nat
        /\ \A u : CountOf(u) = CountOf(u)' + (IF u = "signalOneTimer" THEN 1 ELSE 0)
    BY <1>1, TParts, DispatchStep
  <1>3. CountOf("App")' = CountOf("App") /\ CountOf("HandleFire")' = CountOf("HandleFire")
    <2>1. CountOf("App") = CountOf("App")' + 0
      BY <1>2
    <2>2. CountOf("HandleFire") = CountOf("HandleFire")' + 0
      BY <1>2
    <2> QED BY <1>2, <2>1, <2>2
  <1>4. CountOf("signalOneTimer") = CountOf("signalOneTimer")' + 1
    BY <1>2
  <1>5. queue_size \in Nat \ {0}
    BY <1>2, <1>4, TParts DEF Matched, SignalsMatchQueue
  <1>6. /\ queue_size' = queue_size - 1
        /\ queue_head' = IF queue_head = NUM_TIMERS - 1 THEN 0 ELSE queue_head + 1
        /\ fired' = queue[queue_head']
        /\ UNCHANGED <<queue, queue_tail>>
    BY <1>1, <1>5 DEF dequeue
  <1>7. queue_head' \in Timers
    <2> DEFINE h == IF queue_head = NUM_TIMERS - 1 THEN 0 ELSE queue_head + 1
    <2>1. queue_head \in -1 .. NUM_TIMERS - 1
      BY TParts DEF SignalsT
    <2>2. h \in Timers
      BY <2>1, Sizes DEF Timers
    <2> QED BY <1>6, <2>2
  <1>8. Sched!TypeOK'
    BY <1>2
  <1> QED BY <1>1, <1>3, <1>4, <1>5, <1>6, <1>7, <1>8

LEMMA TsignalOneTimer == TInv /\ signalOneTimer => TInv'
  <1> SUFFICES ASSUME TInv, signalOneTimer PROVE TInv'
    OBVIOUS
  <1>1. \A u : CountOf(u)' \in Nat
    BY TParts, DispatchStep DEF signalOneTimer
  <1>2. Matched'
    BY <1>1, SignalIs, TParts DEF Matched, SignalsMatchQueue
  <1>3. SignalsT'
    <2>1. queue_head' \in -1 .. NUM_TIMERS - 1
      BY SignalIs, Sizes DEF Timers
    <2> QED BY <2>1, SignalIs, TParts DEF SignalsT
  <1>4. fired' \in Timers
    BY SignalIs, TParts DEF SignalsT
  <1>5. Others'
    BY <1>4, TParts DEF Others, signalOneTimer
  <1> QED BY <1>2, <1>3, <1>5, SignalIs, TParts, Kept, TypeParts DEF TInv, signalOneTimer

LEMMA TUserCodeReturns == TInv /\ UserCodeReturns => TInv'
  <1> SUFFICES ASSUME TInv, UserCodeReturns PROVE TInv'
    OBVIOUS
  <1>1. Matched' /\ Sched!TypeOK'
    BY TParts, ReturnTypes, MatchedKept DEF UserCodeReturns, signals
  <1>2. Others'
    BY TParts DEF Others, UserCodeReturns
  <1> QED BY <1>1, <1>2, TParts, Kept, TypeParts DEF TInv, UserCodeReturns

LEMMA TRunApp == TInv /\ RunApp => TInv'
  <1> SUFFICES ASSUME TInv, RunApp PROVE TInv'
    OBVIOUS
  <1>1. /\ Sched!TypeOK' /\ CountOf("App") = CountOf("App")' + 1
        /\ CountOf("signalOneTimer") = CountOf("signalOneTimer")' + 0
        /\ CountOf("signalOneTimer")' \in Nat /\ CountOf("App")' \in Nat
    BY TParts, DispatchStep DEF RunApp
  <1>2. Matched'
    BY <1>1, TParts, TimerAssumption DEF Matched, SignalsMatchQueue, RunApp, signals
  <1> QED BY <1>1, <1>2, TParts, Kept, TypeParts DEF TInv, RunApp

LEMMA TAppInterrupt == TInv /\ AppInterrupt => TInv'
  <1> SUFFICES ASSUME TInv, AppInterrupt PROVE TInv'
    OBVIOUS
  <1>1. Sched!Enqueue("App") /\ asleep' = FALSE /\ running' = running /\ CountOf("App") < MaxApps
    BY DEF AppInterrupt, Sched!InterruptPosts
  <1>2. "App" \in TaskNames
    BY DEF TaskNames
  <1>3. /\ fifo' \in Seq(TaskNames) /\ Len(fifo') <= Capacity /\ posted' \in BOOLEAN
        /\ CountOf("App")' <= CountOf("App") + 1
        /\ CountOf("signalOneTimer")' = CountOf("signalOneTimer") + 0
        /\ CountOf("App") \in Nat /\ CountOf("App")' \in Nat /\ CountOf("signalOneTimer") \in Nat
    BY <1>1, <1>2, TParts, PostStep
  <1>4. Sched!TypeOK'
    BY <1>1, <1>3, TParts DEF Sched!TypeOK
  <1>5. Matched'
    BY <1>1, <1>3, TParts, TimerAssumption
       DEF Matched, SignalsMatchQueue, AppInterrupt, signals
  <1> QED BY <1>4, <1>5, TParts, Kept, TypeParts DEF TInv, AppInterrupt

LEMMA TSleep == TInv /\ Sleep => TInv'
  <1> SUFFICES ASSUME TInv, Sleep PROVE TInv'
    OBVIOUS
  <1>1. Sched!TypeOK' /\ fifo' = fifo
    BY TParts DEF Sleep, Sched!Sleep, Sched!TypeOK
  <1>2. Matched'
    BY <1>1, TParts, MatchedKept DEF Sleep, signals
  <1> QED BY <1>1, <1>2, TParts, Kept, TypeParts DEF TInv, Sleep

LEMMA TSame == TInv /\ UNCHANGED vars => TInv'
  <1> SUFFICES ASSUME TInv, UNCHANGED vars PROVE TInv'
    OBVIOUS
  <1>1. Matched'
    BY TParts, MatchedKept DEF vars, tasks, signals
  <1> QED BY <1>1, TParts, Kept, TypeParts DEF TInv, vars

LEMMA TStep == TInv /\ [Next]_vars => TInv'
  <1> SUFFICES ASSUME TInv, [Next]_vars PROVE TInv'
    OBVIOUS
  <1>1. ASSUME Command PROVE TInv'
    <2>1. ASSUME NEW id \in Timers, NEW type \in Types, NEW interval \in Intervals,
                 Timer_start(id, type, interval)
          PROVE  TInv'
      BY <2>1, TTimer_start
    <2>2. ASSUME NEW id \in Timers, Timer_stop(id)
          PROVE  TInv'
      BY <2>2, TTimer_stop
    <2> QED BY <1>1, <2>1, <2>2, TStdControl_stop DEF Command
  <1>2. Next => Command \/ Tick \/ Clock_fire \/ HandleFire \/ HandleTimer \/ CheckOutstanding
                 \/ AdjustInterval \/ signalOneTimer \/ UserCodeReturns \/ RunApp
                 \/ AppInterrupt \/ Sleep
    BY DEF Next
  <1> QED BY <1>1, <1>2, TTick, TClock_fire, THandleFire, THandleTimer, TCheckOutstanding,
             TAdjustInterval, TsignalOneTimer, TUserCodeReturns, TRunApp, TAppInterrupt,
             TSleep, TSame

\* What is stored in a uint16_t fits.
Widths == {interval_outstanding, int_out} \subseteq 0 .. OutstandingMod - 1

LEMMA WidthsStep ==
  ASSUME TInv, Widths, [Next]_vars
  PROVE  Widths'
  <1>1. interval_outstanding' \in {interval_outstanding, 0, uint16(interval_outstanding + OCR0 + 1)}
    BY DEF Next, Tick, Clock_fire, Command, Timer_start, Timer_stop, StdControl_stop, HandleFire,
           HandleTimer, CheckOutstanding, AdjustInterval, signalOneTimer, UserCodeReturns, RunApp,
           AppInterrupt, Sleep, vars
  <1>2. int_out' \in {int_out, 0, interval_outstanding}
    BY DEF Next, Tick, Clock_fire, Command, Timer_start, Timer_stop, StdControl_stop, HandleFire,
           HandleTimer, HandleFireReturns, CheckOutstanding, AdjustInterval, signalOneTimer,
           UserCodeReturns, RunApp, AppInterrupt, Sleep, vars, locals
  <1>3. \A n \in Nat : uint16(n) \in 0 .. OutstandingMod - 1 /\ 0 \in 0 .. OutstandingMod - 1
    BY TimerAssumption DEF uint16
  <1>4. interval_outstanding + OCR0 + 1 \in Nat
    BY TParts, Sizes DEF Others, HardwareT
  <1> QED BY <1>1, <1>2, <1>3, <1>4 DEF Widths

\* A signalOneTimer waits for each entry, so there are no more than the task queue
\* holds.
LEMMA EntriesFit ==
  ASSUME TInv
  PROVE  queue_size \in 0 .. Capacity
  <1>1. Len(fifo) = CountOf("HandleFire") + CountOf("signalOneTimer") + CountOf("App")
    BY TParts, FifoLength
  <1>2. CountOf("HandleFire") \in Nat /\ CountOf("signalOneTimer") \in Nat /\ CountOf("App") \in Nat
    BY TParts, CountsAreNumbers
  <1>3. CountOf("signalOneTimer") = queue_size
    BY TParts DEF Matched, SignalsMatchQueue
  <1>5. Len(fifo) <= Capacity
    BY TParts DEF Sched!TypeOK
  <1>6. queue_size \in Nat
    BY TParts DEF SignalsT
  <1>4. Capacity \in Nat
    BY TimerAssumption
  <1> QED BY <1>1, <1>2, <1>3, <1>4, <1>5, <1>6

\* Type correctness: what the code keeps in uint8_t and uint16_t variables fits,
\* whatever is started, stopped or late: the intervals, the counts of ticks, and
\* the number of queued timers, which has no more room than the task queue.
THEOREM TimerTypeCorrect == Spec => []TypeOK
  <1>1. TInv /\ Widths => TypeOK
    <2> SUFFICES ASSUME TInv, Widths PROVE TypeOK
      OBVIOUS
    <2>1. queue_size \in 0 .. Capacity
      BY EntriesFit
    <2> QED BY <2>1, TParts DEF Widths, TypeOK, TimersT, SignalsT, HardwareT, LocalsT, Others
  <1>2. Init => Widths
    BY TimerAssumption DEF Init, Widths
  <1>3. TInv /\ Widths /\ [Next]_vars => Widths'
    BY WidthsStep
  <1> QED BY <1>1, <1>2, <1>3, TInit, TStep, PTL DEF Spec

\* Each signalOneTimer that waits has its entry in the queue, whichever posts fail.
THEOREM SignalsMatched == Spec => []SignalsMatchQueue
  <1>1. TInv => SignalsMatchQueue
    BY TParts DEF Matched
  <1> QED BY <1>1, TInit, TStep, PTL DEF Spec

-----------------------------------------------------------------------------
(***************************************************************************)
(* Counted ticks are handled.                                              *)
(***************************************************************************)

\* The places of the signals that wait behind a HandleFire.
Behind(q) ==
  {k \in DOMAIN q : /\ q[k] = "signalOneTimer"
                    /\ \E j \in DOMAIN q : j < k /\ q[j] = "HandleFire"}

\* How many timers the HandleFire that runs has looked at; all, if none runs.
Turn == IF handling = "timers" THEN i ELSE NUM_TIMERS

\* Since tasks are served in order, all signals that wait were posted by the last
\* two runs of HandleFire, those behind a HandleFire by the last run.
RInv ==
  /\ TInv
  /\ OutstandingIsHandled
  /\ OCF0 => interval_outstanding <= MaxLag
  /\ asleep => fifo = << >> /\ running = "none"
  /\ CountOf("signalOneTimer") <= NUM_TIMERS + Turn
  /\ Cardinality(Behind(fifo)) <= Turn

\* The task queue has room for two signals of each timer, for the tasks of the
\* program and for HandleFire, and the count of ticks does not overflow.
Bounded ==
  /\ Capacity >= 2 * NUM_TIMERS + MaxApps + 1
  /\ OutstandingMod > MaxLag + CounterMod

LEMMA BehindFinite ==
  ASSUME NEW S, NEW q \in Seq(S)
  PROVE  /\ IsFiniteSet(Behind(q)) /\ Cardinality(Behind(q)) \in Nat
         /\ Behind(q) \subseteq Places(q, "signalOneTimer")
         /\ Occurrences(q, "HandleFire") = 0 => Behind(q) = {}
  <1>1. Behind(q) \subseteq Places(q, "signalOneTimer")
    BY DEF Behind, Places
  <1>2. IsFiniteSet(Places(q, "signalOneTimer"))
    BY PlacesFinite
  <1>3. IsFiniteSet(Behind(q))
    BY <1>1, <1>2, FS_Subset
  <1>4. Occurrences(q, "HandleFire") = 0 => \A k \in DOMAIN q : q[k] # "HandleFire"
    BY PlacesFinite
  <1>5. Occurrences(q, "HandleFire") = 0 => Behind(q) = {}
    BY <1>4 DEF Behind
  <1> QED BY <1>1, <1>3, <1>5, FS_CardinalityType

LEMMA BehindAppend ==
  ASSUME NEW S, NEW q \in Seq(S), NEW u \in S
  PROVE  /\ u # "signalOneTimer" => Behind(Append(q, u)) = Behind(q)
         /\ Cardinality(Behind(Append(q, u))) <= Cardinality(Behind(q)) + 1
  <1> DEFINE a == Append(q, u)
             n == Len(q) + 1
             B == Behind(q)
             A == Behind(a)
  <1>1. /\ Len(q) \in Nat /\ DOMAIN q = 1 .. Len(q) /\ DOMAIN a = 1 .. Len(q) + 1
        /\ \A k \in DOMAIN q : a[k] = q[k]
        /\ a[n] = u /\ a \in Seq(S)
    OBVIOUS
  <1> HIDE DEF a
  <1>2. DOMAIN a = DOMAIN q \union {n} /\ \A k \in DOMAIN q : k < n /\ ~(n < k)
    BY <1>1
  <1>3. ASSUME NEW k \in A, k # n PROVE k \in B
    <2>1. k \in DOMAIN q /\ q[k] = "signalOneTimer"
      BY <1>1, <1>2, <1>3 DEF Behind
    <2>2. PICK j \in DOMAIN a : j < k /\ a[j] = "HandleFire"
      BY <1>3 DEF Behind
    <2>3. j \in DOMAIN q
      BY <1>2, <2>1, <2>2
    <2> QED BY <1>1, <2>1, <2>2, <2>3 DEF Behind
  <1>4. B \subseteq A
    BY <1>1, <1>2 DEF Behind
  <1>5. u # "signalOneTimer" => n \notin A
    BY <1>1 DEF Behind
  <1>6. A \subseteq B \union {n}
    BY <1>3
  <1>7. u # "signalOneTimer" => A = B
    BY <1>3, <1>4, <1>5
  <1>8. IsFiniteSet(B) /\ Cardinality(B) \in Nat
    BY BehindFinite
  <1> HIDE DEF A, B, n
  <1>9. /\ IsFiniteSet(B \union {n})
        /\ Cardinality(B \union {n}) = IF n \in B THEN Cardinality(B) ELSE Cardinality(B) + 1
    BY <1>8, FS_AddElement
  <1>10. IsFiniteSet(A) /\ Cardinality(A) <= Cardinality(B \union {n})
    BY <1>6, <1>9, FS_Subset
  <1>11. Cardinality(A) \in Nat
    BY <1>10, FS_CardinalityType
  <1>12. Cardinality(A) <= Cardinality(B) + 1
    BY <1>8, <1>9, <1>10, <1>11
  <1> QED BY <1>7, <1>12 DEF A, B, a

LEMMA BehindTail ==
  ASSUME NEW S, NEW q \in Seq(S), q # << >>
  PROVE  /\ Head(q) = "HandleFire" =>
              Cardinality(Behind(q)) = Occurrences(Tail(q), "signalOneTimer")
         /\ Head(q) # "HandleFire" => Cardinality(Behind(Tail(q))) <= Cardinality(Behind(q))
  <1> DEFINE r == Tail(q)
             P == Behind(q)
             R == Behind(r)
             f == [k \in R |-> k + 1]
  <1>1. /\ Len(q) \in Nat /\ DOMAIN q = 1 .. Len(q) /\ DOMAIN r = 1 .. Len(q) - 1
        /\ \A k \in DOMAIN r : r[k] = q[k + 1]
        /\ Head(q) = q[1] /\ 1 \in DOMAIN q /\ r \in Seq(S)
    OBVIOUS
  <1> HIDE DEF r
  <1>2. ASSUME Head(q) = "HandleFire"
        PROVE  Cardinality(P) = Occurrences(r, "signalOneTimer")
    <2>1. \A k \in DOMAIN q : q[k] = "signalOneTimer" => 1 < k
      BY <1>1, <1>2
    <2>2. P = Places(q, "signalOneTimer")
      BY <1>1, <1>2, <2>1 DEF Behind, Places
    <2>3. Occurrences(q, "signalOneTimer") = Occurrences(r, "signalOneTimer") + 0
      BY <1>2, CountTail DEF r
    <2>4. Occurrences(r, "signalOneTimer") \in Nat
      BY <1>1, PlacesFinite
    <2> QED BY <2>2, <2>3, <2>4 DEF Occurrences
  <1>3. Cardinality(R) <= Cardinality(P)
    <2>1. \A k \in DOMAIN r : k \in Int /\ k + 1 \in DOMAIN q
      BY <1>1
    <2>2. \A j, k \in DOMAIN r : j < k => j + 1 < k + 1
      BY <2>1
    <2>3. \A k \in R : k + 1 \in P /\ k \in Int
      <3> TAKE k \in R
      <3>1. k \in DOMAIN r /\ r[k] = "signalOneTimer"
        BY DEF Behind
      <3>2. PICK j \in DOMAIN r : j < k /\ r[j] = "HandleFire"
        BY DEF Behind
      <3>3. /\ k + 1 \in DOMAIN q /\ q[k + 1] = "signalOneTimer"
            /\ j + 1 \in DOMAIN q /\ q[j + 1] = "HandleFire" /\ j + 1 < k + 1
        BY <1>1, <2>1, <2>2, <3>1, <3>2
      <3> QED BY <2>1, <3>1, <3>3 DEF Behind
    <2>4. \A j, k \in Int : j + 1 = k + 1 => j = k
      OBVIOUS
    <2>5. f \in Injection(R, P)
      BY <2>3, <2>4 DEF Injection, IsInjective
    <2>6. IsFiniteSet(P)
      BY BehindFinite
    <2> HIDE DEF f, P, R
    <2> QED BY <2>5, <2>6, FS_Injection
  <1> QED BY <1>2, <1>3 DEF r

LEMMA RInit == Init => RInv
  <1> SUFFICES ASSUME Init PROVE RInv
    OBVIOUS
  <1>1. TInv /\ fifo = << >> /\ asleep = FALSE /\ OCF0 = FALSE
        /\ interval_outstanding = 0 /\ handling = "no"
    BY TInit DEF Init, Sched!Init
  <1>2. fifo \in Seq(TaskNames) /\ \A u : ~\E k \in DOMAIN fifo : fifo[k] = u
    BY <1>1
  <1>3. \A u : CountOf(u) = 0
    <2>1. \A u : Occurrences(fifo, u) = 0
      BY <1>2, PlacesFinite
    <2> QED BY <2>1, CountOfIs
  <1>4. Behind(fifo) = {} /\ Cardinality(Behind(fifo)) = 0
    <2>1. Behind(fifo) = {}
      BY <1>2 DEF Behind
    <2> QED BY <2>1, FS_EmptySet
  <1>5. Turn = NUM_TIMERS
    BY <1>1 DEF Turn
  <1> QED BY <1>1, <1>3, <1>4, <1>5, Sizes DEF RInv, OutstandingIsHandled

LEMMA TurnRange == TInv => Turn \in 0 .. NUM_TIMERS
  BY TParts, Sizes DEF Turn, LocalsT, Timers

\* Nothing waits while the processor sleeps.
LEMMA AsleepCounts ==
  ASSUME RInv, asleep
  PROVE  interval_outstanding = 0
  <1>1. fifo = << >> /\ fifo \in Seq(TaskNames)
    BY TParts DEF RInv
  <1>2. \A k \in DOMAIN fifo : fifo[k] # "HandleFire"
    BY <1>1
  <1>3. CountOf("HandleFire") = 0
    BY <1>1, <1>2, PlacesFinite, CountOfIs
  <1> QED BY <1>3, TParts DEF RInv, OutstandingIsHandled, Others

\* A compare match comes while the processor falls behind by MaxLag at most.
LEMMA MatchBounded ==
  /\ RInv /\ Tick => (OCF0' => interval_outstanding <= MaxLag)
  /\ \A n : RInv /\ SetInterval(n) => (OCF0' => interval_outstanding <= MaxLag)
  <1>1. ASSUME RInv, Tick PROVE OCF0' => interval_outstanding <= MaxLag
    <2>1. CASE asleep
      <3>1. interval_outstanding = 0
        BY <1>1, <2>1, AsleepCounts
      <3> QED BY <3>1, TimerAssumption
    <2>2. CASE ~asleep
      BY <1>1, <2>2 DEF Tick, Idle, WithinLag
    <2> QED BY <2>1, <2>2
  <1>2. ASSUME NEW n, RInv, SetInterval(n) PROVE OCF0' => interval_outstanding <= MaxLag
    BY <1>2 DEF SetInterval, WithinLag, RInv
  <1> QED BY <1>1, <1>2

\* A step that leaves the tasks that wait and the count of ticks as they are.
LEMMA RKept ==
  ASSUME RInv, TInv', UNCHANGED <<fifo, interval_outstanding>>,
         OCF0' => interval_outstanding <= MaxLag,
         asleep' => fifo' = << >> /\ running' = "none",
         Turn' \in Int, Turn' >= Turn
  PROVE  RInv'
  <1>1. \A u : CountOf(u)' = CountOf(u)
    BY SameCounts
  <1>2. OutstandingIsHandled'
    BY <1>1 DEF RInv, OutstandingIsHandled
  <1>3. Turn \in Nat /\ NUM_TIMERS \in Nat
    BY TurnRange, Sizes DEF RInv
  <1>4. CountOf("signalOneTimer") \in Nat /\ CountOf("signalOneTimer") <= NUM_TIMERS + Turn
    BY TParts, CountsAreNumbers DEF RInv
  <1>5. CountOf("signalOneTimer")' <= NUM_TIMERS + Turn'
    BY <1>1, <1>3, <1>4
  <1>6. Cardinality(Behind(fifo')) <= Turn'
    <2>1. Cardinality(Behind(fifo)) \in Nat /\ Cardinality(Behind(fifo)) <= Turn
      BY TParts, BehindFinite DEF RInv
    <2> QED BY <1>3, <2>1
  <1>7. Behind(fifo)' = Behind(fifo')
    BY DEF Behind
  <1>8. OCF0' => interval_outstanding' <= MaxLag
    OBVIOUS
  <1>9. asleep' => fifo' = << >> /\ running' = "none"
    OBVIOUS
  <1> QED BY <1>2, <1>5, <1>6, <1>7, <1>8, <1>9 DEF RInv

LEMMA RSame ==
  ASSUME RInv, TInv', UNCHANGED <<tasks, interval_outstanding, locals>>,
         OCF0' => interval_outstanding <= MaxLag
  PROVE  RInv'
  <1>1. Turn' = Turn /\ Turn \in Int
    BY TurnRange DEF Turn, locals, RInv
  <1>2. UNCHANGED <<fifo, interval_outstanding, asleep, running>>
    BY DEF tasks
  <1>3. Turn' >= Turn
    BY <1>1
  <1>4. asleep' => fifo' = << >> /\ running' = "none"
    BY <1>2 DEF RInv
  <1> QED BY <1>1, <1>2, <1>3, <1>4, RKept

LEMMA RTick == RInv /\ Tick => RInv'
  <1> SUFFICES ASSUME RInv, Tick PROVE RInv'
    OBVIOUS
  <1>1. TInv' /\ UNCHANGED <<tasks, interval_outstanding, locals>>
    BY TTick DEF RInv, Tick
  <1> QED BY <1>1, RSame, MatchBounded

LEMMA RCommand == RInv /\ Command => RInv'
  <1> SUFFICES ASSUME RInv, Command PROVE RInv'
    OBVIOUS
  <1>1. TInv'
    BY TStep DEF RInv, Next
  <1>2. /\ UNCHANGED <<tasks, interval_outstanding, locals>>
        /\ OCF0' = OCF0 \/ \E n : SetInterval(n)
    <2>1. ASSUME NEW id \in Timers, NEW type \in Types, NEW interval \in Intervals,
                 Timer_start(id, type, interval)
          PROVE  /\ UNCHANGED <<tasks, interval_outstanding, locals>>
                 /\ OCF0' = OCF0 \/ \E n : SetInterval(n)
      BY <2>1 DEF Timer_start, hardware
    <2>2. ASSUME NEW id \in Timers, Timer_stop(id)
          PROVE  UNCHANGED <<tasks, interval_outstanding, locals>> /\ OCF0' = OCF0
      BY <2>2 DEF Timer_stop, hardware
    <2>3. StdControl_stop => UNCHANGED <<tasks, interval_outstanding, locals>> /\ OCF0' = OCF0
      BY DEF StdControl_stop, hardware
    <2> QED BY <2>1, <2>2, <2>3 DEF Command
  <1>3. OCF0' => interval_outstanding <= MaxLag
    BY <1>2, MatchBounded DEF RInv
  <1> QED BY <1>1, <1>2, <1>3, RSame

\* There is room for HandleFire when it does not wait.
LEMMA RoomForHandleFire ==
  ASSUME RInv, Bounded, interval_outstanding = 0
  PROVE  Sched!HasRoom
  <1>1. fifo \in Seq(TaskNames) /\ CountOf("HandleFire") = 0 /\ CountOf("App") <= MaxApps
    BY TParts DEF RInv, OutstandingIsHandled, Matched
  <1>2. CountOf("signalOneTimer") <= NUM_TIMERS + Turn /\ Turn \in 0 .. NUM_TIMERS
    BY TurnRange DEF RInv
  <1>3. /\ CountOf("signalOneTimer") \in Nat /\ CountOf("App") \in Nat
        /\ Len(fifo) = 0 + CountOf("signalOneTimer") + CountOf("App")
    BY <1>1, CountsAreNumbers, FifoLength
  <1>4. Len(fifo) < Capacity
    BY <1>1, <1>2, <1>3, Sizes, TimerAssumption DEF Bounded
  <1> QED BY <1>4 DEF Sched!HasRoom

LEMMA RClock_fire == RInv /\ Bounded /\ Clock_fire => RInv'
  <1> SUFFICES ASSUME RInv, Bounded, Clock_fire PROVE RInv'
    OBVIOUS
  <1>1. TInv' /\ TInv
    BY TClock_fire DEF RInv
  <1>2. OCF0 /\ OCF0' = FALSE /\ UNCHANGED locals
        /\ interval_outstanding' = uint16(interval_outstanding + OCR0 + 1)
    BY DEF Clock_fire
  <1>3. interval_outstanding' = interval_outstanding + OCR0 + 1 /\ interval_outstanding' > 0
    <2>1. /\ interval_outstanding \in Nat /\ interval_outstanding <= MaxLag
          /\ OCR0 \in 0 .. CounterMod - 1
      BY <1>1, <1>2, TParts DEF RInv, Others, HardwareT
    <2>2. /\ interval_outstanding + OCR0 + 1 \in Nat
          /\ interval_outstanding + OCR0 + 1 < OutstandingMod
          /\ interval_outstanding + OCR0 + 1 > 0
      BY <2>1, TimerAssumption DEF Bounded
    <2> QED BY <1>2, <2>2, Narrow16
  <1>4. Turn' = Turn
    BY <1>2 DEF Turn, locals
  <1>5. CASE interval_outstanding = 0
    <2>1. Sched!Enqueue("HandleFire") /\ asleep' = FALSE
      BY <1>5 DEF Clock_fire, Sched!InterruptPosts
    <2>2. Sched!HasRoom
      BY <1>5, RoomForHandleFire
    <2>3. fifo' = Append(fifo, "HandleFire") /\ fifo \in Seq(TaskNames)
          /\ "HandleFire" \in TaskNames
      BY <1>1, <2>1, <2>2, TParts DEF Sched!Enqueue, TaskNames
    <2>4. /\ CountOf("HandleFire")' = CountOf("HandleFire") + 1
          /\ CountOf("signalOneTimer")' = CountOf("signalOneTimer") + 0
          /\ CountOf("signalOneTimer") \in Nat
      BY <1>1, <2>1, <2>2, <2>3, TParts, PostStep
    <2>5. CountOf("HandleFire") = 0
      BY <1>5 DEF RInv, OutstandingIsHandled
    <2>6. OutstandingIsHandled'
      BY <1>3, <2>4, <2>5 DEF OutstandingIsHandled
    <2>7. Behind(fifo)' = Behind(fifo)
      <3>1. Behind(Append(fifo, "HandleFire")) = Behind(fifo)
        BY <2>3, BehindAppend
      <3> QED BY <2>3, <3>1 DEF Behind
    <2> QED BY <1>1, <1>2, <1>4, <2>1, <2>4, <2>6, <2>7 DEF RInv
  <1>6. CASE interval_outstanding # 0
    <2>1. fifo' = fifo /\ asleep' = FALSE
      BY <1>6 DEF Clock_fire, Sched!InterruptOnly
    <2>2. interval_outstanding > 0
      BY <1>1, <1>6, TParts DEF Others
    <2>3. OutstandingIsHandled'
      BY <1>3, <2>1, <2>2, SameCounts DEF RInv, OutstandingIsHandled
    <2>4. CountOf("signalOneTimer")' = CountOf("signalOneTimer") /\ Behind(fifo)' = Behind(fifo)
      BY <2>1, SameCounts DEF Behind
    <2> QED BY <1>1, <1>2, <1>4, <2>1, <2>3, <2>4 DEF RInv
  <1> QED BY <1>5, <1>6

LEMMA RHandleFire == RInv /\ HandleFire => RInv'
  <1> SUFFICES ASSUME RInv, HandleFire PROVE RInv'
    OBVIOUS
  <1>1. TInv' /\ TInv /\ fifo \in Seq(TaskNames)
    BY THandleFire, TParts DEF RInv
  <1>2. /\ Sched!Dispatch /\ running' = "HandleFire" /\ Turn' = 0
        /\ interval_outstanding' = 0 /\ OCF0' = OCF0
    BY DEF HandleFire, hardware, Turn
  <1>3. /\ fifo # << >> /\ Head(fifo) = "HandleFire" /\ fifo' = Tail(fifo)
        /\ asleep = FALSE /\ asleep' = asleep
    BY <1>1, <1>2, TParts DEF Sched!Dispatch, Sched!TypeOK
  <1>4. /\ CountOf("HandleFire") = CountOf("HandleFire")' + 1
        /\ CountOf("HandleFire")' \in Nat
    BY <1>1, <1>2, TParts, DispatchStep
  <1>5. CountOf("HandleFire")' = 0
    BY <1>4 DEF RInv, OutstandingIsHandled
  <1>6. OutstandingIsHandled'
    BY <1>2, <1>5 DEF OutstandingIsHandled
  <1>7. CountOf("signalOneTimer")' <= NUM_TIMERS
    <2>1. CountOf("signalOneTimer")' = Cardinality(Behind(fifo))
      BY <1>1, <1>3, BehindTail, CountOfIs
    <2>2. Cardinality(Behind(fifo)) \in Nat /\ Cardinality(Behind(fifo)) <= Turn
          /\ Turn \in 0 .. NUM_TIMERS
      BY <1>1, BehindFinite, TurnRange DEF RInv
    <2> QED BY <2>1, <2>2, Sizes
  <1>8. Cardinality(Behind(fifo)') = 0
    <2>1. fifo' \in Seq(TaskNames) /\ Occurrences(fifo', "HandleFire") = 0
      BY <1>1, <1>3, <1>5, CountOfIs
    <2>2. Behind(fifo') = {}
      <3> DEFINE q == fifo'
      <3>1. q \in Seq(TaskNames) /\ Occurrences(q, "HandleFire") = 0
        BY <2>1
      <3> HIDE DEF q
      <3>2. Behind(q) = {}
        BY <3>1, BehindFinite
      <3> QED BY <3>2 DEF q
    <2>3. Behind(fifo)' = {}
      BY <2>2 DEF Behind
    <2> QED BY <2>3, FS_EmptySet
  <1>9. CountOf("signalOneTimer")' <= NUM_TIMERS + Turn'
    BY <1>2, <1>7, Sizes
  <1>10. OCF0' => interval_outstanding' <= MaxLag
    BY <1>2, TimerAssumption
  <1>11. Cardinality(Behind(fifo)') <= Turn'
    BY <1>2, <1>8
  <1> QED BY <1>1, <1>3, <1>6, <1>9, <1>10, <1>11 DEF RInv

LEMMA RHandleTimer == RInv /\ HandleTimer => RInv'
  <1> SUFFICES ASSUME RInv, HandleTimer PROVE RInv'
    OBVIOUS
  <1>1. TInv' /\ TInv /\ fifo \in Seq(TaskNames)
    BY THandleTimer, TParts DEF RInv
  <1>2. Turn' = Turn + 1 /\ Turn \in 0 .. NUM_TIMERS
    <2>1. Turn = i /\ Turn \in 0 .. NUM_TIMERS
      BY <1>1, TurnRange DEF HandleTimer, Turn
    <2>2. Turn' = IF i = NUM_TIMERS - 1 THEN NUM_TIMERS ELSE i + 1
      BY DEF HandleTimer, Turn
    <2> QED BY <2>1, <2>2, Sizes
  <1>3. UNCHANGED <<interval_outstanding, OCF0>>
    BY DEF HandleTimer, hardware
  <1>4. CASE UNCHANGED tasks
    <2>1. UNCHANGED <<fifo, asleep, running>>
      BY <1>4 DEF tasks
    <2>2. Turn' \in Int /\ Turn' >= Turn
      BY <1>2
    <2>3. OCF0' => interval_outstanding <= MaxLag
      BY <1>3 DEF RInv
    <2>4. asleep' => fifo' = << >> /\ running' = "none"
      BY <2>1 DEF RInv
    <2> QED BY <1>1, <1>3, <2>1, <2>2, <2>3, <2>4, RKept
  <1>5. ASSUME NEW left \in Int, Expire(left) PROVE RInv'
    <2>1. /\ running # "none" /\ UNCHANGED <<running, asleep>>
          /\ Sched!Enqueue("signalOneTimer")
          /\ CountOf("HandleFire")' = CountOf("HandleFire")
          /\ CountOf("signalOneTimer")'
               = CountOf("signalOneTimer") + (IF Sched!HasRoom THEN 1 ELSE 0)
      BY <1>1, <1>5, ExpirePosts
    <2>2. OutstandingIsHandled'
      BY <1>3, <2>1 DEF RInv, OutstandingIsHandled
    <2>3. CountOf("signalOneTimer")' <= NUM_TIMERS + Turn'
      <3>1. CountOf("signalOneTimer") \in Nat /\ CountOf("signalOneTimer") <= NUM_TIMERS + Turn
        BY <1>1, CountsAreNumbers DEF RInv
      <3> QED BY <1>2, <2>1, <3>1, Sizes
    <2>4. Cardinality(Behind(fifo)') <= Turn'
      <3>1. Cardinality(Behind(fifo)) \in Nat /\ Cardinality(Behind(fifo)) <= Turn
        BY <1>1, BehindFinite DEF RInv
      <3>2. "signalOneTimer" \in TaskNames
        BY DEF TaskNames
      <3>3. CASE fifo' = fifo
        <4>1. Behind(fifo)' = Behind(fifo)
          BY <3>3 DEF Behind
        <4> QED BY <1>2, <3>1, <4>1
      <3>4. CASE fifo' = Append(fifo, "signalOneTimer")
        <4> DEFINE a == Append(fifo, "signalOneTimer")
        <4>1. Cardinality(Behind(a)) <= Cardinality(Behind(fifo)) + 1
          BY <1>1, <3>2, BehindAppend
        <4>2. Behind(fifo)' = Behind(a)
          BY <3>4 DEF Behind
        <4>3. Cardinality(Behind(a)) \in Nat
          <5>1. a \in Seq(TaskNames)
            BY <1>1, <3>2
          <5> HIDE DEF a
          <5> QED BY <5>1, BehindFinite
        <4> HIDE DEF a
        <4> QED BY <1>2, <3>1, <4>1, <4>2, <4>3
      <3> QED BY <2>1, <3>3, <3>4 DEF Sched!Enqueue
    <2>5. ~asleep'
      BY <2>1 DEF RInv
    <2>6. OCF0' => interval_outstanding' <= MaxLag
      BY <1>3 DEF RInv
    <2> QED BY <1>1, <2>2, <2>3, <2>4, <2>5, <2>6 DEF RInv
  <1>6. mTimerList[i].ticksLeft - int_out \in Int
    BY <1>1, TParts DEF TimersT, LocalsT
  <1> QED BY <1>1, <1>4, <1>5, <1>6, TurnIs

LEMMA RReturns ==
  ASSUME RInv, TInv', Sched!Return, UNCHANGED interval_outstanding, Turn' = Turn,
         OCF0' => interval_outstanding <= MaxLag
  PROVE  RInv'
  <1>1. UNCHANGED <<fifo, asleep>> /\ running' = "none"
    BY ReturnTypes DEF RInv
  <1>2. Turn' \in Int /\ Turn' >= Turn
    BY TurnRange DEF RInv
  <1>3. asleep' => fifo' = << >> /\ running' = "none"
    BY <1>1 DEF RInv
  <1> QED BY <1>1, <1>2, <1>3, RKept

LEMMA RCheckOutstanding == RInv /\ CheckOutstanding => RInv'
  <1> SUFFICES ASSUME RInv, CheckOutstanding PROVE RInv'
    OBVIOUS
  <1>1. TInv' /\ UNCHANGED <<interval_outstanding, OCF0>> /\ handling = "check"
    BY TCheckOutstanding DEF RInv, CheckOutstanding, hardware
  <1>2. handling' \in {"adjust", "no"}
    BY DEF CheckOutstanding, HandleFireReturns
  <1>3. Turn' = Turn
    BY <1>1, <1>2 DEF Turn
  <1>4. UNCHANGED tasks \/ Sched!Return
    BY DEF CheckOutstanding, HandleFireReturns
  <1>5. OCF0' => interval_outstanding <= MaxLag
    BY <1>1 DEF RInv
  <1>6. CASE UNCHANGED tasks
    <2>1. UNCHANGED <<fifo, asleep, running>>
      BY <1>6 DEF tasks
    <2>2. Turn' \in Int /\ Turn' >= Turn
      BY <1>3, TurnRange DEF RInv
    <2>3. asleep' => fifo' = << >> /\ running' = "none"
      BY <2>1 DEF RInv
    <2> QED BY <1>1, <1>5, <2>1, <2>2, <2>3, RKept
  <1>7. CASE Sched!Return
    BY <1>1, <1>3, <1>5, <1>7, RReturns
  <1> QED BY <1>4, <1>6, <1>7

LEMMA RAdjustInterval == RInv /\ AdjustInterval => RInv'
  <1> SUFFICES ASSUME RInv, AdjustInterval PROVE RInv'
    OBVIOUS
  <1>1. /\ TInv' /\ UNCHANGED interval_outstanding /\ Sched!Return
        /\ \E n : SetInterval(n)
    BY TAdjustInterval DEF RInv, AdjustInterval, HandleFireReturns
  <1>2. Turn' = Turn
    BY DEF AdjustInterval, HandleFireReturns, Turn
  <1>3. OCF0' => interval_outstanding <= MaxLag
    BY <1>1, MatchBounded
  <1> QED BY <1>1, <1>2, <1>3, RReturns

\* A dispatch of another task than HandleFire.
LEMMA RDispatch ==
  ASSUME RInv, TInv', Sched!Dispatch, running' # "HandleFire",
         UNCHANGED <<interval_outstanding, OCF0, locals>>
  PROVE  RInv'
  <1>1. TInv /\ fifo \in Seq(TaskNames) /\ Turn' = Turn /\ Turn \in 0 .. NUM_TIMERS
    BY TParts, TurnRange DEF RInv, Turn, locals
  <1>2. /\ fifo # << >> /\ Head(fifo) # "HandleFire" /\ fifo' = Tail(fifo)
        /\ asleep = FALSE /\ asleep' = asleep
    BY <1>1, TParts DEF Sched!Dispatch, Sched!TypeOK
  <1>3. /\ CountOf("HandleFire") = CountOf("HandleFire")' + 0
        /\ CountOf("signalOneTimer")
             = CountOf("signalOneTimer")' + (IF "signalOneTimer" = running' THEN 1 ELSE 0)
        /\ CountOf("HandleFire")' \in Nat /\ CountOf("signalOneTimer")' \in Nat
    BY <1>1, TParts, DispatchStep
  <1>4. OutstandingIsHandled'
    BY <1>3 DEF RInv, OutstandingIsHandled
  <1>5. CountOf("signalOneTimer")' <= NUM_TIMERS + Turn'
    BY <1>1, <1>3, Sizes DEF RInv
  <1>6. Cardinality(Behind(fifo)') <= Turn'
    <2> DEFINE r == Tail(fifo)
    <2>1. Cardinality(Behind(r)) <= Cardinality(Behind(fifo))
      BY <1>1, <1>2, BehindTail
    <2>2. Behind(fifo)' = Behind(r)
      BY <1>2 DEF Behind
    <2>3. r \in Seq(TaskNames)
      BY <1>1, <1>2
    <2> HIDE DEF r
    <2>4. Cardinality(Behind(r)) \in Nat /\ Cardinality(Behind(fifo)) \in Nat
      BY <1>1, <2>3, BehindFinite
    <2>5. Cardinality(Behind(fifo)) <= Turn
      BY DEF RInv
    <2> QED BY <1>1, <2>1, <2>2, <2>4, <2>5
  <1> QED BY <1>2, <1>4, <1>5, <1>6 DEF RInv

LEMMA RAppInterrupt == RInv /\ AppInterrupt => RInv'
  <1> SUFFICES ASSUME RInv, AppInterrupt PROVE RInv'
    OBVIOUS
  <1>1. /\ TInv' /\ TInv /\ fifo \in Seq(TaskNames) /\ Sched!Enqueue("App") /\ asleep' = FALSE
        /\ UNCHANGED <<interval_outstanding, OCF0, locals>>
    BY TAppInterrupt, TParts DEF RInv, AppInterrupt, Sched!InterruptPosts, hardware
  <1>2. "App" \in TaskNames
    BY DEF TaskNames
  <1>3. /\ CountOf("HandleFire")' = CountOf("HandleFire") + 0
        /\ CountOf("signalOneTimer")' = CountOf("signalOneTimer") + 0
        /\ CountOf("HandleFire") \in Nat /\ CountOf("signalOneTimer") \in Nat
    BY <1>1, <1>2, TParts, PostStep
  <1>4. Turn' = Turn
    BY <1>1 DEF Turn, locals
  <1>5. OutstandingIsHandled'
    BY <1>1, <1>3 DEF RInv, OutstandingIsHandled
  <1>6. CountOf("signalOneTimer")' <= NUM_TIMERS + Turn'
    BY <1>3, <1>4 DEF RInv
  <1>7. Behind(fifo)' = Behind(fifo)
    <2>1. Behind(Append(fifo, "App")) = Behind(fifo)
      BY <1>1, <1>2, BehindAppend
    <2>2. fifo' = fifo \/ fifo' = Append(fifo, "App")
      BY <1>1 DEF Sched!Enqueue
    <2> QED BY <2>1, <2>2 DEF Behind
  <1> QED BY <1>1, <1>4, <1>5, <1>6, <1>7 DEF RInv

LEMMA RStep == RInv /\ Bounded /\ [Next]_vars => RInv'
  <1> SUFFICES ASSUME RInv, Bounded, [Next]_vars PROVE RInv'
    OBVIOUS
  <1>1. TInv'
    BY TStep DEF RInv
  <1>2. Next => Command \/ Tick \/ Clock_fire \/ HandleFire \/ HandleTimer \/ CheckOutstanding
                 \/ AdjustInterval \/ signalOneTimer \/ UserCodeReturns \/ RunApp
                 \/ AppInterrupt \/ Sleep
    BY DEF Next
  <1>3. ASSUME signalOneTimer \/ RunApp PROVE RInv'
    <2>1. Sched!Dispatch /\ running' # "HandleFire"
          /\ UNCHANGED <<interval_outstanding, OCF0, locals>>
      BY <1>3 DEF signalOneTimer, RunApp, hardware
    <2> QED BY <1>1, <2>1, RDispatch
  <1>4. ASSUME UserCodeReturns PROVE RInv'
    <2>1. Sched!Return /\ UNCHANGED <<interval_outstanding, OCF0, locals>>
      BY <1>4 DEF UserCodeReturns, hardware
    <2>2. Turn' = Turn
      BY <2>1 DEF Turn, locals
    <2>3. OCF0' => interval_outstanding <= MaxLag
      BY <2>1 DEF RInv
    <2> QED BY <1>1, <2>1, <2>2, <2>3, RReturns
  <1>5. ASSUME Sleep PROVE RInv'
    <2>1. /\ fifo = << >> /\ running = "none" /\ UNCHANGED <<fifo, running>>
          /\ UNCHANGED <<interval_outstanding, OCF0, locals>>
      BY <1>5 DEF Sleep, Sched!Sleep, hardware
    <2>2. Turn' \in Int /\ Turn' >= Turn
      <3>1. Turn' = Turn /\ Turn \in Int
        BY <2>1, TurnRange DEF Turn, locals, RInv
      <3> QED BY <3>1
    <2>3. OCF0' => interval_outstanding <= MaxLag
      BY <2>1 DEF RInv
    <2> QED BY <1>1, <2>1, <2>2, <2>3, RKept
  <1>6. ASSUME UNCHANGED vars PROVE RInv'
    <2>1. UNCHANGED <<tasks, interval_outstanding, locals>> /\ OCF0' = OCF0
      BY <1>6 DEF vars, hardware
    <2>2. OCF0' => interval_outstanding <= MaxLag
      BY <2>1 DEF RInv
    <2> QED BY <1>1, <2>1, <2>2, RSame
  <1> QED BY <1>2, <1>3, <1>4, <1>5, <1>6, RTick, RCommand, RClock_fire, RHandleFire,
             RHandleTimer, RCheckOutstanding, RAdjustInterval, RAppInterrupt

\* HandleFire waits exactly when ticks are outstanding: it is never posted twice,
\* and the count of ticks never stands without a task to take it.
THEOREM OutstandingCorrect ==
  ASSUME Capacity >= 2 * NUM_TIMERS + MaxApps + 1,
         OutstandingMod > MaxLag + CounterMod
  PROVE  Spec => []OutstandingIsHandled
  <1>1. Bounded
    BY DEF Bounded
  <1>2. RInv /\ [Next]_vars => RInv'
    BY <1>1, RStep
  <1>3. RInv => OutstandingIsHandled
    BY DEF RInv
  <1> QED BY <1>2, <1>3, RInit, PTL DEF Spec

-----------------------------------------------------------------------------
(***************************************************************************)
(* Time.  A processor that keeps up finishes all work between two ticks,   *)
(* and no other interrupt comes while ticks await HandleFire.              *)
(***************************************************************************)

\* There is room for a signal of each timer and the program's tasks, the count
\* holds one period, and no timer repeats every three ticks, which is sooner
\* than adjustInterval allows for once the timer is a tick late.
KeepsUp ==
  /\ ~Lag
  /\ ~Coincide
  /\ 3 \in Intervals => "TIMER_REPEAT" \notin Types
  /\ Capacity >= NUM_TIMERS + MaxApps
  /\ OutstandingMod > maxTimerInterval + 1

HistoryT == due \in [Timers -> Int] /\ owed \in [Timers -> BOOLEAN]

\* Ticks are counted while nothing else is to do, and handled at once.
Resting ==
  /\ asleep => running = "none" /\ fifo = << >>
  /\ OCF0 => asleep
  /\ interval_outstanding > 0 =>
       /\ fifo = <<"HandleFire">> /\ running = "none" /\ ~asleep
       /\ interval_outstanding = OCR0 + 1
  /\ interval_outstanding = 0 => CountOf("HandleFire") = 0
  /\ handling # "no" => running = "HandleFire"

\* The counter stands at zero from the compare match until HandleFire is done.
Clock ==
  /\ OCF0 \/ interval_outstanding > 0 \/ handling # "no" => TCNT0 = 0
  /\ TCNT0 <= OCR0
  /\ OCR0 <= mInterval
  /\ mInterval <= maxTimerInterval
  /\ handling = "timers" => int_out = OCR0 + 1 /\ queue_size <= i

\* HandleFire has looked at timer t.
Handled(t) == handling # "no" /\ (handling = "timers" => t < i)

\* The interval never exceeds the time that is left for a timer.
TimeLeft ==
  /\ \A t \in Timers : mState[t] /\ ~Handled(t) => mTimerList[t].ticksLeft >= mInterval
  /\ \A t \in Timers : mState[t] /\ Handled(t) => mTimerList[t].ticksLeft >= 3
  /\ \A t \in Timers :
       mState[t] /\ mTimerList[t].type = "TIMER_REPEAT" => mTimerList[t].ticks >= 4

\* The slots of the ring that queue is, from its head.
Slot(n) == (queue_head + n) % NUM_TIMERS

Ring ==
  /\ queue_size <= NUM_TIMERS
  /\ queue_size = 0 => queue_tail = queue_head
  /\ queue_size > 0 => queue_tail = Slot(queue_size)

HInv ==
  /\ TInv
  /\ HistoryT
  /\ Resting
  /\ Clock
  /\ TimeLeft
  /\ Ring
  /\ TimeIsAccounted
  /\ OneShotFires

\* The numbers of the model.
LEMMA HTypes ==
  ASSUME TInv, HistoryT
  PROVE  /\ TCNT0 \in 0 .. CounterMod - 1 /\ OCR0 \in 0 .. CounterMod - 1
         /\ mInterval \in 0 .. CounterMod - 1
         /\ OCF0 \in BOOLEAN /\ interval_outstanding \in Nat /\ queue_size \in Nat
         /\ i \in Timers /\ i \in Nat /\ int_out \in Nat
         /\ handling \in {"no", "timers", "check", "adjust"}
         /\ mState \in [Timers -> BOOLEAN]
         /\ \A t \in Timers : /\ mTimerList[t].ticksLeft \in Int /\ mTimerList[t].ticks \in Nat
                              /\ due[t] \in Int
  BY TParts, Sizes DEF TimersT, SignalsT, HardwareT, LocalsT, Others, HistoryT

\* Nothing is counted while a task runs.
LEMMA Quiet ==
  ASSUME HInv, running # "none"
  PROVE  ~asleep /\ OCF0 = FALSE /\ interval_outstanding = 0
  <1>1. interval_outstanding \in Nat /\ OCF0 \in BOOLEAN
    BY HTypes DEF HInv
  <1> QED BY <1>1 DEF HInv, Resting

LEMMA HInit == HistoryInit => HInv
  <1> SUFFICES ASSUME HistoryInit PROVE HInv
    OBVIOUS
  <1>1. /\ TInv /\ fifo = << >> /\ asleep = FALSE /\ OCF0 = FALSE
        /\ interval_outstanding = 0 /\ handling = "no" /\ TCNT0 = 0 /\ OCR0 = maxTimerInterval
        /\ mInterval = maxTimerInterval /\ queue_size = 0 /\ queue_tail = queue_head
        /\ mState = [t \in Timers |-> FALSE] /\ owed = [t \in Timers |-> FALSE]
        /\ due = [t \in Timers |-> 0]
    BY TInit DEF HistoryInit, Init, Sched!Init
  <1>2. CountOf("HandleFire") = 0
    <2>1. fifo \in Seq(TaskNames) /\ \A k \in DOMAIN fifo : fifo[k] # "HandleFire"
      BY <1>1
    <2> QED BY <2>1, PlacesFinite, CountOfIs
  <1>3. HistoryT /\ Resting /\ Ring
    BY <1>1, <1>2, Sizes DEF HistoryT, Resting, Ring
  <1>4. Clock
    BY <1>1, Sizes DEF Clock
  <1>5. TimeLeft /\ TimeIsAccounted /\ OneShotFires
    BY <1>1 DEF TimeLeft, TimeIsAccounted, OneShotFires
  <1> QED BY <1>1, <1>3, <1>4, <1>5 DEF HInv

\* Steps that leave the timers, the counter and HandleFire as they are.
LEMMA TimeKept ==
  ASSUME HInv,
         UNCHANGED <<mState, mTimerList, mInterval, hardware, interval_outstanding, locals, due>>,
         handling = "timers" => queue_size' = queue_size
  PROVE  Clock' /\ TimeLeft' /\ TimeIsAccounted'
  <1>1. Clock'
    BY DEF HInv, Clock, hardware, locals
  <1>2. TimeLeft'
    BY DEF HInv, TimeLeft, Handled, locals
  <1>3. TimeIsAccounted'
    BY DEF HInv, TimeIsAccounted, Untaken, hardware, locals
  <1> QED BY <1>1, <1>2, <1>3

LEMMA RingKept ==
  ASSUME Ring, OneShotFires, UNCHANGED <<signals, owed>>
  PROVE  Ring' /\ OneShotFires'
  BY DEF Ring, OneShotFires, Slot, Queued, signals

\* What Running leaves of a time.
LEMMA RunningIs ==
  ASSUME HistoryT, TimersT', NEW d \in [Timers -> Int], due' = Running(d)
  PROVE  /\ due' \in [Timers -> Int]
         /\ \A t \in Timers : mState'[t] => due'[t] = d[t]
  BY DEF Running, TimersT

LEMMA HTick == KeepsUp /\ HInv /\ Tick /\ due' = Running(Passed) /\ UNCHANGED owed => HInv'
  <1> SUFFICES ASSUME KeepsUp, HInv, Tick, due' = Running(Passed), UNCHANGED owed PROVE HInv'
    OBVIOUS
  <1>0. TInv /\ HistoryT /\ Resting /\ Clock /\ TimeLeft /\ TimeIsAccounted
    BY DEF HInv
  <1>1. TInv' /\ TimersT'
    BY <1>0, TTick, TypeParts DEF TInv
  <1>2. /\ asleep /\ OCF0 = FALSE /\ running = "none" /\ fifo = << >> /\ Count
        /\ UNCHANGED <<timers, signals, interval_outstanding, OCR0, tasks, locals>>
    <2>1. OCF0 \in BOOLEAN
      BY <1>0, HTypes
    <2> QED BY <1>0, <2>1 DEF Tick, Idle, WithinLag, KeepsUp, Resting
  <1>3. interval_outstanding = 0 /\ handling = "no"
    BY <1>0, <1>2, HTypes DEF Resting
  <1>4. /\ TCNT0 = OCR0 => TCNT0' = 0 /\ OCF0' = TRUE
        /\ TCNT0 # OCR0 => TCNT0' = TCNT0 + 1 /\ OCF0' = FALSE
    <2>1. TCNT0 # OCR0 => TCNT0 + 1 \in 0 .. CounterMod - 1
      BY <1>0, HTypes, Sizes DEF Clock
    <2>2. TCNT0 # OCR0 => uint8(TCNT0 + 1) = TCNT0 + 1
      BY <2>1, Narrow
    <2> QED BY <1>2, <2>2 DEF Count
  <1>5. Resting'
    BY <1>0, <1>2, <1>3, SameCounts DEF Resting, tasks, locals
  <1>6. Clock'
    <2>1. OCR0' = OCR0 /\ mInterval' = mInterval /\ handling' = "no" /\ interval_outstanding' = 0
      BY <1>2, <1>3 DEF timers, locals
    <2>2. TCNT0 <= OCR0 /\ OCR0 <= mInterval /\ mInterval <= maxTimerInterval
      BY <1>0 DEF Clock
    <2>3. TCNT0 \in Int /\ OCR0 \in Int
      BY <1>0, HTypes
    <2>4. TCNT0' <= OCR0 /\ (OCF0' => TCNT0' = 0)
      BY <1>0, <1>4, <2>2, <2>3, HTypes
    <2> QED BY <2>1, <2>2, <2>4 DEF Clock
  <1>7. TimeLeft'
    BY <1>0, <1>2 DEF TimeLeft, Handled, timers, locals
  <1>8. Passed \in [Timers -> Int]
    BY <1>0, HTypes, HistoryAssumption DEF Passed
  <1>9. /\ due' \in [Timers -> Int]
        /\ \A t \in Timers : mState'[t] => due'[t] = Passed[t]
    BY <1>0, <1>1, <1>8, RunningIs
  <1>10. TimeIsAccounted'
    <2>1. SUFFICES ASSUME NEW t \in Timers, mState'[t]
                   PROVE  mTimerList'[t].ticksLeft - Untaken(t)' = due'[t] + TCNT0'
      BY DEF TimeIsAccounted
    <2>2. mState[t] /\ mTimerList' = mTimerList /\ ~Handled(t)
      BY <1>2, <1>3, <2>1 DEF timers, Handled
    <2>3. /\ Untaken(t) = 0
          /\ Untaken(t)' = IF OCF0' THEN OCR0 + 1 ELSE 0
      <3>1. Untaken(t) = 0 + 0 + 0
        BY <1>2, <1>3 DEF Untaken
      <3>2. Untaken(t)' = 0 + (IF OCF0' THEN OCR0 + 1 ELSE 0) + 0
        BY <1>2, <1>3 DEF Untaken, locals
      <3> QED BY <1>0, <3>1, <3>2, HTypes
    <2> DEFINE left == mTimerList[t].ticksLeft
               d == due[t]
    <2>4. /\ left \in Int /\ d \in Int /\ left - 0 = d + TCNT0 /\ left >= mInterval
          /\ mInterval \in Nat /\ TCNT0 \in Nat /\ OCR0 \in Nat
          /\ TCNT0 <= OCR0 /\ OCR0 <= mInterval
      BY <1>0, <2>2, <2>3, HTypes DEF TimeIsAccounted, TimeLeft, Clock
    <2>5. due'[t] = Passed[t]
      BY <1>9, <2>1
    <2>6. Passed[t] = IF d > -Overdue THEN d - 1 ELSE d
      BY DEF Passed
    <2> HIDE DEF left, d
    <2>7. d > -Overdue
      BY <2>4, HistoryAssumption
    <2>8. left - (IF OCF0' THEN OCR0 + 1 ELSE 0) = (d - 1) + TCNT0'
      <3>1. CASE TCNT0 = OCR0
        BY <1>4, <2>4, <3>1
      <3>2. CASE TCNT0 # OCR0
        BY <1>4, <2>4, <3>2
      <3> QED BY <3>1, <3>2
    <2> QED BY <2>2, <2>3, <2>5, <2>6, <2>7, <2>8 DEF left
  <1>11. Ring' /\ OneShotFires'
    BY <1>2, RingKept DEF HInv
  <1>12. HistoryT'
    BY <1>0, <1>9 DEF HistoryT
  <1> QED BY <1>1, <1>5, <1>6, <1>7, <1>10, <1>11, <1>12 DEF HInv

\* A command runs while the clock rests.
LEMMA CommandState ==
  ASSUME HInv, UserCode
  PROVE  /\ ~asleep /\ OCF0 = FALSE /\ interval_outstanding = 0 /\ handling = "no"
         /\ \A t : ~Handled(t) /\ Untaken(t) = 0
  <1>1. running # "none" /\ running # "HandleFire"
    BY TimerAssumption DEF UserCode
  <1>2. ~asleep /\ OCF0 = FALSE /\ interval_outstanding = 0 /\ handling = "no"
    BY <1>1, Quiet DEF HInv, Resting
  <1>3. \A t : ~Handled(t)
    BY <1>2 DEF Handled
  <1>4. \A t : Untaken(t) = 0 + 0 + 0
    BY <1>2 DEF Untaken
  <1> QED BY <1>2, <1>3, <1>4

LEMMA HTimer_start ==
  ASSUME KeepsUp, HInv, NEW id \in Timers, NEW type \in Types, NEW interval \in Intervals,
         Timer_start(id, type, interval), due' = [due EXCEPT ![id] = interval], UNCHANGED owed
  PROVE  HInv'
  <1>0. TInv /\ HistoryT /\ Resting /\ Clock /\ TimeLeft /\ TimeIsAccounted
    BY DEF HInv
  <1>1. TInv'
    BY <1>0, TTimer_start
  <1> DEFINE n == interval + TCNT0
  <1>2. /\ UserCode /\ ~(type = "TIMER_REPEAT" /\ interval <= 2)
        /\ mState' = [mState EXCEPT ![id] = TRUE]
        /\ mTimerList' = [mTimerList EXCEPT ![id] =
             [type |-> type, ticks |-> interval, ticksLeft |-> n]]
        /\ UNCHANGED <<signals, interval_outstanding, tasks, locals>>
    BY DEF Timer_start
  <1>3. UNCHANGED <<TCNT0, OCF0>>
    BY DEF Timer_start, SetInterval, WithinLag, KeepsUp, hardware
  <1>4. \/ n < mInterval /\ mInterval' = n /\ OCR0' = n
        \/ ~(n < mInterval) /\ mInterval' = mInterval /\ OCR0' = OCR0
    BY DEF Timer_start, SetInterval, hardware
  <1>5. /\ OCF0 = FALSE /\ interval_outstanding = 0 /\ handling = "no"
        /\ \A t : ~Handled(t) /\ Untaken(t) = 0
    BY <1>2, CommandState
  <1>6. /\ OCF0' = FALSE /\ interval_outstanding' = 0 /\ handling' = "no"
        /\ \A t : ~Handled(t)' /\ Untaken(t)' = 0
    <2>1. OCF0' = FALSE /\ interval_outstanding' = 0 /\ handling' = "no"
      BY <1>2, <1>3, <1>5 DEF locals
    <2>2. \A t : Untaken(t)' = 0 + 0 + 0
      BY <2>1 DEF Untaken
    <2> QED BY <2>1, <2>2 DEF Handled
  <1>7. /\ interval \in Nat /\ TCNT0 \in Nat /\ OCR0 \in Nat /\ mInterval \in Nat
        /\ n = interval + TCNT0
        /\ maxTimerInterval \in Nat
        /\ TCNT0 <= OCR0 /\ OCR0 <= mInterval /\ mInterval <= maxTimerInterval
    BY <1>0, HTypes, TimerAssumption, Sizes DEF Clock
  <1>8. /\ mTimerList'[id] = [type |-> type, ticks |-> interval, ticksLeft |-> n]
        /\ \A t \in Timers : t # id => /\ mTimerList'[t] = mTimerList[t] /\ mState'[t] = mState[t]
                                       /\ due'[t] = due[t]
        /\ due'[id] = interval
    BY <1>0, <1>2, TParts DEF TimersT, HistoryT
  <1> HIDE DEF n
  <1>9. HistoryT'
    BY <1>0, <1>7 DEF HistoryT
  <1>10. Resting'
    BY <1>0, <1>2, <1>5, <1>6, SameCounts DEF Resting, tasks
  <1>11. Clock'
    BY <1>3, <1>4, <1>6, <1>7 DEF Clock
  <1>12. TimeLeft'
    <2>1. ASSUME NEW t \in Timers, mState'[t]
          PROVE  mTimerList'[t].ticksLeft >= mInterval'
      <3>1. CASE t = id
        BY <1>4, <1>7, <1>8, <3>1
      <3>2. CASE t # id
        <4>1. mTimerList'[t].ticksLeft = mTimerList[t].ticksLeft /\ mState[t]
          BY <1>8, <2>1, <3>2
        <4>2. mTimerList[t].ticksLeft >= mInterval /\ mTimerList[t].ticksLeft \in Int
          BY <1>0, <1>5, <4>1, HTypes DEF TimeLeft
        <4> QED BY <1>4, <1>7, <4>1, <4>2
      <3> QED BY <3>1, <3>2
    <2>2. ASSUME NEW t \in Timers, mState'[t], mTimerList'[t].type = "TIMER_REPEAT"
          PROVE  mTimerList'[t].ticks >= 4
      <3>1. CASE t = id
        BY <1>2, <1>7, <1>8, <2>2, <3>1 DEF KeepsUp
      <3>2. CASE t # id
        BY <1>0, <1>8, <2>2, <3>2 DEF TimeLeft
      <3> QED BY <3>1, <3>2
    <2> QED BY <1>6, <2>1, <2>2 DEF TimeLeft
  <1>13. TimeIsAccounted'
    <2>1. SUFFICES ASSUME NEW t \in Timers, mState'[t]
                   PROVE  mTimerList'[t].ticksLeft - 0 = due'[t] + TCNT0
      BY <1>3, <1>6 DEF TimeIsAccounted
    <2>2. CASE t = id
      BY <1>7, <1>8, <2>2
    <2>3. CASE t # id
      <3>1. mTimerList'[t].ticksLeft = mTimerList[t].ticksLeft /\ mState[t] /\ due'[t] = due[t]
        BY <1>8, <2>1, <2>3
      <3>2. mTimerList[t].ticksLeft - 0 = due[t] + TCNT0
        BY <1>0, <1>5, <3>1 DEF TimeIsAccounted
      <3> QED BY <3>1, <3>2
    <2> QED BY <2>2, <2>3
  <1>14. Ring' /\ OneShotFires'
    BY <1>2, RingKept DEF HInv
  <1> QED BY <1>1, <1>9, <1>10, <1>11, <1>12, <1>13, <1>14 DEF HInv

\* A command that stops timers and may allow for a longer interval.
LEMMA HStops ==
  ASSUME HInv, TInv', UserCode,
         \A t \in Timers : mState'[t] => mState[t] /\ mInterval' = mInterval,
         mInterval' \in {mInterval, maxTimerInterval}, due' = Running(due),
         UNCHANGED <<mTimerList, signals, interval_outstanding, hardware, tasks, locals, owed>>
  PROVE  HInv'
  <1>0. TInv /\ HistoryT /\ Resting /\ Clock /\ TimeLeft /\ TimeIsAccounted
    BY DEF HInv
  <1>1. HistoryT' /\ \A t \in Timers : mState'[t] => due'[t] = due[t]
    <2>1. TimersT' /\ due \in [Timers -> Int]
      BY <1>0, TypeParts DEF TInv, HistoryT
    <2> QED BY <1>0, <2>1, RunningIs DEF HistoryT
  <1>2. Resting'
    BY <1>0, SameCounts DEF Resting, tasks, hardware, locals
  <1>3. Clock'
    <2>1. /\ mInterval \in Nat /\ maxTimerInterval \in Nat /\ OCR0 \in Nat
          /\ OCR0 <= mInterval /\ mInterval <= maxTimerInterval
      BY <1>0, HTypes, Sizes DEF Clock
    <2>2. OCR0 <= mInterval' /\ mInterval' <= maxTimerInterval
      BY <2>1
    <2> QED BY <1>0, <2>2 DEF Clock, hardware, locals, signals
  <1>4. TimeLeft'
    BY <1>0 DEF TimeLeft, Handled, locals
  <1>5. TimeIsAccounted'
    <2>1. \A t \in Timers : Untaken(t)' = Untaken(t)
      BY DEF Untaken, hardware, locals
    <2> QED BY <1>0, <1>1, <2>1 DEF TimeIsAccounted, hardware
  <1>6. Ring' /\ OneShotFires'
    BY RingKept DEF HInv
  <1> QED BY <1>1, <1>2, <1>3, <1>4, <1>5, <1>6 DEF HInv

LEMMA HTimer_stop ==
  ASSUME HInv, NEW id \in Timers, Timer_stop(id), due' = Running(due), UNCHANGED owed
  PROVE  HInv'
  <1>1. TInv /\ TInv'
    BY TTimer_stop DEF HInv
  <1>2. \A t \in Timers : mState'[t] => mState[t] /\ mInterval' = mInterval
    BY <1>1, TParts DEF Timer_stop, TimersT
  <1> QED BY <1>1, <1>2, HStops DEF Timer_stop

LEMMA HStdControl_stop ==
  ASSUME HInv, StdControl_stop, due' = Running(due), UNCHANGED owed
  PROVE  HInv'
  <1>1. TInv'
    BY TStdControl_stop DEF HInv
  <1>2. \A t \in Timers : mState'[t] => mState[t] /\ mInterval' = mInterval
    BY DEF StdControl_stop
  <1> QED BY <1>1, <1>2, HStops DEF StdControl_stop

LEMMA HClock_fire == KeepsUp /\ HInv /\ Clock_fire /\ UNCHANGED <<due, owed>> => HInv'
  <1> SUFFICES ASSUME KeepsUp, HInv, Clock_fire, UNCHANGED <<due, owed>> PROVE HInv'
    OBVIOUS
  <1>0. TInv /\ HistoryT /\ Resting /\ Clock /\ TimeLeft /\ TimeIsAccounted
    BY DEF HInv
  <1>1. TInv'
    BY <1>0, TClock_fire
  <1>2. /\ OCF0 /\ OCF0' = FALSE /\ UNCHANGED <<timers, signals, TCNT0, OCR0, locals>>
        /\ interval_outstanding' = uint16(interval_outstanding + OCR0 + 1)
    BY DEF Clock_fire
  <1>3. asleep /\ running = "none" /\ fifo = << >> /\ interval_outstanding = 0 /\ handling = "no"
    BY <1>0, <1>2, HTypes DEF Resting
  <1>4. Sched!Enqueue("HandleFire") /\ asleep' = FALSE /\ running' = running
    BY <1>2, <1>3 DEF Clock_fire, Sched!InterruptPosts
  <1>5. fifo' = <<"HandleFire">>
    <2>1. Sched!HasRoom
      BY <1>3, TimerAssumption DEF Sched!HasRoom
    <2>2. fifo' = Append(<< >>, "HandleFire")
      BY <1>3, <1>4, <2>1 DEF Sched!Enqueue
    <2> QED BY <2>2
  <1>6. interval_outstanding' = OCR0 + 1 /\ OCR0 \in Nat
    <2>1. OCR0 \in Nat /\ OCR0 + 1 \in Nat /\ OCR0 + 1 < OutstandingMod
      BY <1>0, HTypes, Sizes, TimerAssumption DEF Clock, KeepsUp
    <2>2. uint16(OCR0 + 1) = OCR0 + 1
      BY <2>1, Narrow16
    <2>3. interval_outstanding + OCR0 + 1 = OCR0 + 1
      BY <1>3, <2>1
    <2> QED BY <1>2, <2>1, <2>2, <2>3
  <1>7. Resting'
    BY <1>2, <1>3, <1>4, <1>5, <1>6 DEF Resting, locals
  <1>8. Clock'
    BY <1>0, <1>2, <1>3 DEF Clock, timers, locals, signals
  <1>9. TimeLeft'
    BY <1>0, <1>2 DEF TimeLeft, Handled, timers, locals
  <1>10. TimeIsAccounted'
    <2>1. ASSUME NEW t \in Timers PROVE Untaken(t)' = Untaken(t)
      <3>1. Untaken(t) = 0 + (OCR0 + 1) + 0
        BY <1>2, <1>3 DEF Untaken
      <3>2. Untaken(t)' = (OCR0 + 1) + 0 + 0
        BY <1>2, <1>3, <1>6 DEF Untaken, locals
      <3> QED BY <1>6, <3>1, <3>2
    <2> QED BY <1>0, <1>2, <2>1 DEF TimeIsAccounted, timers
  <1>11. Ring' /\ OneShotFires'
    BY <1>2, RingKept DEF HInv
  <1>12. HistoryT'
    BY <1>0 DEF HistoryT
  <1> QED BY <1>1, <1>7, <1>8, <1>9, <1>10, <1>11, <1>12 DEF HInv

LEMMA HHandleFire == HInv /\ HandleFire /\ UNCHANGED <<due, owed>> => HInv'
  <1> SUFFICES ASSUME HInv, HandleFire, UNCHANGED <<due, owed>> PROVE HInv'
    OBVIOUS
  <1>0. TInv /\ HistoryT /\ Resting /\ Clock /\ TimeLeft /\ TimeIsAccounted
    BY DEF HInv
  <1>1. TInv'
    BY <1>0, THandleFire
  <1>2. /\ Sched!Dispatch /\ running' = "HandleFire" /\ int_out' = interval_outstanding
        /\ interval_outstanding' = 0 /\ handling' = "timers" /\ i' = 0
        /\ UNCHANGED <<timers, signals, hardware>>
    BY DEF HandleFire
  <1>3. /\ CountOf("HandleFire") = CountOf("HandleFire")' + 1 /\ CountOf("HandleFire")' \in Nat
        /\ running = "none" /\ ~asleep
    BY <1>0, <1>2, TParts, DispatchStep DEF Sched!Dispatch
  <1>4. interval_outstanding > 0 /\ interval_outstanding = OCR0 + 1 /\ fifo = <<"HandleFire">>
    <2>1. interval_outstanding # 0
      BY <1>0, <1>3 DEF Resting
    <2> QED BY <1>0, <2>1, HTypes DEF Resting
  <1>5. OCF0 = FALSE /\ TCNT0 = 0 /\ handling = "no"
    BY <1>0, <1>3, <1>4, HTypes DEF Resting, Clock
  <1>6. fifo' = << >> /\ asleep' = FALSE
    <2>1. fifo' = Tail(<<"HandleFire">>)
      BY <1>2, <1>4 DEF Sched!Dispatch
    <2> QED BY <1>0, <1>3, <2>1, <1>2, TParts DEF Sched!Dispatch, Sched!TypeOK
  <1>7. \A u : CountOf(u)' = 0
    <2>1. \A u : Places(fifo', u) = {}
      BY <1>6 DEF Places
    <2>2. \A u : Occurrences(fifo', u) = 0
      BY <2>1, FS_EmptySet DEF Occurrences
    <2> QED BY <2>2, CountOfIs
  <1>8. queue_size' = 0
    BY <1>1, <1>7, TypeParts DEF TInv, Matched, SignalsMatchQueue
  <1>9. Resting'
    BY <1>2, <1>5, <1>6, <1>7 DEF Resting, hardware
  <1>10. Clock'
    BY <1>0, <1>2, <1>4, <1>5, <1>8 DEF Clock, hardware, timers
  <1>11. \A t \in Timers : ~Handled(t) /\ ~Handled(t)'
    BY <1>2, <1>5, Sizes DEF Handled
  <1>12. TimeLeft'
    BY <1>0, <1>2, <1>11 DEF TimeLeft, timers
  <1>13. TimeIsAccounted'
    <2>1. ASSUME NEW t \in Timers PROVE Untaken(t)' = Untaken(t)
      <3>1. Untaken(t) = (OCR0 + 1) + 0 + 0
        BY <1>4, <1>5 DEF Untaken
      <3>2. Untaken(t)' = 0 + 0 + (OCR0 + 1)
        BY <1>2, <1>4, <1>5, Sizes DEF Untaken, hardware
      <3>3. OCR0 \in Nat
        BY <1>0, HTypes
      <3> QED BY <3>1, <3>2, <3>3
    <2> QED BY <1>0, <1>2, <2>1 DEF TimeIsAccounted, timers, hardware
  <1>14. Ring' /\ OneShotFires'
    BY <1>2, RingKept DEF HInv
  <1>15. HistoryT'
    BY <1>0 DEF HistoryT
  <1> QED BY <1>1, <1>9, <1>10, <1>12, <1>13, <1>14, <1>15 DEF HInv

-----------------------------------------------------------------------------
(***************************************************************************)
(* The ring of timers to be signalled.                                     *)
(***************************************************************************)

\* The index that follows h.
Following(h) == IF h = NUM_TIMERS - 1 THEN 0 ELSE h + 1

LEMMA Remainder ==
  ASSUME NEW h \in -1 .. NUM_TIMERS - 1, NEW n \in 1 .. NUM_TIMERS
  PROVE  /\ (h + n) % NUM_TIMERS = IF h + n < NUM_TIMERS THEN h + n ELSE h + n - NUM_TIMERS
         /\ (h + n) % NUM_TIMERS \in Timers
  BY Sizes DEF Timers

LEMMA SlotsDiffer ==
  ASSUME NEW h \in -1 .. NUM_TIMERS - 1,
         NEW m \in 1 .. NUM_TIMERS, NEW n \in 1 .. NUM_TIMERS,
         (h + m) % NUM_TIMERS = (h + n) % NUM_TIMERS
  PROVE  m = n
  <1> DEFINE a == (h + m) % NUM_TIMERS
             b == (h + n) % NUM_TIMERS
  <1>1. /\ a = IF h + m < NUM_TIMERS THEN h + m ELSE h + m - NUM_TIMERS
        /\ b = IF h + n < NUM_TIMERS THEN h + n ELSE h + n - NUM_TIMERS
    BY Remainder
  <1>2. a = b
    OBVIOUS
  <1> HIDE DEF a, b
  <1> QED BY <1>1, <1>2, Sizes

LEMMA FollowingIs ==
  ASSUME NEW h \in -1 .. NUM_TIMERS - 1
  PROVE  /\ Following(h) \in Timers /\ Following(h) \in -1 .. NUM_TIMERS - 1
         /\ Following(h) = (h + 1) % NUM_TIMERS
         /\ \A n \in 1 .. NUM_TIMERS - 1 :
              /\ Following((h + n) % NUM_TIMERS) = (h + (n + 1)) % NUM_TIMERS
              /\ (Following(h) + n) % NUM_TIMERS = (h + (n + 1)) % NUM_TIMERS
  <1>1. NUM_TIMERS \in Nat \ {0} /\ 1 \in 1 .. NUM_TIMERS
    BY Sizes
  <1>2. Following(h) \in Timers /\ Following(h) \in -1 .. NUM_TIMERS - 1
    BY <1>1 DEF Following, Timers
  <1>3. Following(h) = (h + 1) % NUM_TIMERS
    BY <1>1, Remainder DEF Following
  <1>4. ASSUME NEW n \in 1 .. NUM_TIMERS - 1
        PROVE  /\ Following((h + n) % NUM_TIMERS) = (h + (n + 1)) % NUM_TIMERS
               /\ (Following(h) + n) % NUM_TIMERS = (h + (n + 1)) % NUM_TIMERS
    <2>1. n \in 1 .. NUM_TIMERS /\ n + 1 \in 1 .. NUM_TIMERS
      BY <1>1
    <2>2. (h + n) % NUM_TIMERS = IF h + n < NUM_TIMERS THEN h + n ELSE h + n - NUM_TIMERS
      BY <2>1, Remainder
    <2>3. (h + (n + 1)) % NUM_TIMERS
            = IF h + (n + 1) < NUM_TIMERS THEN h + (n + 1) ELSE h + (n + 1) - NUM_TIMERS
      BY <2>1, Remainder
    <2>4. (Following(h) + n) % NUM_TIMERS
            = IF Following(h) + n < NUM_TIMERS THEN Following(h) + n
                                               ELSE Following(h) + n - NUM_TIMERS
      BY <1>2, <2>1, Remainder
    <2> DEFINE a == (h + n) % NUM_TIMERS
               b == (h + (n + 1)) % NUM_TIMERS
               c == (Following(h) + n) % NUM_TIMERS
    <2> HIDE DEF a, b, c
    <2>5. /\ a = IF h + n < NUM_TIMERS THEN h + n ELSE h + n - NUM_TIMERS
          /\ b = IF h + (n + 1) < NUM_TIMERS THEN h + (n + 1) ELSE h + (n + 1) - NUM_TIMERS
          /\ c = IF Following(h) + n < NUM_TIMERS THEN Following(h) + n
                                                  ELSE Following(h) + n - NUM_TIMERS
      BY <2>2, <2>3, <2>4 DEF a, b, c
    <2>6. Following(a) = b /\ c = b
      BY <1>1, <2>5 DEF Following
    <2> QED BY <2>6 DEF a, b, c
  <1> QED BY <1>2, <1>3, <1>4

LEMMA QueuedIs ==
  /\ Queued = {queue[Slot(n)] : n \in 1 .. queue_size}
  /\ Queued' = {queue'[(queue_head' + n) % NUM_TIMERS] : n \in 1 .. queue_size'}
  BY DEF Queued, Slot

\* enqueue adds the timer behind the others.
LEMMA EnqueueStep ==
  ASSUME SignalsT, Ring, queue_size < NUM_TIMERS, NEW t \in Timers, enqueue(t)
  PROVE  Ring' /\ t \in Queued' /\ Queued \subseteq Queued'
  <1> DEFINE last == Following(queue_tail)
             s == queue_size
  <1>1. /\ queue_tail' = last /\ queue' = [queue EXCEPT ![last] = t]
        /\ queue_head' = queue_head /\ queue_size' = s + 1
    BY DEF enqueue, Following
  <1>2. /\ s \in Nat /\ queue_head \in -1 .. NUM_TIMERS - 1 /\ queue \in [Timers -> Timers]
        /\ queue_tail \in -1 .. NUM_TIMERS - 1 /\ NUM_TIMERS \in Nat \ {0} /\ s < NUM_TIMERS
    BY Sizes DEF SignalsT
  <1>3. s + 1 \in 1 .. NUM_TIMERS
    BY <1>2
  <1>4. last = Slot(s + 1)
    <2>1. CASE s = 0
      <3>1. queue_tail = queue_head
        BY <2>1 DEF Ring
      <3>2. last = (queue_head + 1) % NUM_TIMERS
        BY <1>2, <3>1, FollowingIs
      <3>3. s + 1 = 1
        BY <2>1
      <3> QED BY <3>2, <3>3 DEF Slot
    <2>2. CASE s # 0
      <3>1. s > 0 /\ s \in 1 .. NUM_TIMERS - 1
        BY <1>2, <2>2
      <3>2. queue_tail = (queue_head + s) % NUM_TIMERS
        BY <3>1 DEF Ring, Slot
      <3>3. Following((queue_head + s) % NUM_TIMERS) = (queue_head + (s + 1)) % NUM_TIMERS
        BY <1>2, <3>1, FollowingIs
      <3> QED BY <3>2, <3>3 DEF Slot
    <2> QED BY <2>1, <2>2
  <1>5. \A n \in 1 .. NUM_TIMERS : Slot(n) \in Timers
    BY <1>2, Remainder DEF Slot
  <1>6. \A n \in 1 .. NUM_TIMERS : n # s + 1 => Slot(n) # last
    BY <1>2, <1>3, <1>4, SlotsDiffer DEF Slot
  <1>7. \A n : Slot(n)' = Slot(n)
    BY <1>1 DEF Slot
  <1> HIDE DEF last
  <1>8. /\ queue'[Slot(s + 1)] = t
        /\ \A n \in 1 .. NUM_TIMERS : n # s + 1 => queue'[Slot(n)] = queue[Slot(n)]
    BY <1>1, <1>2, <1>3, <1>4, <1>5, <1>6
  <1>9. Queued' = {queue'[Slot(n)] : n \in 1 .. s + 1}
    BY <1>1, QueuedIs DEF Slot
  <1>10. t \in Queued'
    <2>1. s + 1 \in 1 .. s + 1
      BY <1>2
    <2> QED BY <1>8, <1>9, <2>1
  <1>11. Queued \subseteq Queued'
    <2>1. \A n \in 1 .. s : n \in 1 .. s + 1 /\ n \in 1 .. NUM_TIMERS /\ n # s + 1
      BY <1>2
    <2> QED BY <1>8, <1>9, <2>1, QueuedIs
  <1>12. Ring'
    <2>1. queue_size' <= NUM_TIMERS /\ queue_size' # 0 /\ queue_size' = s + 1
      BY <1>1, <1>2
    <2>2. queue_tail' = Slot(queue_size)'
      BY <1>1, <1>4 DEF Slot
    <2> QED BY <2>1, <2>2 DEF Ring
  <1> QED BY <1>10, <1>11, <1>12

\* dequeue takes the oldest.
LEMMA DequeueStep ==
  ASSUME SignalsT, Ring, queue_size > 0,
         queue_head' = Following(queue_head), queue_size' = queue_size - 1,
         UNCHANGED <<queue, queue_tail>>
  PROVE  Ring' /\ Queued \subseteq Queued' \union {queue[queue_head']}
  <1> DEFINE h == queue_head'
             s == queue_size
  <1>1. /\ s \in Nat /\ s > 0 /\ s <= NUM_TIMERS
        /\ queue_head \in -1 .. NUM_TIMERS - 1 /\ NUM_TIMERS \in Nat \ {0}
    BY Sizes DEF SignalsT, Ring
  <1>2. /\ h \in -1 .. NUM_TIMERS - 1 /\ h = Slot(1)
        /\ \A n \in 1 .. NUM_TIMERS - 1 : (h + n) % NUM_TIMERS = Slot(n + 1)
    BY <1>1, FollowingIs DEF Slot
  <1>3. queue_tail = Slot(s)
    BY <1>1 DEF Ring
  <1>4. Ring'
    <2>1. CASE s = 1
      BY <1>1, <1>2, <1>3, <2>1 DEF Ring
    <2>2. CASE s # 1
      <3>1. s - 1 \in 1 .. NUM_TIMERS - 1 /\ (s - 1) + 1 = s /\ s - 1 > 0 /\ s - 1 <= NUM_TIMERS
            /\ s - 1 # 0
        BY <1>1, <2>2
      <3>2. Slot(queue_size)' = (h + (s - 1)) % NUM_TIMERS
        BY DEF Slot
      <3>3. (h + (s - 1)) % NUM_TIMERS = Slot(s)
        BY <1>2, <3>1
      <3> QED BY <1>3, <3>1, <3>2, <3>3 DEF Ring
    <2> QED BY <2>1, <2>2
  <1>5. Queued' = {queue[(h + n) % NUM_TIMERS] : n \in 1 .. s - 1}
    BY QueuedIs
  <1>6. ASSUME NEW n \in 1 .. s, n # 1 PROVE queue[Slot(n)] \in Queued'
    <2>1. n - 1 \in 1 .. s - 1 /\ n - 1 \in 1 .. NUM_TIMERS - 1 /\ (n - 1) + 1 = n
      BY <1>1, <1>6
    <2>2. Slot(n) = (h + (n - 1)) % NUM_TIMERS
      BY <1>2, <2>1
    <2> QED BY <1>5, <2>1, <2>2
  <1>7. queue[Slot(1)] = queue[h]
    BY <1>2
  <1> HIDE DEF h, s
  <1>8. Queued \subseteq Queued' \union {queue[h]}
    BY <1>6, <1>7, QueuedIs DEF s
  <1> QED BY <1>4, <1>8 DEF h

-----------------------------------------------------------------------------
(***************************************************************************)
(* HandleFire keeps the books.                                             *)
(***************************************************************************)

\* The state of affairs when HandleFire looks at timer i.
LEMMA TurnBegins ==
  ASSUME KeepsUp, HInv, HandleTimer
  PROVE  /\ handling = "timers" /\ running = "HandleFire" /\ ~asleep
         /\ OCF0 = FALSE /\ interval_outstanding = 0 /\ TCNT0 = 0 /\ int_out = OCR0 + 1
         /\ queue_size \in Nat /\ queue_size <= i /\ queue_size < NUM_TIMERS
         /\ Sched!HasRoom
         /\ mTimerList[i].ticksLeft - int_out \in Int
         /\ mState[i] => /\ mTimerList[i].ticksLeft - int_out = due[i]
                         /\ mTimerList[i].ticksLeft - int_out >= -1
  <1>0. TInv /\ HistoryT /\ Resting /\ Clock /\ TimeLeft /\ TimeIsAccounted
    BY DEF HInv
  <1>1. handling = "timers" /\ running = "HandleFire"
    BY <1>0 DEF HandleTimer, Resting
  <1>2. ~asleep /\ OCF0 = FALSE /\ interval_outstanding = 0
    BY <1>1, Quiet
  <1>3. TCNT0 = 0 /\ int_out = OCR0 + 1 /\ queue_size <= i
    BY <1>0, <1>1 DEF Clock
  <1>4. /\ queue_size \in Nat /\ i \in Timers /\ OCR0 \in Nat /\ mInterval \in Nat /\ i \in Nat
        /\ mTimerList[i].ticksLeft \in Int /\ due[i] \in Int
    BY <1>0, HTypes
  <1>5. queue_size < NUM_TIMERS
    BY <1>3, <1>4, Sizes DEF Timers
  <1>6. Sched!HasRoom
    <2>1. /\ fifo \in Seq(TaskNames) /\ CountOf("signalOneTimer") = queue_size
          /\ CountOf("HandleFire") = 0 /\ CountOf("App") <= MaxApps
      BY <1>0, <1>2, TParts DEF Matched, SignalsMatchQueue, Resting
    <2>2. Len(fifo) = 0 + queue_size + CountOf("App") /\ CountOf("App") \in Nat
      BY <2>1, FifoLength, CountsAreNumbers
    <2>3. Len(fifo) < Capacity
      BY <1>4, <1>5, <2>1, <2>2, Sizes, TimerAssumption DEF KeepsUp
    <2> QED BY <2>3 DEF Sched!HasRoom
  <1>7. ASSUME mState[i]
        PROVE  /\ mTimerList[i].ticksLeft - int_out = due[i]
               /\ mTimerList[i].ticksLeft - int_out >= -1
    <2>1. ~Handled(i) /\ Untaken(i) = 0 + 0 + int_out
      BY <1>1, <1>2, <1>4 DEF Handled, Untaken
    <2>2. mTimerList[i].ticksLeft >= mInterval /\ OCR0 <= mInterval
      BY <1>0, <1>4, <1>7, <2>1 DEF TimeLeft, Clock
    <2>3. mTimerList[i].ticksLeft - int_out = due[i] + 0
      BY <1>0, <1>3, <1>4, <1>7, <2>1 DEF TimeIsAccounted
    <2> DEFINE n == mTimerList[i].ticksLeft
               d == due[i]
    <2> HIDE DEF n, d
    <2>4. n \in Int /\ d \in Int /\ n >= mInterval /\ n - int_out = d + 0
      BY <1>4, <2>2, <2>3 DEF n, d
    <2>5. n - int_out = d /\ n - int_out >= -1
      BY <1>3, <1>4, <2>2, <2>4
    <2> QED BY <2>5 DEF n, d
  <1>8. mTimerList[i].ticksLeft - int_out \in Int
    BY <1>3, <1>4
  <1> QED BY <1>1, <1>2, <1>3, <1>4, <1>5, <1>6, <1>7, <1>8

\* What the turn leaves of timer i, and of the others.
LEMMA TurnEnds ==
  ASSUME KeepsUp, HInv, HandleTimer, due' = Running(NextPeriod)
  PROVE  /\ \A t \in Timers : t # i => mTimerList'[t] = mTimerList[t] /\ mState'[t] = mState[t]
         /\ mState'[i] => /\ mState[i]
                          /\ mTimerList'[i].ticksLeft \in Int /\ mTimerList'[i].ticksLeft >= 3
                          /\ mTimerList'[i].type = mTimerList[i].type
                          /\ mTimerList'[i].ticks = mTimerList[i].ticks
                          /\ mTimerList'[i].ticksLeft = due'[i]
         /\ \A t \in Timers : mState'[t] /\ t # i => due'[t] = due[t]
         /\ due' \in [Timers -> Int]
         /\ \/ UNCHANGED signals /\ mState' = mState
            \/ enqueue(i) /\ due[i] \in -1 .. 2 /\ mState[i]
  <1> DEFINE left == mTimerList[i].ticksLeft - int_out
  <1>0. /\ TInv /\ HistoryT /\ TimersT /\ i \in Timers /\ TInv' /\ TimersT' /\ queue_size \in Nat
    <2>1. TInv /\ TInv'
      BY THandleTimer DEF HInv
    <2> QED BY <2>1, TParts, TypeParts DEF HInv, TInv, LocalsT, SignalsT
  <1>1. /\ handling = "timers" /\ Sched!HasRoom /\ left \in Int
        /\ mState[i] => left = due[i] /\ left >= -1
    BY TurnBegins
  <1>2. /\ \A t \in Timers : t # i => NextPeriod[t] = due[t]
        /\ queue_size' = queue_size => NextPeriod[i] = due[i]
        /\ queue_size' = queue_size + 1 => NextPeriod[i] = due[i] + mTimerList[i].ticks
    BY <1>0, <1>1 DEF NextPeriod, Expires
  <1>3. /\ due' \in [Timers -> Int] /\ \A t \in Timers : mState'[t] => due'[t] = NextPeriod[t]
    <2>1. NextPeriod \in [Timers -> Int]
      BY <1>0, HTypes DEF NextPeriod
    <2> QED BY <1>0, <2>1, RunningIs
  <1>4. \/ UNCHANGED <<mState, signals, mTimerList>> /\ ~mState[i]
        \/ /\ mState[i] /\ left > 2
           /\ mTimerList' = [mTimerList EXCEPT ![i].ticksLeft = left]
           /\ UNCHANGED <<mState, signals>>
        \/ /\ mState[i] /\ left <= 2 /\ Expire(left)
    BY <1>0, TurnIs
  <1> HIDE DEF left
  <1>5. CASE UNCHANGED <<mState, signals, mTimerList>> /\ ~mState[i]
    <2>1. queue_size' = queue_size /\ ~mState'[i]
      BY <1>5 DEF signals
    <2>2. \A t \in Timers : mState'[t] /\ t # i => due'[t] = due[t]
      BY <1>2, <1>3
    <2> QED BY <1>3, <1>5, <2>1, <2>2
  <1>6. CASE /\ mState[i] /\ left > 2
             /\ mTimerList' = [mTimerList EXCEPT ![i].ticksLeft = left]
             /\ UNCHANGED <<mState, signals>>
    <2>1. /\ mTimerList'[i].ticksLeft = left
          /\ mTimerList'[i].type = mTimerList[i].type
          /\ mTimerList'[i].ticks = mTimerList[i].ticks
          /\ \A u \in Timers : u # i => mTimerList'[u] = mTimerList[u]
      BY <1>0, <1>1, <1>6, TicksLeftTypes
    <2>2. queue_size' = queue_size /\ left >= 3
      BY <1>1, <1>6 DEF signals
    <2>3. mState'[i] => due'[i] = left
      BY <1>0, <1>1, <1>2, <1>3, <1>6, <2>2
    <2>4. \A t \in Timers : mState'[t] /\ t # i => due'[t] = due[t]
      BY <1>2, <1>3
    <2> QED BY <1>1, <1>3, <1>6, <2>1, <2>2, <2>3, <2>4
  <1>7. CASE mState[i] /\ left <= 2 /\ Expire(left)
    <2>1. /\ enqueue(i)
          /\ \/ /\ mTimerList[i].type = "TIMER_REPEAT"
                /\ mTimerList' = [mTimerList EXCEPT ![i].ticksLeft = left + mTimerList[i].ticks]
                /\ mState' = mState
             \/ /\ mTimerList' = [mTimerList EXCEPT ![i].ticksLeft = left]
                /\ mState' = [mState EXCEPT ![i] = FALSE]
      BY <1>1, <1>7 DEF Expire
    <2>2. due[i] \in -1 .. 2 /\ mState[i] /\ queue_size' = queue_size + 1
      BY <1>1, <1>7, <2>1 DEF enqueue
    <2>3. CASE /\ mTimerList[i].type = "TIMER_REPEAT"
               /\ mTimerList' = [mTimerList EXCEPT ![i].ticksLeft = left + mTimerList[i].ticks]
               /\ mState' = mState
      <3> DEFINE k == mTimerList[i].ticks
                 n == left + k
      <3>1. k \in Nat /\ k >= 4
        BY <1>0, <1>7, <2>3, HTypes DEF HInv, TimeLeft
      <3> HIDE DEF k
      <3>2. n \in Int /\ n >= 3 /\ n = due[i] + k
        BY <1>1, <1>7, <3>1
      <3>3. mTimerList' = [mTimerList EXCEPT ![i].ticksLeft = n]
        BY <2>3 DEF k
      <3> HIDE DEF n
      <3>4. /\ mTimerList'[i].ticksLeft = n
            /\ mTimerList'[i].type = mTimerList[i].type
            /\ mTimerList'[i].ticks = mTimerList[i].ticks
            /\ \A u \in Timers : u # i => mTimerList'[u] = mTimerList[u]
        BY <1>0, <3>2, <3>3, TicksLeftTypes
      <3>5. mState'[i] => due'[i] = n
        BY <1>0, <1>2, <1>3, <2>2, <3>2 DEF k
      <3> QED BY <1>0, <1>2, <1>3, <2>1, <2>2, <2>3, <3>2, <3>4, <3>5
    <2>4. CASE /\ mTimerList' = [mTimerList EXCEPT ![i].ticksLeft = left]
               /\ mState' = [mState EXCEPT ![i] = FALSE]
      <3>1. ~mState'[i] /\ \A u \in Timers : u # i => mState'[u] = mState[u]
        BY <1>0, <2>4 DEF TimersT
      <3>2. \A u \in Timers : u # i => mTimerList'[u] = mTimerList[u]
        BY <1>0, <1>1, <2>4, TicksLeftTypes
      <3> QED BY <1>2, <1>3, <2>1, <2>2, <3>1, <3>2
    <2> QED BY <2>1, <2>3, <2>4
  <1> QED BY <1>4, <1>5, <1>6, <1>7

LEMMA HHandleTimer ==
  ASSUME KeepsUp, HInv, HandleTimer, due' = Running(NextPeriod),
         owed' = [t \in Timers |-> owed[t] \/ (mState[t] /\ ~mState'[t])]
  PROVE  HInv'
  <1>0. TInv /\ HistoryT /\ Resting /\ Clock /\ TimeLeft /\ Ring /\ TimeIsAccounted /\ OneShotFires
    BY DEF HInv
  <1>1. TInv' /\ i \in Timers /\ SignalsT
    BY <1>0, THandleTimer, TParts DEF LocalsT
  <1>2. /\ handling = "timers" /\ running = "HandleFire" /\ ~asleep
        /\ OCF0 = FALSE /\ interval_outstanding = 0 /\ TCNT0 = 0 /\ int_out = OCR0 + 1
        /\ queue_size \in Nat /\ queue_size <= i /\ queue_size < NUM_TIMERS
    BY TurnBegins
  <1>3. /\ UNCHANGED <<interval_outstanding, hardware, int_out>>
        /\ i' = IF i = NUM_TIMERS - 1 THEN 0 ELSE i + 1
        /\ handling' = IF i = NUM_TIMERS - 1 THEN "check" ELSE "timers"
    BY DEF HandleTimer
  <1>4. /\ \A t \in Timers : t # i => mTimerList'[t] = mTimerList[t] /\ mState'[t] = mState[t]
        /\ mState'[i] => /\ mState[i]
                         /\ mTimerList'[i].ticksLeft \in Int /\ mTimerList'[i].ticksLeft >= 3
                         /\ mTimerList'[i].type = mTimerList[i].type
                         /\ mTimerList'[i].ticks = mTimerList[i].ticks
                         /\ mTimerList'[i].ticksLeft = due'[i]
        /\ \A t \in Timers : mState'[t] /\ t # i => due'[t] = due[t]
        /\ due' \in [Timers -> Int]
        /\ \/ UNCHANGED signals /\ mState' = mState
           \/ enqueue(i) /\ mState[i]
    BY TurnEnds
  <1>5. /\ \A t \in Timers : t # i => (Handled(t)' <=> Handled(t))
        /\ \A t \in Timers : t = i => Handled(t)' /\ ~Handled(t)
    <2>1. CASE i = NUM_TIMERS - 1
      <3>1. \A t \in Timers : t # i => t < i
        BY <1>1, <2>1, Sizes DEF Timers
      <3> QED BY <1>1, <1>2, <1>3, <2>1, <3>1, Sizes DEF Handled
    <2>2. CASE i # NUM_TIMERS - 1
      <3>1. handling' = "timers" /\ i' = i + 1
        BY <1>3, <2>2
      <3>2. \A t \in Timers : t # i => (t < i + 1 <=> t < i)
        BY <1>1 DEF Timers
      <3>3. i < i + 1 /\ ~(i < i)
        BY <1>1, Sizes
      <3>4. /\ \A t : Handled(t)' <=> t < i + 1
            /\ \A t : Handled(t) <=> t < i
        BY <1>2, <3>1 DEF Handled
      <3> QED BY <3>2, <3>3, <3>4
    <2> QED BY <2>1, <2>2
  <1>6. TimeLeft'
    <2>1. UNCHANGED mInterval
      BY TurnIs, <1>0 DEF signals, Expire
    <2>2. ASSUME NEW t \in Timers, mState'[t], ~Handled(t)'
          PROVE  mTimerList'[t].ticksLeft >= mInterval'
      <3>1. t # i
        BY <1>5, <2>2
      <3>2. mState[t] /\ ~Handled(t) /\ mTimerList'[t] = mTimerList[t]
        BY <1>4, <1>5, <2>2, <3>1
      <3> QED BY <1>0, <2>1, <3>2 DEF TimeLeft
    <2>3. ASSUME NEW t \in Timers, mState'[t], Handled(t)'
          PROVE  mTimerList'[t].ticksLeft >= 3
      BY <1>0, <1>4, <1>5, <2>3 DEF TimeLeft
    <2>4. ASSUME NEW t \in Timers, mState'[t], mTimerList'[t].type = "TIMER_REPEAT"
          PROVE  mTimerList'[t].ticks >= 4
      BY <1>0, <1>4, <2>4 DEF TimeLeft
    <2> QED BY <2>2, <2>3, <2>4 DEF TimeLeft
  <1>7. ASSUME NEW t \in Timers, mState'[t]
        PROVE  mTimerList'[t].ticksLeft - Untaken(t)' = due'[t] + TCNT0'
    <2>1. \A u \in Timers : Untaken(u) = IF Handled(u) THEN 0 ELSE int_out
      <3> SUFFICES ASSUME NEW u \in Timers PROVE Untaken(u) = IF Handled(u) THEN 0 ELSE int_out
        OBVIOUS
      <3>1. u >= i <=> ~(u < i)
        BY <1>1, Sizes DEF Timers
      <3>2. Untaken(u) = 0 + 0 + (IF Handled(u) THEN 0 ELSE int_out)
        BY <1>2, <3>1 DEF Untaken, Handled
      <3> QED BY <1>0, <3>2, HTypes
    <2>2. \A u \in Timers : Untaken(u)' = IF Handled(u)' THEN 0 ELSE int_out
      <3> SUFFICES ASSUME NEW u \in Timers PROVE Untaken(u)' = IF Handled(u)' THEN 0 ELSE int_out
        OBVIOUS
      <3>1. u >= i' <=> ~(u < i')
        BY <1>1, <1>3, Sizes DEF Timers
      <3>2. Untaken(u)' = 0 + 0 + (IF Handled(u)' THEN 0 ELSE int_out)
        BY <1>2, <1>3, <3>1 DEF Untaken, Handled, hardware
      <3> QED BY <1>0, <3>2, HTypes
    <2>3. TCNT0' = 0
      BY <1>2, <1>3 DEF hardware
    <2>4. CASE t = i
      <3>1. Untaken(t)' = 0 /\ mTimerList'[t].ticksLeft \in Int /\ mTimerList'[t].ticksLeft = due'[t]
        <4>1. Handled(t)' /\ Untaken(t)' = IF Handled(t)' THEN 0 ELSE int_out
          BY <1>5, <2>2, <2>4
        <4> QED BY <1>4, <1>7, <2>4, <4>1
      <3> QED BY <2>3, <3>1
    <2>5. CASE t # i
      <3>1. /\ mState[t] /\ mTimerList'[t].ticksLeft = mTimerList[t].ticksLeft /\ due'[t] = due[t]
            /\ Untaken(t)' = Untaken(t)
        BY <1>4, <1>5, <1>7, <2>1, <2>2, <2>5
      <3>2. mTimerList[t].ticksLeft - Untaken(t) = due[t] + TCNT0
        BY <1>0, <3>1 DEF TimeIsAccounted
      <3> QED BY <1>2, <2>3, <3>1, <3>2
    <2> QED BY <2>4, <2>5
  <1>8. TimeIsAccounted'
    BY <1>7 DEF TimeIsAccounted
  <1>9. Ring' /\ OneShotFires' /\ (UNCHANGED queue_size \/ queue_size' = queue_size + 1)
    <2>1. CASE UNCHANGED signals /\ mState' = mState
      <3>1. \A t \in Timers : owed'[t] = owed[t]
        BY <1>0, <2>1 DEF HistoryT
      <3>2. owed' = owed
        BY <1>0, <3>1 DEF HistoryT
      <3> QED BY <1>0, <2>1, <3>2, RingKept DEF signals
    <2>2. CASE enqueue(i) /\ mState[i]
      <3>1. Ring' /\ i \in Queued' /\ Queued \subseteq Queued'
        BY <1>0, <1>1, <1>2, <2>2, EnqueueStep
      <3>2. \A t \in Timers : owed'[t] => owed[t] \/ t = i
        BY <1>4
      <3> QED BY <1>0, <2>2, <3>1, <3>2 DEF OneShotFires, enqueue
    <2> QED BY <1>4, <2>1, <2>2
  <1>10. Clock'
    <2>1. TCNT0' = 0 /\ OCR0' = OCR0 /\ mInterval' = mInterval
      BY <1>0, <1>2, <1>3, TurnIs DEF hardware, signals
    <2>2. handling' = "timers" => int_out' = OCR0 + 1 /\ i' = i + 1
      BY <1>2, <1>3
    <2>3. queue_size' <= i + 1
      BY <1>0, <1>2, <1>9, HTypes
    <2> QED BY <1>0, <1>2, <2>1, <2>2, <2>3 DEF Clock
  <1>11. Resting'
    <2>1. running' = running /\ asleep' = asleep /\ CountOf("HandleFire")' = CountOf("HandleFire")
      <3>1. UNCHANGED tasks \/ Expire(mTimerList[i].ticksLeft - int_out)
        BY <1>0, TurnIs
      <3>2. mTimerList[i].ticksLeft - int_out \in Int
        BY TurnBegins
      <3> QED BY <1>0, <3>1, <3>2, ExpirePosts, SameCounts DEF tasks
    <2> QED BY <1>0, <1>2, <1>3, <2>1 DEF Resting, hardware
  <1>12. HistoryT'
    <2>1. owed' \in [Timers -> BOOLEAN]
      OBVIOUS
    <2> QED BY <1>4, <2>1 DEF HistoryT
  <1> QED BY <1>1, <1>6, <1>8, <1>9, <1>10, <1>11, <1>12 DEF HInv

LEMMA HCheckOutstanding ==
  ASSUME HInv, CheckOutstanding, UNCHANGED <<due, owed>>
  PROVE  HInv'
  <1>0. TInv /\ HistoryT /\ Resting /\ Clock /\ TimeLeft /\ TimeIsAccounted
    BY DEF HInv
  <1>1. TInv'
    BY <1>0, TCheckOutstanding
  <1>2. /\ handling = "check" /\ running = "HandleFire"
        /\ ~asleep /\ OCF0 = FALSE /\ interval_outstanding = 0
    <2>1. handling = "check" /\ running = "HandleFire"
      BY <1>0 DEF CheckOutstanding, Resting
    <2> QED BY <2>1, Quiet
  <1>3. /\ handling' = "adjust"
        /\ UNCHANGED <<timers, signals, interval_outstanding, hardware, tasks, i, int_out>>
    BY <1>2 DEF CheckOutstanding
  <1>4. \A t : Handled(t) /\ Handled(t)'
    BY <1>2, <1>3 DEF Handled
  <1>5. \A t : Untaken(t)' = Untaken(t)
    BY <1>2, <1>3 DEF Untaken, hardware
  <1>6. Resting'
    BY <1>0, <1>2, <1>3, SameCounts DEF Resting, tasks, hardware
  <1>7. Clock'
    BY <1>0, <1>2, <1>3 DEF Clock, hardware, timers
  <1>8. TimeLeft'
    BY <1>0, <1>3, <1>4 DEF TimeLeft, timers
  <1>9. TimeIsAccounted'
    BY <1>0, <1>3, <1>5 DEF TimeIsAccounted, timers, hardware
  <1>10. Ring' /\ OneShotFires'
    BY <1>3, RingKept DEF HInv
  <1>11. HistoryT'
    BY <1>0 DEF HistoryT
  <1> QED BY <1>1, <1>6, <1>7, <1>8, <1>9, <1>10, <1>11 DEF HInv

\* adjustInterval takes the least time left, since none is less than three ticks.
LEMMA AdjustIs ==
  ASSUME Typed, TCNT0 = 0, \A t \in Timers : mState[t] => mTimerList[t].ticksLeft >= 3
  PROVE  /\ adjustInterval \in 3 .. maxTimerInterval
         /\ \A t \in Timers : mState[t] => mTimerList[t].ticksLeft >= adjustInterval
  <1>1. 3 \in Nat /\ 3 <= maxTimerInterval /\ maxTimerInterval \in Nat /\ 3 \in 0 .. CounterMod - 1
    BY Sizes
  <1>2. uint8(TCNT0 + 3) = 3
    BY <1>1, Narrow
  <1>3. /\ LeastTicksLeft \in 3 .. maxTimerInterval
        /\ \A t \in Timers : mState[t] => mTimerList[t].ticksLeft >= LeastTicksLeft
    BY <1>1, LeastIsLeast
  <1>4. ~(LeastTicksLeft < 3)
    BY <1>1, <1>3
  <1>5. adjustInterval = IF \E t \in Timers : mState[t] THEN LeastTicksLeft ELSE maxTimerInterval
    BY <1>2, <1>4 DEF adjustInterval
  <1> QED BY <1>1, <1>3, <1>5

LEMMA HAdjustInterval ==
  ASSUME KeepsUp, HInv, AdjustInterval, UNCHANGED <<due, owed>>
  PROVE  HInv'
  <1>0. TInv /\ HistoryT /\ Resting /\ Clock /\ TimeLeft /\ TimeIsAccounted
    BY DEF HInv
  <1>1. TInv'
    BY <1>0, TAdjustInterval
  <1>2. /\ handling = "adjust" /\ running = "HandleFire"
        /\ ~asleep /\ OCF0 = FALSE /\ interval_outstanding = 0 /\ TCNT0 = 0
    <2>1. handling = "adjust" /\ running = "HandleFire"
      BY <1>0 DEF AdjustInterval, Resting
    <2> QED BY <1>0, <2>1, Quiet DEF Clock
  <1>3. \A t : Handled(t)
    BY <1>2 DEF Handled
  <1>4. /\ adjustInterval \in 3 .. maxTimerInterval
        /\ \A t \in Timers : mState[t] => mTimerList[t].ticksLeft >= adjustInterval
    BY <1>0, <1>2, <1>3, TParts, AdjustIs DEF TimeLeft
  <1>5. /\ mInterval' = adjustInterval /\ OCR0' = adjustInterval /\ UNCHANGED <<TCNT0, OCF0>>
        /\ Sched!Return /\ handling' = "no"
        /\ UNCHANGED <<mState, mTimerList, signals, interval_outstanding>>
    BY DEF AdjustInterval, HandleFireReturns, SetInterval, WithinLag, KeepsUp
  <1>6. UNCHANGED <<fifo, asleep>> /\ running' = "none"
    BY <1>0, <1>5, ReturnTypes
  <1>7. \A t : ~Handled(t)'
    BY <1>5 DEF Handled
  <1>8. \A t : Untaken(t)' = Untaken(t)
    <2>1. \A t : Untaken(t) = 0 + 0 + 0
      BY <1>2 DEF Untaken
    <2>2. \A t : Untaken(t)' = 0 + 0 + 0
      BY <1>2, <1>5 DEF Untaken
    <2> QED BY <2>1, <2>2
  <1>9. Resting'
    BY <1>0, <1>2, <1>5, <1>6, SameCounts DEF Resting
  <1>10. Clock'
    <2>1. /\ 0 <= adjustInterval /\ adjustInterval <= adjustInterval
          /\ adjustInterval <= maxTimerInterval
      BY <1>4, Sizes
    <2> QED BY <1>2, <1>5, <2>1 DEF Clock
  <1>11. TimeLeft'
    BY <1>0, <1>4, <1>5, <1>7 DEF TimeLeft
  <1>12. TimeIsAccounted'
    BY <1>0, <1>5, <1>8 DEF TimeIsAccounted
  <1>13. Ring' /\ OneShotFires'
    BY <1>5, RingKept DEF HInv
  <1>14. HistoryT'
    BY <1>0 DEF HistoryT
  <1> QED BY <1>1, <1>9, <1>10, <1>11, <1>12, <1>13, <1>14 DEF HInv

-----------------------------------------------------------------------------
(***************************************************************************)
(* The other tasks and interrupts.                                         *)
(***************************************************************************)

\* Another task than HandleFire starts only when no ticks are outstanding.
LEMMA DispatchRests ==
  ASSUME HInv, Sched!Dispatch, running' # "HandleFire",
         UNCHANGED <<hardware, interval_outstanding, locals>>
  PROVE  Resting' /\ handling = "no"
  <1>0. TInv /\ HistoryT /\ Resting
    BY DEF HInv
  <1>1. /\ running = "none" /\ ~asleep /\ asleep' = asleep
        /\ running' = Head(fifo)
    BY DEF Sched!Dispatch
  <1>2. handling = "no" /\ ~OCF0
    BY <1>0, <1>1 DEF Resting
  <1>3. interval_outstanding = 0
    <2>1. SUFFICES ASSUME interval_outstanding > 0 PROVE FALSE
      BY <1>0, HTypes
    <2>2. fifo = <<"HandleFire">>
      BY <1>0, <2>1 DEF Resting
    <2> QED BY <1>1, <2>2
  <1>4. CountOf("HandleFire")' = 0
    <2>1. CountOf("HandleFire") = CountOf("HandleFire")' + 0 /\ CountOf("HandleFire")' \in Nat
      BY <1>0, TParts, DispatchStep
    <2> QED BY <1>0, <1>3, <2>1 DEF Resting
  <1> QED BY <1>1, <1>2, <1>3, <1>4 DEF Resting, hardware, locals

LEMMA HsignalOneTimer ==
  ASSUME HInv, signalOneTimer, owed' = [t \in Timers |-> owed[t] /\ fired' # t], UNCHANGED due
  PROVE  HInv'
  <1>0. TInv /\ HistoryT /\ Ring /\ OneShotFires
    BY DEF HInv
  <1>1. TInv'
    BY <1>0, TsignalOneTimer
  <1>2. /\ Sched!Dispatch /\ running' = "signalOneTimer"
        /\ UNCHANGED <<timers, interval_outstanding, hardware, locals>>
    BY DEF signalOneTimer
  <1>3. Resting' /\ handling = "no"
    BY <1>2, DispatchRests
  <1>4. /\ queue_size \in Nat \ {0} /\ queue_size' = queue_size - 1
        /\ queue_head' = Following(queue_head) /\ fired' = queue[queue_head']
        /\ UNCHANGED <<queue, queue_tail>>
    BY <1>0, SignalIs DEF Following
  <1>5. Ring' /\ Queued \subseteq Queued' \union {fired'}
    <2>1. queue_size > 0 /\ SignalsT
      BY <1>0, <1>4, TParts
    <2> QED BY <1>0, <1>4, <2>1, DequeueStep
  <1>6. OneShotFires'
    <2>1. SUFFICES ASSUME NEW t \in Timers, owed'[t] PROVE t \in Queued'
      BY DEF OneShotFires
    <2>2. owed[t] /\ fired' # t
      BY <2>1
    <2> QED BY <1>0, <1>5, <2>2 DEF OneShotFires
  <1>7. Clock' /\ TimeLeft' /\ TimeIsAccounted'
    BY <1>2, <1>3, TimeKept DEF timers
  <1>8. HistoryT'
    <2>1. \A t \in Timers : (owed[t] /\ fired' # t) \in BOOLEAN
      OBVIOUS
    <2> QED BY <1>0, <2>1 DEF HistoryT
  <1> QED BY <1>1, <1>3, <1>5, <1>6, <1>7, <1>8 DEF HInv

\* Steps that do not touch the timers at all.
LEMMA HOther ==
  ASSUME HInv, TInv', Resting',
         UNCHANGED <<timers, signals, hardware, interval_outstanding, locals, due, owed>>
  PROVE  HInv'
  <1>1. Clock' /\ TimeLeft' /\ TimeIsAccounted'
    BY TimeKept DEF timers, signals
  <1>2. Ring' /\ OneShotFires'
    BY RingKept DEF HInv
  <1>3. HistoryT'
    BY DEF HInv, HistoryT
  <1> QED BY <1>1, <1>2, <1>3 DEF HInv

LEMMA HRunApp ==
  ASSUME HInv, RunApp, UNCHANGED <<due, owed>>
  PROVE  HInv'
  <1>1. /\ Sched!Dispatch /\ running' = "App"
        /\ UNCHANGED <<timers, signals, interval_outstanding, hardware, locals>>
    BY DEF RunApp
  <1>2. Resting'
    BY <1>1, DispatchRests
  <1>3. TInv'
    BY TRunApp DEF HInv
  <1> QED BY <1>1, <1>2, <1>3, HOther

LEMMA HUserCodeReturns ==
  ASSUME HInv, UserCodeReturns, UNCHANGED <<due, owed>>
  PROVE  HInv'
  <1>0. TInv /\ Resting
    BY DEF HInv
  <1>1. /\ running # "none" /\ running # "HandleFire" /\ Sched!Return
        /\ UNCHANGED <<timers, signals, interval_outstanding, hardware, locals>>
    BY DEF UserCodeReturns
  <1>2. ~asleep /\ OCF0 = FALSE /\ interval_outstanding = 0 /\ handling = "no"
    BY <1>0, <1>1, Quiet DEF Resting
  <1>3. UNCHANGED <<fifo, asleep>> /\ running' = "none"
    BY <1>0, <1>1, ReturnTypes
  <1>4. Resting'
    BY <1>0, <1>1, <1>2, <1>3, SameCounts DEF Resting, hardware, locals
  <1>5. TInv'
    BY <1>0, TUserCodeReturns
  <1> QED BY <1>1, <1>4, <1>5, HOther

LEMMA HAppInterrupt ==
  ASSUME HInv, AppInterrupt, ~OCF0 /\ interval_outstanding = 0, UNCHANGED <<due, owed>>
  PROVE  HInv'
  <1>0. TInv /\ Resting
    BY DEF HInv
  <1>1. /\ Sched!Enqueue("App") /\ asleep' = FALSE /\ running' = running
        /\ UNCHANGED <<timers, signals, interval_outstanding, hardware, locals>>
    BY DEF AppInterrupt, Sched!InterruptPosts
  <1>2. CountOf("HandleFire")' = CountOf("HandleFire")
    <2>1. "App" \in TaskNames
      BY DEF TaskNames
    <2>2. CountOf("HandleFire")' = CountOf("HandleFire") + 0 /\ CountOf("HandleFire") \in Nat
      BY <1>0, <1>1, <2>1, TParts, PostStep
    <2> QED BY <2>2
  <1>3. Resting'
    BY <1>0, <1>1, <1>2 DEF Resting, hardware, locals
  <1>4. TInv'
    BY <1>0, TAppInterrupt
  <1> QED BY <1>1, <1>3, <1>4, HOther

LEMMA HSleep ==
  ASSUME HInv, Sleep, UNCHANGED <<due, owed>>
  PROVE  HInv'
  <1>0. TInv /\ HistoryT /\ Resting
    BY DEF HInv
  <1>1. /\ running = "none" /\ ~asleep /\ fifo = << >> /\ UNCHANGED <<fifo, running>>
        /\ UNCHANGED <<timers, signals, interval_outstanding, hardware, locals>>
    BY DEF Sleep, Sched!Sleep
  <1>2. interval_outstanding = 0
    <2>1. SUFFICES ASSUME interval_outstanding > 0 PROVE FALSE
      BY <1>0, HTypes
    <2>2. fifo = <<"HandleFire">>
      BY <1>0, <2>1 DEF Resting
    <2> QED BY <1>1, <2>2
  <1>3. Resting'
    BY <1>0, <1>1, <1>2, SameCounts DEF Resting, hardware, locals
  <1>4. TInv'
    BY <1>0, TSleep
  <1> QED BY <1>1, <1>3, <1>4, HOther

LEMMA HSame == HInv /\ UNCHANGED historyVars => HInv'
  <1> SUFFICES ASSUME HInv, UNCHANGED historyVars PROVE HInv'
    OBVIOUS
  <1>1. UNCHANGED <<vars, due, owed>>
    BY DEF historyVars
  <1>2. Resting'
    BY <1>1, SameCounts DEF HInv, Resting, vars, tasks, hardware, locals
  <1>3. TInv'
    BY <1>1, TSame DEF HInv
  <1> QED BY <1>1, <1>2, <1>3, HOther DEF vars

LEMMA HStep == KeepsUp /\ HInv /\ [HistoryNext]_historyVars => HInv'
  <1> SUFFICES ASSUME KeepsUp, HInv, [HistoryNext]_historyVars PROVE HInv'
    OBVIOUS
  <1>1. CASE Tick /\ due' = Running(Passed) /\ UNCHANGED <<stopped, owed>>
    BY <1>1, HTick
  <1>2. ASSUME NEW id \in Timers, NEW type \in Types, NEW interval \in Intervals,
               Timer_start(id, type, interval), due' = [due EXCEPT ![id] = interval],
               UNCHANGED owed
        PROVE  HInv'
    BY <1>2, HTimer_start
  <1>3. ASSUME NEW id \in Timers, Timer_stop(id), due' = Running(due), UNCHANGED owed
        PROVE  HInv'
    BY <1>3, HTimer_stop
  <1>4. CASE StdControl_stop /\ due' = Running(due) /\ UNCHANGED <<stopped, owed>>
    BY <1>4, HStdControl_stop
  <1>5. CASE /\ HandleTimer
             /\ due' = Running(NextPeriod)
             /\ owed' = [t \in Timers |-> owed[t] \/ (mState[t] /\ ~mState'[t])]
    BY <1>5, HHandleTimer
  <1>6. CASE /\ signalOneTimer
             /\ owed' = [t \in Timers |-> owed[t] /\ fired' # t]
             /\ UNCHANGED <<due, stopped>>
    BY <1>6, HsignalOneTimer
  <1>7. CASE /\ AppInterrupt
             /\ Coincide \/ (~OCF0 /\ interval_outstanding = 0)
             /\ UNCHANGED <<due, stopped, owed>>
    BY <1>7, HAppInterrupt DEF KeepsUp
  <1>8. CASE UNCHANGED <<due, stopped, owed>>
             /\ (Clock_fire \/ HandleFire \/ CheckOutstanding \/ AdjustInterval
                   \/ UserCodeReturns \/ RunApp \/ Sleep)
    BY <1>8, HClock_fire, HHandleFire, HCheckOutstanding, HAdjustInterval, HUserCodeReturns,
       HRunApp, HSleep
  <1>9. CASE UNCHANGED historyVars
    BY <1>9, HSame
  <1> QED BY <1>1, <1>2, <1>3, <1>4, <1>5, <1>6, <1>7, <1>8, <1>9 DEF HistoryNext

\* The timers' books are exact: the time left for a timer, less what HandleFire
\* has still to take off, is the time that really remains.
THEOREM TimeAccounted ==
  ASSUME KeepsUp
  PROVE  HistorySpec => []TimeIsAccounted
  <1>1. HInv /\ [HistoryNext]_historyVars => HInv'
    BY HStep
  <1>2. HInv => TimeIsAccounted
    BY DEF HInv
  <1> QED BY <1>1, <1>2, HInit, PTL DEF HistorySpec

\* A one-shot timer that expired is in the queue until its event is signalled.
THEOREM OneShotsFire ==
  ASSUME KeepsUp
  PROVE  HistorySpec => []OneShotFires
  <1>1. HInv /\ [HistoryNext]_historyVars => HInv'
    BY HStep
  <1>2. HInv => OneShotFires
    BY DEF HInv
  <1> QED BY <1>1, <1>2, HInit, PTL DEF HistorySpec

\* Only a turn of HandleFire's loop queues a timer, and it does so on time.
LEMMA ExpiryStep ==
  ASSUME KeepsUp, HInv, [HistoryNext]_historyVars, NEW t \in Timers, Expires(t)
  PROVE  due[t] \in -1 .. 2
  <1>1. handling = "timers" /\ i = t /\ queue_size' = queue_size + 1
    BY DEF Expires
  <1>2. TInv /\ queue_size \in Nat /\ queue_size' # queue_size /\ running = "HandleFire"
    <2>1. TInv /\ queue_size \in Nat /\ running = "HandleFire"
      BY <1>1, HTypes DEF HInv, Resting
    <2> QED BY <1>1, <2>1
  <1>3. ~signalOneTimer
    BY <1>2 DEF signalOneTimer, Sched!Dispatch
  <1>4. HandleTimer /\ due' = Running(NextPeriod)
    <2>1. CASE HandleTimer /\ due' = Running(NextPeriod)
      BY <2>1
    <2>2. CASE Tick \/ Clock_fire \/ HandleFire \/ CheckOutstanding \/ AdjustInterval
                 \/ UserCodeReturns \/ RunApp \/ AppInterrupt \/ Sleep
      BY <1>2, <2>2 DEF Tick, Clock_fire, HandleFire, CheckOutstanding, AdjustInterval,
         UserCodeReturns, RunApp, AppInterrupt, Sleep, signals
    <2>3. CASE \/ \E id \in Timers, type \in Types, interval \in Intervals :
                    Timer_start(id, type, interval)
               \/ \E id \in Timers : Timer_stop(id)
               \/ StdControl_stop
      BY <1>2, <2>3 DEF Timer_start, Timer_stop, StdControl_stop, signals
    <2>4. CASE UNCHANGED historyVars
      BY <1>2, <2>4 DEF historyVars, vars, signals
    <2> QED BY <1>3, <2>1, <2>2, <2>3, <2>4 DEF HistoryNext
  <1>5. \/ UNCHANGED signals
        \/ due[i] \in -1 .. 2
    BY <1>4, TurnEnds
  <1> QED BY <1>1, <1>2, <1>5 DEF signals

\* A timer expires no sooner than two ticks before its time and no later than
\* one tick after it.
THEOREM ExpiresOnTime ==
  ASSUME KeepsUp
  PROVE  HistorySpec => OnTime
  <1>1. HInv /\ [HistoryNext]_historyVars => HInv'
    BY HStep
  <1>2. HInv /\ [HistoryNext]_historyVars
          => [\A t \in Timers : Expires(t) => due[t] \in -1 .. 2]_historyVars
    BY ExpiryStep
  <1> QED BY <1>1, <1>2, HInit, PTL DEF HistorySpec, OnTime

\* On a processor that keeps up, no timer is more than a tick late.
LEMMA NeverLate ==
  ASSUME KeepsUp, HInv, NEW t \in Timers, mState[t]
  PROVE  due[t] >= -1
  <1>0. TInv /\ HistoryT /\ Resting /\ Clock /\ TimeLeft /\ TimeIsAccounted
    BY DEF HInv
  <1> DEFINE left == mTimerList[t].ticksLeft
             d == due[t]
             u == Untaken(t)
  <1>1. /\ left \in Int /\ d \in Int /\ TCNT0 \in Nat /\ OCR0 \in Nat /\ mInterval \in Nat
        /\ TCNT0 <= OCR0 /\ OCR0 <= mInterval /\ left - u = d + TCNT0
    BY <1>0, HTypes DEF Clock, TimeIsAccounted
  <1>2. CASE OCF0 \/ interval_outstanding > 0 \/ handling # "no"
    <2>1. TCNT0 = 0
      BY <1>0, <1>2 DEF Clock
    <2>2. CASE Handled(t)
      <3>1. handling # "no" /\ running = "HandleFire" /\ ~(handling = "timers" /\ t >= i)
        <4>1. handling # "no" /\ (handling = "timers" => t < i) /\ t \in Nat /\ i \in Nat
          BY <1>0, <2>2, HTypes, Sizes DEF Handled
        <4> QED BY <1>0, <4>1 DEF Resting
      <3>2. OCF0 = FALSE /\ interval_outstanding = 0
        BY <3>1, Quiet
      <3>3. u = 0 + 0 + 0
        BY <3>1, <3>2 DEF Untaken
      <3>4. left >= 3
        BY <1>0, <2>2 DEF TimeLeft
      <3> HIDE DEF left, d, u
      <3>5. d >= -1
        BY <1>1, <2>1, <3>3, <3>4
      <3> QED BY <3>5 DEF d
    <2>3. CASE ~Handled(t)
      <3>1. u = OCR0 + 1
        <4>1. CASE handling # "no"
          <5>1. running = "HandleFire" /\ handling = "timers" /\ t >= i /\ int_out = OCR0 + 1
            BY <1>0, <2>3, <4>1, HTypes, Sizes DEF Handled, Resting, Clock
          <5>2. OCF0 = FALSE /\ interval_outstanding = 0
            BY <5>1, Quiet
          <5>3. u = 0 + 0 + (OCR0 + 1)
            BY <5>1, <5>2 DEF Untaken
          <5> QED BY <1>1, <5>3
        <4>2. CASE handling = "no" /\ OCF0
          <5>1. interval_outstanding = 0
            BY <1>0, <4>2, HTypes DEF Resting
          <5>2. u = 0 + (OCR0 + 1) + 0
            BY <4>2, <5>1 DEF Untaken
          <5> QED BY <1>1, <5>2
        <4>3. CASE handling = "no" /\ ~OCF0
          <5>1. interval_outstanding = OCR0 + 1
            BY <1>0, <1>2, <4>3 DEF Resting
          <5>2. u = (OCR0 + 1) + 0 + 0
            BY <4>3, <5>1 DEF Untaken
          <5> QED BY <1>1, <5>2
        <4> QED BY <4>1, <4>2, <4>3
      <3>2. left >= mInterval
        BY <1>0, <2>3 DEF TimeLeft
      <3> HIDE DEF left, d, u
      <3>3. d >= -1
        BY <1>1, <2>1, <3>1, <3>2
      <3> QED BY <3>3 DEF d
    <2> QED BY <2>2, <2>3
  <1>3. CASE ~OCF0 /\ ~(interval_outstanding > 0) /\ handling = "no"
    <2>1. interval_outstanding = 0 /\ ~Handled(t)
      BY <1>0, <1>3, HTypes DEF Handled
    <2>2. u = 0 + 0 + 0
      BY <1>3, <2>1 DEF Untaken
    <2>3. left >= mInterval
      BY <1>0, <2>1 DEF TimeLeft
    <2> HIDE DEF left, d, u
    <2>4. d >= -1
      BY <1>1, <2>2, <2>3
    <2> QED BY <2>4 DEF d
  <1> QED BY <1>2, <1>3

\* The timers that Timer.start accepts keep their rate, those that repeat every
\* three ticks excepted.
THEOREM KeepsRate ==
  ASSUME KeepsUp
  PROVE  HistorySpec => []NeverAPeriodBehind
  <1>1. HInv /\ [HistoryNext]_historyVars => HInv'
    BY HStep
  <1>2. HInv => NeverAPeriodBehind
    <2> SUFFICES ASSUME HInv, NEW t \in Timers, mState[t], mTimerList[t].type = "TIMER_REPEAT"
                 PROVE  due[t] > -mTimerList[t].ticks
      BY DEF NeverAPeriodBehind
    <2> DEFINE k == mTimerList[t].ticks
               d == due[t]
    <2>1. k \in Nat /\ k >= 4 /\ d \in Int /\ d >= -1
      BY HTypes, NeverLate DEF HInv, TimeLeft
    <2> HIDE DEF k, d
    <2>2. d > -k
      BY <2>1
    <2> QED BY <2>2 DEF k, d
  <1> QED BY <1>1, <1>2, HInit, PTL DEF HistorySpec

=============================================================================
