---------------------------- MODULE SchedProofs -----------------------------
(***************************************************************************)
(* Proofs about Sched, for every ring size and every set of tasks.         *)
(*                                                                         *)
(* The inductive invariant RingInv says that the ring, read from its head, *)
(* is one run of used slots followed by one run of free slots, and that    *)
(* TOSH_sched_free marks the border.  From it follow the absence of holes, *)
(* the sleep only over an empty ring, and the refinement of TaskFifo.      *)
(***************************************************************************)
EXTENDS Sched, SequenceTheorems, TLAPS

RingInv == TypeOK /\ UsedSlotsAreContiguous /\ IndicesAgree

-----------------------------------------------------------------------------
(***************************************************************************)
(* Arithmetic of the ring.                                                 *)
(***************************************************************************)

\* Masking an index below twice the ring size subtracts the size at most once.
LEMMA MaskValue ==
  ASSUME NEW x \in 0 .. 2 * MaxTasks - 1
  PROVE  Mask(x) = IF x < MaxTasks THEN x ELSE x - MaxTasks
  BY MaxTasksAssumption DEF Mask

\* A masked index is an index of the ring.
LEMMA MaskType ==
  ASSUME NEW x \in 0 .. 2 * MaxTasks - 1
  PROVE  Mask(x) \in Slots
  BY MaskValue, MaxTasksAssumption DEF Slots

\* The slots that follow a given slot around the ring are all different.
LEMMA MaskInjective ==
  ASSUME NEW f \in Slots, NEW j \in Slots, NEW k \in Slots,
         Mask(f + j) = Mask(f + k)
  PROVE  j = k
  <1>1. f + j \in 0 .. 2 * MaxTasks - 1 /\ f + k \in 0 .. 2 * MaxTasks - 1
    BY MaxTasksAssumption DEF Slots
  <1>2. QED
    BY <1>1, MaskValue, MaxTasksAssumption DEF Slots

\* Every slot is some number of steps after a given slot.
LEMMA MaskSurjective ==
  ASSUME NEW f \in Slots, NEW i \in Slots
  PROVE  \E k \in Slots : Mask(f + k) = i
  <1>1. CASE i >= f
    <2>1. i - f \in Slots /\ f + (i - f) \in 0 .. 2 * MaxTasks - 1
      BY <1>1, MaxTasksAssumption DEF Slots
    <2>2. Mask(f + (i - f)) = i
      BY <2>1, MaskValue, MaxTasksAssumption DEF Slots
    <2>3. QED
      BY <2>1, <2>2
  <1>2. CASE i < f
    <2>1. i + MaxTasks - f \in Slots /\ f + (i + MaxTasks - f) \in 0 .. 2 * MaxTasks - 1
      BY <1>2, MaxTasksAssumption DEF Slots
    <2>2. Mask(f + (i + MaxTasks - f)) = i
      BY <2>1, <1>2, MaskValue, MaxTasksAssumption DEF Slots
    <2>3. QED
      BY <2>1, <2>2
  <1>3. QED
    BY <1>1, <1>2, MaxTasksAssumption DEF Slots

\* Moving the head by one slot shifts every offset by one.
LEMMA MaskShift ==
  ASSUME NEW f \in Slots, NEW k \in Slots
  PROVE  /\ Mask(f + 1) \in Slots
         /\ Mask(Mask(f + 1) + k) = Mask(f + Mask(k + 1))
  <1>1. f + 1 \in 0 .. 2 * MaxTasks - 1 /\ k + 1 \in 0 .. 2 * MaxTasks - 1
    BY MaxTasksAssumption DEF Slots
  <1>2. Mask(f + 1) \in Slots /\ Mask(k + 1) \in Slots
    BY <1>1, MaskType
  <1>3. /\ Mask(f + 1) + k \in 0 .. 2 * MaxTasks - 1
        /\ f + Mask(k + 1) \in 0 .. 2 * MaxTasks - 1
    BY <1>2, MaxTasksAssumption DEF Slots
  <1>4. QED
    BY <1>1, <1>2, <1>3, MaskValue, MaxTasksAssumption DEF Slots

\* The border moves by one slot when the run of used slots grows at its end,
\* and stays when it shrinks at its head.
LEMMA MaskBorder ==
  ASSUME NEW f \in Slots, NEW c \in Slots
  PROVE  /\ Mask(f + c) \in Slots
         /\ Mask(Mask(f + c) + 1) \in Slots
         /\ Mask(Mask(f + c) + 1) = Mask(f + (c + 1))
         /\ Mask(Mask(f + 1) + c) = Mask(f + (c + 1))
  <1>1. f + c \in 0 .. 2 * MaxTasks - 1 /\ f + (c + 1) \in 0 .. 2 * MaxTasks - 1
        /\ f + 1 \in 0 .. 2 * MaxTasks - 1
    BY MaxTasksAssumption DEF Slots
  <1>2. Mask(f + c) \in Slots /\ Mask(f + 1) \in Slots
    BY <1>1, MaskType
  <1>3. Mask(f + c) + 1 \in 0 .. 2 * MaxTasks - 1 /\ Mask(f + 1) + c \in 0 .. 2 * MaxTasks - 1
    BY <1>2, MaxTasksAssumption DEF Slots
  <1>4. QED
    BY <1>1, <1>2, <1>3, MaskType, MaskValue, MaxTasksAssumption DEF Slots

\* The occupancy is determined by the two indices and by whether the head slot
\* is used.
LEMMA OccupancyValue ==
  ASSUME NEW head, NEW full \in Slots, NEW c \in 0 .. MaxTasks,
         NEW free, free = Mask(full + c), head # NoTask <=> c > 0
  PROVE  (IF head = NoTask THEN 0
          ELSE IF free > full THEN free - full ELSE free + MaxTasks - full) = c
  <1>1. full + c \in 0 .. 2 * MaxTasks - 1
    BY MaxTasksAssumption DEF Slots
  <1>2. QED
    BY <1>1, MaskValue, MaxTasksAssumption DEF Slots

\* The occupancy never exceeds the size of the ring, and it is zero exactly
\* when the head slot is free.
LEMMA OccupancyType ==
  ASSUME TypeOK
  PROVE  /\ Occupancy \in 0 .. MaxTasks
         /\ Occupancy > 0 <=> TOSH_queue[TOSH_sched_full] # NoTask
  BY MaxTasksAssumption DEF TypeOK, Occupancy, Slots

-----------------------------------------------------------------------------
(***************************************************************************)
(* What one atomic section does to the ring.                               *)
(***************************************************************************)

\* TOS_post's test of one slot decides whether the whole ring is full.
LEMMA FreeSlotMeansRoom ==
  ASSUME RingInv
  PROVE  TOSH_queue[TOSH_sched_free] = NoTask <=> Occupancy < MaxTasks
  <1>1. Occupancy \in 0 .. MaxTasks /\ TOSH_sched_full \in Slots
    BY OccupancyType DEF RingInv, TypeOK
  <1>2. CASE Occupancy < MaxTasks
    <2>1. Occupancy \in Slots
      BY <1>1, <1>2, MaxTasksAssumption DEF Slots
    <2>2. TOSH_queue[Mask(TOSH_sched_full + Occupancy)] # NoTask <=> Occupancy < Occupancy
      BY <2>1 DEF RingInv, UsedSlotsAreContiguous
    <2>3. TOSH_sched_free = Mask(TOSH_sched_full + Occupancy)
      BY DEF RingInv, IndicesAgree
    <2>4. ~(Occupancy < Occupancy)
      BY <1>1
    <2>5. TOSH_queue[TOSH_sched_free] = NoTask
      BY <2>2, <2>3, <2>4
    <2>6. QED
      BY <1>2, <2>5
  <1>3. CASE Occupancy = MaxTasks
    <2>1. 0 \in Slots /\ 0 < Occupancy
      BY <1>3, MaxTasksAssumption DEF Slots
    <2>2. Mask(TOSH_sched_full + 0) = TOSH_sched_full
      BY <1>1, MaskValue, MaxTasksAssumption DEF Slots
    <2>3. Mask(TOSH_sched_full + Occupancy) = TOSH_sched_full
      BY <1>1, <1>3, MaskValue, MaxTasksAssumption DEF Slots
    <2>4. TOSH_queue[Mask(TOSH_sched_full + 0)] # NoTask
      BY <2>1 DEF RingInv, UsedSlotsAreContiguous
    <2>5. TOSH_sched_free = TOSH_sched_full
      BY <2>3 DEF RingInv, IndicesAgree
    <2>6. ~(Occupancy < MaxTasks)
      BY <1>3, MaxTasksAssumption
    <2>7. QED
      BY <2>2, <2>4, <2>5, <2>6
  <1>4. QED
    BY <1>1, <1>2, <1>3, MaxTasksAssumption

\* A successful post lengthens the run of used slots by one.
LEMMA PostStep ==
  ASSUME RingInv, NEW t \in Tasks, TOS_post(t), TOSH_queue[TOSH_sched_free] = NoTask
  PROVE  /\ TOSH_queue' \in [Slots -> Tasks \union {NoTask}]
         /\ TOSH_sched_full' = TOSH_sched_full
         /\ TOSH_sched_free' \in Slots
         /\ Occupancy' = Occupancy + 1
         /\ UsedSlotsAreContiguous'
         /\ IndicesAgree'
  <1> DEFINE c == Occupancy
             f == TOSH_sched_full
  <1>1. c \in Slots /\ c + 1 \in 0 .. MaxTasks
    BY OccupancyType, FreeSlotMeansRoom, MaxTasksAssumption DEF RingInv, Slots
  <1>2. /\ f \in Slots
        /\ TOSH_sched_free \in Slots
        /\ TOSH_sched_free = Mask(f + c)
        /\ TOSH_sched_full' = f
        /\ TOSH_sched_free' = Mask(TOSH_sched_free + 1)
        /\ TOSH_queue' = [TOSH_queue EXCEPT ![TOSH_sched_free] = t]
        /\ TOSH_queue \in [Slots -> Tasks \union {NoTask}]
    BY DEF RingInv, TypeOK, IndicesAgree, TOS_post
  <1>3. TOSH_sched_free' \in Slots /\ TOSH_sched_free' = Mask(f + (c + 1))
    BY <1>1, <1>2, MaskBorder
  <1>4. \A k \in Slots : TOSH_queue'[Mask(f + k)] # NoTask <=> k < c + 1
    <2> SUFFICES ASSUME NEW k \in Slots
                 PROVE  TOSH_queue'[Mask(f + k)] # NoTask <=> k < c + 1
      OBVIOUS
    <2>1. Mask(f + k) \in Slots
      BY <1>2, MaskType, MaxTasksAssumption DEF Slots
    <2>2. CASE k = c
      BY <1>1, <1>2, <2>1, <2>2, TaskAssumption DEF Slots
    <2>3. CASE k # c
      <3>1. Mask(f + k) # TOSH_sched_free
        BY <1>1, <1>2, <2>3, MaskInjective
      <3>2. TOSH_queue'[Mask(f + k)] = TOSH_queue[Mask(f + k)]
        BY <1>2, <2>1, <3>1
      <3>3. QED
        BY <1>1, <2>3, <3>2 DEF RingInv, UsedSlotsAreContiguous, Slots
    <2>4. QED
      BY <2>2, <2>3
  <1>5. Occupancy' = c + 1
    <2>1. 0 \in Slots /\ Mask(f + 0) = f
      BY <1>2, MaskValue, MaxTasksAssumption DEF Slots
    <2>2. TOSH_queue'[f] # NoTask <=> c + 1 > 0
      BY <1>1, <1>4, <2>1 DEF Slots
    <2> HIDE DEF c, f
    <2>3. (IF TOSH_queue'[f] = NoTask THEN 0
           ELSE IF TOSH_sched_free' > f THEN TOSH_sched_free' - f
                ELSE TOSH_sched_free' + MaxTasks - f) = c + 1
      BY <1>1, <1>2, <1>3, <2>2, OccupancyValue
    <2>4. QED
      BY <1>2, <2>3 DEF Occupancy
  <1>6. QED
    BY <1>2, <1>3, <1>4, <1>5 DEF UsedSlotsAreContiguous, IndicesAgree

\* Dispatching removes the first used slot.
LEMMA RunStep ==
  ASSUME RingInv, RunTask
  PROVE  /\ TOSH_queue' \in [Slots -> Tasks \union {NoTask}]
         /\ TOSH_sched_full' \in Slots
         /\ TOSH_sched_full' = Mask(TOSH_sched_full + 1)
         /\ TOSH_sched_free' = TOSH_sched_free
         /\ Occupancy > 0
         /\ Occupancy' = Occupancy - 1
         /\ UsedSlotsAreContiguous'
         /\ IndicesAgree'
  <1> DEFINE c == Occupancy
             f == TOSH_sched_full
  <1>1. c \in 1 .. MaxTasks /\ c - 1 \in 0 .. MaxTasks /\ c - 1 \in Slots
    BY OccupancyType, MaxTasksAssumption DEF RingInv, RunTask, Slots
  <1>2. /\ f \in Slots
        /\ TOSH_sched_free = Mask(f + c)
        /\ TOSH_sched_full' = Mask(f + 1)
        /\ TOSH_sched_free' = TOSH_sched_free
        /\ TOSH_queue' = [TOSH_queue EXCEPT ![f] = NoTask]
        /\ TOSH_queue \in [Slots -> Tasks \union {NoTask}]
    BY DEF RingInv, TypeOK, IndicesAgree, RunTask
  <1>3. /\ TOSH_sched_full' \in Slots
        /\ \A k \in Slots : Mask(TOSH_sched_full' + k) = Mask(f + Mask(k + 1))
    BY <1>2, MaskShift
  <1>4. TOSH_sched_free' = Mask(TOSH_sched_full' + (c - 1))
    <2>1. (c - 1) + 1 = c
      BY <1>1
    <2>2. QED
      BY <1>1, <1>2, <2>1, MaskBorder
  <1>5. \A k \in Slots : TOSH_queue'[Mask(TOSH_sched_full' + k)] # NoTask <=> k < c - 1
    <2> SUFFICES ASSUME NEW k \in Slots
                 PROVE  TOSH_queue'[Mask(f + Mask(k + 1))] # NoTask <=> k < c - 1
      BY <1>3
    <2>0. 0 \in Slots /\ Mask(f + 0) = f
      BY <1>2, MaskValue, MaxTasksAssumption DEF Slots
    <2>1. CASE k = MaxTasks - 1
      <3>1. Mask(k + 1) = 0
        BY <2>1, MaskValue, MaxTasksAssumption DEF Slots
      <3>2. QED
        BY <1>1, <1>2, <2>0, <2>1, <3>1, MaxTasksAssumption
    <2>2. CASE k < MaxTasks - 1
      <3>1. k + 1 \in Slots /\ Mask(k + 1) = k + 1
        BY <2>2, MaskValue, MaxTasksAssumption DEF Slots
      <3>2. Mask(f + (k + 1)) # f
        <4>1. k + 1 # 0
          BY DEF Slots
        <4>2. QED
          BY <1>2, <2>0, <3>1, <4>1, MaskInjective
      <3>3. Mask(f + (k + 1)) \in Slots
        BY <1>2, <3>1, MaskType, MaxTasksAssumption DEF Slots
      <3>4. TOSH_queue'[Mask(f + (k + 1))] = TOSH_queue[Mask(f + (k + 1))]
        BY <1>2, <3>2, <3>3
      <3>5. TOSH_queue[Mask(f + (k + 1))] # NoTask <=> k + 1 < c
        BY <3>1 DEF RingInv, UsedSlotsAreContiguous
      <3>6. QED
        BY <1>1, <3>1, <3>4, <3>5 DEF Slots
    <2>3. QED
      BY <2>1, <2>2, MaxTasksAssumption DEF Slots
  <1>6. Occupancy' = c - 1
    <2>1. 0 \in Slots /\ Mask(TOSH_sched_full' + 0) = TOSH_sched_full'
      BY <1>3, MaskValue, MaxTasksAssumption DEF Slots
    <2>2. TOSH_queue'[TOSH_sched_full'] # NoTask <=> c - 1 > 0
      BY <1>1, <1>5, <2>1 DEF Slots
    <2>3. TOSH_sched_full' \in Slots /\ c - 1 \in 0 .. MaxTasks
      BY <1>1, <1>3
    <2> HIDE DEF c, f
    <2>4. (IF TOSH_queue'[TOSH_sched_full'] = NoTask THEN 0
           ELSE IF TOSH_sched_free' > TOSH_sched_full' THEN TOSH_sched_free' - TOSH_sched_full'
                ELSE TOSH_sched_free' + MaxTasks - TOSH_sched_full') = c - 1
      BY ONLY <1>4, <2>2, <2>3, OccupancyValue
    <2>5. QED
      BY <2>4 DEF Occupancy
  <1>7. QED
    BY <1>1, <1>2, <1>3, <1>4, <1>5, <1>6 DEF UsedSlotsAreContiguous, IndicesAgree

-----------------------------------------------------------------------------
(***************************************************************************)
(* The inductive invariant.                                                *)
(***************************************************************************)

\* Only the main loop sleeps, and only over an empty ring.
SleepInv == asleep => running = NoTask /\ Occupancy = 0

IInv == RingInv /\ SleepInv

\* The boot state satisfies the inductive invariant.
LEMMA InitInv == Init => IInv
  <1> SUFFICES ASSUME Init PROVE IInv
    OBVIOUS
  <1>1. TypeOK
    <2>1. 0 \in Slots
      BY MaxTasksAssumption DEF Slots
    <2>2. TOSH_queue \in [Slots -> Tasks \union {NoTask}]
      BY DEF Init
    <2>3. QED
      BY <2>1, <2>2 DEF Init, TypeOK
  <1>2. Occupancy = 0
    BY MaxTasksAssumption DEF Init, Occupancy, Slots
  <1>3. UsedSlotsAreContiguous
    <2> SUFFICES ASSUME NEW k \in Slots
                 PROVE  TOSH_queue[Mask(TOSH_sched_full + k)] # NoTask <=> k < Occupancy
      BY DEF UsedSlotsAreContiguous
    <2>1. Mask(TOSH_sched_full + k) \in Slots
      BY MaskType, MaxTasksAssumption DEF Init, Slots
    <2>2. TOSH_queue[Mask(TOSH_sched_full + k)] = NoTask
      BY <2>1 DEF Init
    <2>3. ~(k < 0)
      BY DEF Slots
    <2>4. QED
      BY <1>2, <2>2, <2>3
  <1>4. IndicesAgree
    <2>1. Mask(0 + 0) = 0
      BY MaskValue, MaxTasksAssumption
    <2>2. QED
      BY <1>2, <2>1 DEF Init, IndicesAgree
  <1>5. SleepInv
    BY DEF Init, SleepInv
  <1>6. QED
    BY <1>1, <1>3, <1>4, <1>5 DEF IInv, RingInv

\* A post, whether it succeeds or not, preserves the invariant of the ring.
LEMMA PostKeepsRing ==
  ASSUME RingInv, NEW t \in Tasks, TOS_post(t),
         running' \in Tasks \union {NoTask, Boot}, asleep' \in BOOLEAN
  PROVE  RingInv'
  <1>1. posted' \in BOOLEAN
    BY DEF TOS_post
  <1>2. CASE TOSH_queue[TOSH_sched_free] = NoTask
    <2>1. /\ TOSH_queue' \in [Slots -> Tasks \union {NoTask}]
          /\ TOSH_sched_full' = TOSH_sched_full
          /\ TOSH_sched_free' \in Slots
          /\ UsedSlotsAreContiguous'
          /\ IndicesAgree'
      BY <1>2, PostStep
    <2>2. TOSH_sched_full \in Slots
      BY DEF RingInv, TypeOK
    <2>3. QED
      BY <1>1, <2>1, <2>2 DEF RingInv, TypeOK
  <1>3. CASE TOSH_queue[TOSH_sched_free] # NoTask
    <2>1. UNCHANGED ring
      BY <1>3 DEF TOS_post, ring
    <2>2. QED
      BY <1>1, <2>1 DEF RingInv, TypeOK, UsedSlotsAreContiguous, IndicesAgree, Occupancy, ring
  <1>4. QED
    BY <1>2, <1>3

\* A step that leaves the ring alone preserves its invariant.
LEMMA IdleKeepsRing ==
  ASSUME RingInv, UNCHANGED <<ring, posted>>,
         running' \in Tasks \union {NoTask, Boot}, asleep' \in BOOLEAN
  PROVE  RingInv' /\ Occupancy' = Occupancy
  BY DEF RingInv, TypeOK, UsedSlotsAreContiguous, IndicesAgree, Occupancy, ring

\* Every step preserves the inductive invariant.
LEMMA NextInv == IInv /\ [Next]_vars => IInv'
  <1> SUFFICES ASSUME IInv, [Next]_vars PROVE IInv'
    OBVIOUS
  <1>0. /\ RingInv
        /\ SleepInv
        /\ running \in Tasks \union {NoTask, Boot}
        /\ asleep \in BOOLEAN
    BY DEF IInv, RingInv, TypeOK
  <1>1. ASSUME NEW t \in Tasks, TaskPosts(t) PROVE IInv'
    <2>1. RingInv'
      BY <1>0, <1>1, PostKeepsRing DEF TaskPosts
    <2>2. SleepInv'
      BY <1>0, <1>1 DEF TaskPosts, SleepInv
    <2>3. QED
      BY <2>1, <2>2 DEF IInv
  <1>2. ASSUME NEW t \in Tasks, InterruptPosts(t) PROVE IInv'
    <2>1. RingInv'
      BY <1>0, <1>2, PostKeepsRing DEF InterruptPosts
    <2>2. SleepInv'
      BY <1>2 DEF InterruptPosts, SleepInv
    <2>3. QED
      BY <2>1, <2>2 DEF IInv
  <1>3. CASE InterruptOnly
    <2>1. RingInv'
      BY <1>0, <1>3, IdleKeepsRing DEF InterruptOnly
    <2>2. SleepInv'
      BY <1>3 DEF InterruptOnly, SleepInv
    <2>3. QED
      BY <2>1, <2>2 DEF IInv
  <1>4. CASE RunTask
    <2>1. /\ TOSH_queue' \in [Slots -> Tasks \union {NoTask}]
          /\ TOSH_sched_full' \in Slots
          /\ TOSH_sched_free' = TOSH_sched_free
          /\ UsedSlotsAreContiguous'
          /\ IndicesAgree'
      BY <1>0, <1>4, RunStep
    <2>2. running' \in Tasks \union {NoTask, Boot} /\ asleep' = asleep /\ posted' = posted
      BY <1>0, <1>4 DEF RunTask, RingInv, TypeOK
    <2>3. RingInv'
      BY <1>0, <2>1, <2>2 DEF RingInv, TypeOK
    <2>4. SleepInv'
      BY <1>4 DEF RunTask, SleepInv
    <2>5. QED
      BY <2>3, <2>4 DEF IInv
  <1>5. CASE GoToSleep
    <2>1. RingInv' /\ Occupancy' = Occupancy
      BY <1>0, <1>5, IdleKeepsRing DEF GoToSleep
    <2>2. Occupancy = 0
      BY <1>5 DEF GoToSleep, Occupancy
    <2>3. SleepInv'
      BY <1>5, <2>1, <2>2 DEF GoToSleep, SleepInv
    <2>4. QED
      BY <2>1, <2>3 DEF IInv
  <1>6. CASE FunctionReturns
    <2>1. RingInv'
      BY <1>0, <1>6, IdleKeepsRing DEF FunctionReturns
    <2>2. SleepInv'
      BY <1>0, <1>6 DEF FunctionReturns, SleepInv
    <2>3. QED
      BY <2>1, <2>2 DEF IInv
  <1>7. CASE UNCHANGED vars
    <2>1. RingInv' /\ Occupancy' = Occupancy
      BY <1>0, <1>7, IdleKeepsRing DEF vars, ring
    <2>2. SleepInv'
      BY <1>0, <1>7, <2>1 DEF vars, SleepInv
    <2>3. QED
      BY <2>1, <2>2 DEF IInv
  <1>8. QED
    BY <1>1, <1>2, <1>3, <1>4, <1>5, <1>6, <1>7 DEF Next

\* The inductive invariant holds in every reachable state.
THEOREM Invariance == Spec => []IInv
  BY InitInv, NextInv, PTL DEF Spec

\* The indices stay inside the ring for every ring size.
THEOREM TypeCorrect == Spec => []TypeOK
  <1>1. IInv => TypeOK
    BY DEF IInv, RingInv
  <1>2. QED
    BY Invariance, <1>1, PTL

\* The ring has no hole and leaves no task behind its head.
THEOREM RingIsContiguous == Spec => []UsedSlotsAreContiguous
  <1>1. IInv => UsedSlotsAreContiguous
    BY DEF IInv, RingInv
  <1>2. QED
    BY Invariance, <1>1, PTL

\* TOSH_sched_free marks the end of the used slots however often it has wrapped.
THEOREM IndicesAlwaysAgree == Spec => []IndicesAgree
  <1>1. IInv => IndicesAgree
    BY DEF IInv, RingInv
  <1>2. QED
    BY Invariance, <1>1, PTL

\* The processor never sleeps while a task waits, in any slot of the ring.
THEOREM NeverSleepsOverTask == Spec => []NoSleepOverTask
  <1>1. IInv => NoSleepOverTask
    <2> SUFFICES ASSUME IInv, asleep, NEW i \in Slots
                 PROVE  TOSH_queue[i] = NoTask
      BY DEF NoSleepOverTask
    <2>1. TOSH_sched_full \in Slots /\ Occupancy = 0
      BY DEF IInv, RingInv, TypeOK, SleepInv
    <2>2. PICK k \in Slots : Mask(TOSH_sched_full + k) = i
      BY <2>1, MaskSurjective
    <2>3. TOSH_queue[Mask(TOSH_sched_full + k)] # NoTask <=> k < Occupancy
      BY DEF IInv, RingInv, UsedSlotsAreContiguous
    <2>4. ~(k < 0)
      BY DEF Slots
    <2>5. QED
      BY <2>1, <2>2, <2>3, <2>4
  <1>2. QED
    BY Invariance, <1>1, PTL

-----------------------------------------------------------------------------
(***************************************************************************)
(* The ring implements the bounded FIFO.                                   *)
(***************************************************************************)

\* Reading the ring from its head gives a sequence of tasks as long as the
\* ring is occupied.
LEMMA WaitingType ==
  ASSUME RingInv
  PROVE  Waiting \in Seq(Tasks) /\ Len(Waiting) = Occupancy
  <1>1. Occupancy \in 0 .. MaxTasks /\ TOSH_sched_full \in Slots
    BY OccupancyType DEF RingInv, TypeOK
  <1>2. ASSUME NEW k \in 1 .. Occupancy
        PROVE  TOSH_queue[Mask(TOSH_sched_full + k - 1)] \in Tasks
    <2>1. k - 1 \in Slots /\ k - 1 < Occupancy /\ TOSH_sched_full + (k - 1) = TOSH_sched_full + k - 1
      BY <1>1, MaxTasksAssumption DEF Slots
    <2>2. TOSH_queue[Mask(TOSH_sched_full + (k - 1))] # NoTask
      BY <2>1 DEF RingInv, UsedSlotsAreContiguous
    <2>3. Mask(TOSH_sched_full + (k - 1)) \in Slots
      BY <1>1, <2>1, MaskType, MaxTasksAssumption DEF Slots
    <2>4. QED
      BY <1>1, <2>1, <2>2, <2>3, TaskAssumption DEF RingInv, TypeOK
  <1> DEFINE n == Occupancy
             e(k) == TOSH_queue[Mask(TOSH_sched_full + k - 1)]
  <1>3. n \in Nat /\ \A k \in 1 .. n : e(k) \in Tasks
    BY <1>1, <1>2
  <1>4. Waiting = [k \in 1 .. n |-> e(k)]
    BY DEF Waiting
  <1> HIDE DEF n, e
  <1>5. Waiting \in Seq(Tasks) /\ Len(Waiting) = n
    BY <1>3, <1>4
  <1>6. QED
    BY <1>5 DEF n

\* A step that leaves the ring alone leaves the queue it stands for alone.
LEMMA WaitingUnchanged ==
  ASSUME UNCHANGED ring
  PROVE  Waiting' = Waiting
  BY DEF ring, Waiting, Occupancy

\* Append, written as a function.
LEMMA AppendValue ==
  ASSUME NEW S, NEW s \in Seq(S), NEW t \in S
  PROVE  Append(s, t) = [k \in 1 .. Len(s) + 1 |-> IF k = Len(s) + 1 THEN t ELSE s[k]]
  <1>1. /\ Append(s, t) \in Seq(S)
        /\ Len(Append(s, t)) = Len(s) + 1
        /\ \A i \in 1 .. Len(s) : Append(s, t)[i] = s[i]
        /\ Append(s, t)[Len(s) + 1] = t
    BY AppendProperties
  <1>2. Append(s, t) = [k \in 1 .. Len(s) + 1 |-> Append(s, t)[k]]
    BY <1>1, LenProperties
  <1>3. ASSUME NEW k \in 1 .. Len(s) + 1
        PROVE  Append(s, t)[k] = IF k = Len(s) + 1 THEN t ELSE s[k]
    BY <1>1, LenProperties
  <1>4. QED
    BY <1>2, <1>3

\* Tail, written as a function.
LEMMA TailValue ==
  ASSUME NEW S, NEW s \in Seq(S), s # << >>
  PROVE  Tail(s) = [k \in 1 .. Len(s) - 1 |-> s[k + 1]]
  <1>1. /\ Tail(s) \in Seq(S)
        /\ Len(Tail(s)) = Len(s) - 1
        /\ \A i \in 1 .. Len(Tail(s)) : Tail(s)[i] = s[i + 1]
    BY HeadTailProperties
  <1>2. Tail(s) = [k \in 1 .. Len(s) - 1 |-> Tail(s)[k]]
    BY <1>1, LenProperties
  <1>3. QED
    BY <1>1, <1>2

\* A successful post appends to the queue.
LEMMA PostAppends ==
  ASSUME RingInv, NEW t \in Tasks, TOS_post(t), TOSH_queue[TOSH_sched_free] = NoTask
  PROVE  Waiting' = Append(Waiting, t)
  <1> DEFINE c == Occupancy
             f == TOSH_sched_full
  <1>1. c \in Slots /\ c \in Nat /\ f \in Slots
    BY OccupancyType, FreeSlotMeansRoom, MaxTasksAssumption DEF RingInv, TypeOK, Slots
  <1>2. /\ TOSH_sched_full' = f /\ Occupancy' = c + 1
        /\ TOSH_sched_free = Mask(f + c)
        /\ TOSH_queue' = [TOSH_queue EXCEPT ![TOSH_sched_free] = t]
        /\ TOSH_queue \in [Slots -> Tasks \union {NoTask}]
        /\ TOSH_sched_free \in Slots
    BY PostStep DEF RingInv, IndicesAgree, TypeOK, TOS_post
  <1>3. Waiting \in Seq(Tasks) /\ Len(Waiting) = c
    BY WaitingType DEF RingInv
  <1>4. Waiting' = [k \in 1 .. c + 1 |-> TOSH_queue'[Mask(f + k - 1)]]
    BY <1>2 DEF Waiting
  <1>5. ASSUME NEW k \in 1 .. c + 1
        PROVE  TOSH_queue'[Mask(f + k - 1)] = IF k = c + 1 THEN t ELSE Waiting[k]
    <2>1. k - 1 \in Slots /\ f + (k - 1) = f + k - 1
      BY <1>1, MaxTasksAssumption DEF Slots
    <2>2. Mask(f + (k - 1)) \in Slots
      BY <1>1, <2>1, MaskType, MaxTasksAssumption DEF Slots
    <2>3. CASE k = c + 1
      <3>1. k - 1 = c
        BY <1>1, <2>3
      <3>2. Mask(f + (k - 1)) = TOSH_sched_free
        BY <1>2, <3>1
      <3>3. QED
        BY <1>2, <2>1, <2>3, <3>2
    <2>4. CASE k # c + 1
      <3>1. k \in 1 .. c /\ k - 1 # c
        BY <1>1, <2>4
      <3>2. Mask(f + (k - 1)) # TOSH_sched_free
        BY <1>1, <1>2, <2>1, <3>1, MaskInjective
      <3>3. Waiting[k] = TOSH_queue[Mask(f + k - 1)]
        BY <3>1 DEF Waiting
      <3> HIDE DEF c, f
      <3>4. QED
        BY <1>2, <2>1, <2>2, <2>4, <3>2, <3>3
    <2>5. QED
      BY <2>3, <2>4
  <1> HIDE DEF c, f
  <1>6. Append(Waiting, t) = [k \in 1 .. c + 1 |-> IF k = c + 1 THEN t ELSE Waiting[k]]
    BY <1>3, AppendValue
  <1>7. QED
    BY <1>4, <1>5, <1>6

\* Dispatching takes the first task of the queue.
LEMMA RunTakesHead ==
  ASSUME RingInv, RunTask
  PROVE  Waiting # << >> /\ running' = Head(Waiting) /\ Waiting' = Tail(Waiting)
  <1> DEFINE c == Occupancy
             f == TOSH_sched_full
  <1>1. c \in 1 .. MaxTasks /\ c \in Nat /\ f \in Slots
    BY OccupancyType, MaxTasksAssumption DEF RingInv, TypeOK, RunTask, Slots
  <1>2. /\ TOSH_sched_full' = Mask(f + 1) /\ TOSH_sched_full' \in Slots
        /\ Occupancy' = c - 1
        /\ TOSH_queue' = [TOSH_queue EXCEPT ![f] = NoTask]
        /\ TOSH_queue \in [Slots -> Tasks \union {NoTask}]
        /\ running' = TOSH_queue[f]
    BY RunStep DEF RingInv, TypeOK, RunTask
  <1>3. Waiting \in Seq(Tasks) /\ Len(Waiting) = c
    BY WaitingType DEF RingInv
  <1>4. 0 \in Slots /\ Mask(f + 0) = f
    BY <1>1, MaskValue, MaxTasksAssumption DEF Slots
  <1>5. Head(Waiting) = TOSH_queue[f]
    <2>1. 1 \in 1 .. c /\ f + 1 - 1 = f + 0
      BY <1>1 DEF Slots
    <2>2. Waiting[1] = TOSH_queue[f]
      BY <1>4, <2>1 DEF Waiting
    <2>3. QED
      BY <2>2
  <1>6. Waiting' = [k \in 1 .. c - 1 |-> TOSH_queue'[Mask(TOSH_sched_full' + k - 1)]]
    BY <1>2 DEF Waiting
  <1>7. ASSUME NEW k \in 1 .. c - 1
        PROVE  TOSH_queue'[Mask(TOSH_sched_full' + k - 1)] = Waiting[k + 1]
    <2>1. /\ k \in Slots /\ k - 1 \in Slots /\ k # 0 /\ k + 1 \in 1 .. c
          /\ (k - 1) + 1 = k /\ f + (k + 1) - 1 = f + k
          /\ f + k \in 0 .. 2 * MaxTasks - 1 /\ k \in 0 .. 2 * MaxTasks - 1 /\ k < MaxTasks
      BY <1>1, MaxTasksAssumption DEF Slots
    <2>2. TOSH_sched_full' + (k - 1) = TOSH_sched_full' + k - 1
      BY <1>2, <2>1 DEF Slots
    <2>3. Mask(Mask(f + 1) + (k - 1)) = Mask(f + Mask((k - 1) + 1))
      BY <1>1, <2>1, MaskShift
    <2>4. Mask(k) = k
      BY <2>1, MaskValue
    <2>5. Mask(TOSH_sched_full' + k - 1) = Mask(f + k)
      BY <1>2, <2>1, <2>2, <2>3, <2>4
    <2>6. Mask(f + k) # f
      BY <1>1, <1>4, <2>1, MaskInjective
    <2>7. Mask(f + k) \in Slots
      BY <2>1, MaskType
    <2>8. TOSH_queue'[Mask(f + k)] = TOSH_queue[Mask(f + k)]
      BY <1>2, <2>6, <2>7
    <2>9. Waiting[k + 1] = TOSH_queue[Mask(f + k)]
      BY <2>1 DEF Waiting
    <2>10. QED
      BY <2>5, <2>8, <2>9
  <1> HIDE DEF c, f
  <1>8. Tail(Waiting) = [k \in 1 .. c - 1 |-> Waiting[k + 1]]
    <2>1. Waiting # << >>
      BY <1>1, <1>3
    <2>2. QED
      BY <1>3, <2>1, TailValue
  <1>9. QED
    BY <1>1, <1>2, <1>3, <1>5, <1>6, <1>7, <1>8

\* Every step of the ring is a step of the queue or leaves the queue alone.
LEMMA NextRefines == IInv /\ [Next]_vars => [Fifo!Next]_(Fifo!vars)
  <1> SUFFICES ASSUME IInv, [Next]_vars PROVE [Fifo!Next]_(Fifo!vars)
    OBVIOUS
  <1>0. /\ RingInv
        /\ Occupancy \in 0 .. MaxTasks
        /\ Waiting \in Seq(Tasks)
        /\ Len(Waiting) = Occupancy
        /\ Fifo!HasRoom <=> TOSH_queue[TOSH_sched_free] = NoTask
    BY WaitingType, FreeSlotMeansRoom, OccupancyType DEF IInv, RingInv, Fifo!HasRoom
  <1>1. ASSUME NEW t \in Tasks, TOS_post(t) PROVE Fifo!Enqueue(t)
    <2>1. CASE TOSH_queue[TOSH_sched_free] = NoTask
      <3>1. Waiting' = Append(Waiting, t)
        BY <1>0, <1>1, <2>1, PostAppends
      <3>2. posted' = TRUE
        BY <1>1, <2>1 DEF TOS_post
      <3>3. QED
        BY <1>0, <2>1, <3>1, <3>2 DEF Fifo!Enqueue
    <2>2. CASE TOSH_queue[TOSH_sched_free] # NoTask
      <3>1. UNCHANGED ring /\ posted' = FALSE
        BY <1>1, <2>2 DEF TOS_post, ring
      <3>2. Waiting' = Waiting
        BY <3>1, WaitingUnchanged
      <3>3. Fifo!HasRoom = FALSE
        <4>1. ~(Len(Waiting) < MaxTasks)
          BY <1>0, <2>2 DEF Fifo!HasRoom
        <4>2. QED
          BY <4>1 DEF Fifo!HasRoom
      <3>4. QED
        BY <3>1, <3>2, <3>3 DEF Fifo!Enqueue
    <2>3. QED
      BY <2>1, <2>2
  <1>2. ASSUME NEW t \in Tasks, TaskPosts(t) PROVE Fifo!TaskPosts(t)
    BY <1>1, <1>2 DEF TaskPosts, Fifo!TaskPosts
  <1>3. ASSUME NEW t \in Tasks, InterruptPosts(t) PROVE Fifo!InterruptPosts(t)
    BY <1>1, <1>3 DEF InterruptPosts, Fifo!InterruptPosts
  <1>4. CASE InterruptOnly
    BY <1>4, WaitingUnchanged DEF InterruptOnly, Fifo!Next, Fifo!InterruptOnly
  <1>5. CASE RunTask
    <2>1. Waiting # << >> /\ running' = Head(Waiting) /\ Waiting' = Tail(Waiting)
      BY <1>0, <1>5, RunTakesHead
    <2>2. Fifo!Dispatch
      BY <1>5, <2>1 DEF RunTask, Fifo!Dispatch
    <2>3. QED
      BY <2>2 DEF Fifo!Next
  <1>6. CASE GoToSleep
    <2>1. Occupancy = 0
      BY <1>6 DEF GoToSleep, Occupancy
    <2>2. Waiting = << >> /\ Waiting' = Waiting
      BY <1>0, <1>6, <2>1, WaitingUnchanged DEF GoToSleep
    <2>3. Fifo!Sleep
      BY <1>6, <2>2 DEF GoToSleep, Fifo!Sleep
    <2>4. QED
      BY <2>3 DEF Fifo!Next
  <1>7. CASE FunctionReturns
    BY <1>7, WaitingUnchanged DEF FunctionReturns, Fifo!Next, Fifo!Return
  <1>8. CASE UNCHANGED vars
    <2>1. UNCHANGED ring
      BY <1>8 DEF vars, ring
    <2>2. QED
      BY <1>8, <2>1, WaitingUnchanged DEF vars, Fifo!vars
  <1>9. QED
    BY <1>2, <1>3, <1>4, <1>5, <1>6, <1>7, <1>8 DEF Next, Fifo!Next

\* The empty ring is the empty queue.
LEMMA InitRefines == Init => Fifo!Init
  <1> SUFFICES ASSUME Init PROVE Fifo!Init
    OBVIOUS
  <1>1. Occupancy = 0
    BY MaxTasksAssumption DEF Init, Occupancy, Slots
  <1>2. Waiting \in Seq(Tasks) /\ Len(Waiting) = 0
    BY <1>1, InitInv, WaitingType DEF IInv
  <1>3. QED
    BY <1>2 DEF Init, Fifo!Init

\* The ring buffer implements the bounded FIFO for every ring size: tasks run
\* in the order of their posts, each once, and only a full queue refuses one.
THEOREM RingImplementsFifo == Spec => ImplementsFifo
  <1>1. Init => Fifo!Init
    BY InitRefines
  <1>2. IInv /\ [Next]_vars => [Fifo!Next]_(Fifo!vars)
    BY NextRefines
  <1>3. QED
    BY <1>1, <1>2, Invariance, PTL DEF Spec, Fifo!Spec, ImplementsFifo

=============================================================================
