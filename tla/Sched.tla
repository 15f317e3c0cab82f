------------------------------- MODULE Sched --------------------------------
(***************************************************************************)
(* The TinyOS 1.x task scheduler (tos/system/sched.c) together with the    *)
(* main loop that drives it (tos/system/RealMain.nc).                      *)
(*                                                                         *)
(* Tasks are function pointers in a ring of TOSH_MAX_TASKS slots.  A post  *)
(* may come from task context or from an interrupt handler; every access   *)
(* to the ring is one atomic section, hence one action here.  An interrupt *)
(* may strike between any two actions once main() has enabled interrupts,  *)
(* in particular between the removal of a task from the ring and its call, *)
(* and while the task runs.                                                *)
(*                                                                         *)
(* A full ring has free = full, just as an empty one: what tells them      *)
(* apart is the NULL pointer the scheduler leaves in a slot it empties.    *)
(***************************************************************************)
EXTENDS Naturals, Sequences

CONSTANTS
  MaxTasks,   \* TOSH_MAX_TASKS
  Tasks,      \* the task functions of the program
  NoTask,     \* the NULL function pointer
  Boot        \* pseudo task: main() before its loop

\* In C the size is a power of two and the indices are masked with
\* TOSH_TASK_BITMASK, which for a power of two is the remainder used below.
\* Nothing else depends on the power of two.
ASSUME MaxTasksAssumption == MaxTasks \in Nat \ {0}

ASSUME TaskAssumption == NoTask \notin Tasks /\ Boot \notin Tasks /\ NoTask # Boot

VARIABLES
  TOSH_queue,        \* the ring: slot -> task or NoTask
  TOSH_sched_full,   \* index of the first used slot
  TOSH_sched_free,   \* index of the first free slot
  running,           \* the function on the main stack, NoTask in the main loop
  asleep,            \* inside __nesc_atomic_sleep
  posted             \* the value the last TOS_post returned

ring == <<TOSH_queue, TOSH_sched_full, TOSH_sched_free>>
vars == <<TOSH_queue, TOSH_sched_full, TOSH_sched_free, running, asleep, posted>>

Slots == 0 .. MaxTasks - 1

\* x & TOSH_TASK_BITMASK
Mask(x) == x % MaxTasks

\* TOSH_sched_init, then main() runs the components' init and start commands
\* with interrupts still disabled; these commands may post tasks.
Init ==
  /\ TOSH_queue = [i \in Slots |-> NoTask]
  /\ TOSH_sched_full = 0
  /\ TOSH_sched_free = 0
  /\ running = Boot
  /\ asleep = FALSE
  /\ posted = TRUE

-----------------------------------------------------------------------------

\* A faulty TOS_post that does not look whether the slot is free.
TOS_postUnchecked(t) ==
  /\ posted' = TRUE
  /\ TOSH_sched_free' = Mask(TOSH_sched_free + 1)
  /\ TOSH_queue' = [TOSH_queue EXCEPT ![TOSH_sched_free] = t]
  /\ UNCHANGED TOSH_sched_full

\* TOS_post: one atomic section.  The test looks at the slot, not at the
\* indices, so the ring can be filled to its last slot.
TOS_post(t) ==
  /\ posted' = (TOSH_queue[TOSH_sched_free] = NoTask)
  /\ IF TOSH_queue[TOSH_sched_free] = NoTask
       THEN /\ TOSH_sched_free' = Mask(TOSH_sched_free + 1)
            /\ TOSH_queue' = [TOSH_queue EXCEPT ![TOSH_sched_free] = t]
       ELSE UNCHANGED <<TOSH_queue, TOSH_sched_free>>
  /\ UNCHANGED TOSH_sched_full

\* The code that has the processor, a task or the start-up code, posts.
TaskPosts(t) ==
  /\ running # NoTask
  /\ TOS_post(t)
  /\ UNCHANGED <<running, asleep>>

\* A faulty handler exit that resumes the interrupted sleep.
InterruptPostsNoWake(t) ==
  /\ running # Boot
  /\ TOS_post(t)
  /\ UNCHANGED <<running, asleep>>

\* An interrupt handler posts.  The interrupt wakes a sleeping processor.
InterruptPosts(t) ==
  /\ running # Boot
  /\ TOS_post(t)
  /\ asleep' = FALSE
  /\ UNCHANGED running

\* An interrupt whose handler posts nothing wakes the processor too.
InterruptOnly ==
  /\ running # Boot
  /\ asleep
  /\ asleep' = FALSE
  /\ UNCHANGED <<ring, running, posted>>

\* A faulty dispatch that leaves the function pointer in the slot.
RunTaskKeepsSlot ==
  /\ running = NoTask
  /\ ~asleep
  /\ TOSH_queue[TOSH_sched_full] # NoTask
  /\ running' = TOSH_queue[TOSH_sched_full]
  /\ TOSH_sched_full' = Mask(TOSH_sched_full + 1)
  /\ UNCHANGED <<TOSH_queue, TOSH_sched_free, asleep, posted>>

\* TOSH_run_next_task, the branch that removes the head and calls it.
RunTask ==
  /\ running = NoTask
  /\ ~asleep
  /\ TOSH_queue[TOSH_sched_full] # NoTask
  /\ running' = TOSH_queue[TOSH_sched_full]
  /\ TOSH_queue' = [TOSH_queue EXCEPT ![TOSH_sched_full] = NoTask]
  /\ TOSH_sched_full' = Mask(TOSH_sched_full + 1)
  /\ UNCHANGED <<TOSH_sched_free, asleep, posted>>

\* TOSH_run_next_task, the branch that finds no task: it goes to sleep without
\* ending the atomic section in between (__nesc_atomic_sleep).
GoToSleep ==
  /\ running = NoTask
  /\ ~asleep
  /\ TOSH_queue[TOSH_sched_full] = NoTask
  /\ asleep' = TRUE
  /\ UNCHANGED <<ring, running, posted>>

\* func() returns to TOSH_run_task's loop, or main() enters that loop.
FunctionReturns ==
  /\ running # NoTask
  /\ running' = NoTask
  /\ UNCHANGED <<ring, asleep, posted>>

Next ==
  \/ \E t \in Tasks : TaskPosts(t)
  \/ \E t \in Tasks : InterruptPosts(t)
  \/ InterruptOnly
  \/ RunTask
  \/ GoToSleep
  \/ FunctionReturns

Spec == Init /\ [][Next]_vars

\* Tasks run to completion and do not block: what has the processor returns,
\* and the main loop goes on.  Nothing is assumed of interrupts.
FairSpec == Spec /\ WF_vars(RunTask) /\ WF_vars(FunctionReturns)

-----------------------------------------------------------------------------
(***************************************************************************)
(* The queue the ring stands for.                                          *)
(***************************************************************************)

\* How many slots are used; the slot at TOSH_sched_full decides between an
\* empty and a full ring when the two indices are equal.
Occupancy ==
  IF TOSH_queue[TOSH_sched_full] = NoTask THEN 0
  ELSE IF TOSH_sched_free > TOSH_sched_full
         THEN TOSH_sched_free - TOSH_sched_full
         ELSE TOSH_sched_free + MaxTasks - TOSH_sched_full

Waiting == [k \in 1 .. Occupancy |-> TOSH_queue[Mask(TOSH_sched_full + k - 1)]]

Fifo == INSTANCE TaskFifo WITH Capacity <- MaxTasks, fifo <- Waiting

-----------------------------------------------------------------------------
(***************************************************************************)
(* Properties.                                                             *)
(***************************************************************************)

\* Every variable keeps its type; in particular the masked indices stay
\* inside the ring.
TypeOK ==
  /\ TOSH_queue \in [Slots -> Tasks \union {NoTask}]
  /\ TOSH_sched_full \in Slots
  /\ TOSH_sched_free \in Slots
  /\ running \in Tasks \union {NoTask, Boot}
  /\ asleep \in BOOLEAN
  /\ posted \in BOOLEAN

\* The used slots are exactly those from TOSH_sched_full up to, and not
\* including, TOSH_sched_free: no hole that would stall the main loop before
\* a task that waits, no task left behind the head.
UsedSlotsAreContiguous ==
  \A k \in Slots : TOSH_queue[Mask(TOSH_sched_full + k)] # NoTask <=> k < Occupancy

\* The two indices and the occupancy agree, whatever number of times the ring
\* has wrapped.
IndicesAgree == TOSH_sched_free = Mask(TOSH_sched_full + Occupancy)

\* The processor never sleeps while a task waits: the test for an empty ring
\* and the sleep are one atomic section, and an interrupt that posts wakes it.
NoSleepOverTask == asleep => \A i \in Slots : TOSH_queue[i] = NoTask

\* The ring implements the bounded queue: tasks run in the order they were
\* posted, each post runs once, and a post fails only when MaxTasks wait.
ImplementsFifo == Fifo!Spec

\* What the header of sched.c says of the ring: "The list keeps at least one
\* empty slot; one cannot add a task if advancing free would make it equal to
\* full."  TOS_post looks at the slot and not at the indices, and fills it.
OneSlotStaysEmpty == \E i \in Slots : TOSH_queue[i] = NoTask

\* Every post that succeeded is eventually dispatched: its slot is emptied,
\* which only TOSH_run_next_task does, whatever interrupts post meanwhile.
WaitingTaskRuns ==
  \A i \in Slots : (TOSH_queue[i] # NoTask) ~> (TOSH_queue[i] = NoTask)

=============================================================================
