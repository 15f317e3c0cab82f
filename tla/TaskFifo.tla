------------------------------ MODULE TaskFifo ------------------------------
(***************************************************************************)
(* What the TinyOS task scheduler promises to the components above it: a   *)
(* bounded first-in first-out queue of tasks, run to completion one at a   *)
(* time, and a processor that sleeps only when there is nothing to run.    *)
(*                                                                         *)
(* Sched.tla, the ring buffer of sched.c, implements this module.  TimerM  *)
(* and the message stack are composed with this module instead of the ring *)
(* buffer.                                                                 *)
(***************************************************************************)
EXTENDS Naturals, Sequences

CONSTANTS
  Capacity,   \* how many tasks can wait
  Tasks,      \* the tasks of the program
  NoTask,     \* "no task is running"
  Boot        \* main()'s start-up code is running

VARIABLES
  fifo,       \* the tasks that wait, oldest first
  running,    \* the task that has the processor, Boot, or NoTask
  asleep,     \* the processor sleeps
  posted      \* what the last post returned

vars == <<fifo, running, asleep, posted>>

TypeOK ==
  /\ fifo \in Seq(Tasks)
  /\ Len(fifo) <= Capacity
  /\ running \in Tasks \union {NoTask, Boot}
  /\ asleep \in BOOLEAN
  /\ posted \in BOOLEAN

Init ==
  /\ fifo = << >>
  /\ running = Boot
  /\ asleep = FALSE
  /\ posted = TRUE

-----------------------------------------------------------------------------

\* A post succeeds exactly when there is room.
HasRoom == Len(fifo) < Capacity

Enqueue(t) ==
  /\ posted' = HasRoom
  /\ fifo' = IF HasRoom THEN Append(fifo, t) ELSE fifo

TaskPosts(t) ==
  /\ running # NoTask
  /\ Enqueue(t)
  /\ UNCHANGED <<running, asleep>>

InterruptPosts(t) ==
  /\ running # Boot
  /\ Enqueue(t)
  /\ asleep' = FALSE
  /\ UNCHANGED running

InterruptOnly ==
  /\ running # Boot
  /\ asleep' = FALSE
  /\ UNCHANGED <<fifo, running, posted>>

Dispatch ==
  /\ running = NoTask
  /\ ~asleep
  /\ fifo # << >>
  /\ running' = Head(fifo)
  /\ fifo' = Tail(fifo)
  /\ UNCHANGED <<asleep, posted>>

Sleep ==
  /\ running = NoTask
  /\ ~asleep
  /\ fifo = << >>
  /\ asleep' = TRUE
  /\ UNCHANGED <<fifo, running, posted>>

Return ==
  /\ running # NoTask
  /\ running' = NoTask
  /\ UNCHANGED <<fifo, asleep, posted>>

Next ==
  \/ \E t \in Tasks : TaskPosts(t)
  \/ \E t \in Tasks : InterruptPosts(t)
  \/ InterruptOnly
  \/ Dispatch
  \/ Sleep
  \/ Return

Spec == Init /\ [][Next]_vars

=============================================================================
