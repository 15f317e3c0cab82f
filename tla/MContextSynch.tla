--------------------------- MODULE MContextSynch ----------------------------
(***************************************************************************)
(* How the contexts (threads) of the Mate virtual machine share variables: *)
(* MContextSynch with MLocks and MQueue (tos/lib/VM/components).  A        *)
(* context takes all the locks its handler uses at once, or waits in the   *)
(* ready queue; it may give some up when it yields.                        *)
(*                                                                         *)
(* Everything here runs in tasks, one at a time.  The loop of yieldContext *)
(* is taken one round per step; while it is under way nothing else of the  *)
(* virtual machine runs.                                                   *)
(***************************************************************************)
EXTENDS Sequences, FiniteSets, Integers

CONSTANTS
  Contexts,
  Locks,
  None         \* no context

ASSUME ContextAssumption == None \notin Contexts

VARIABLES
  holder,      \* locks[l].holder
  heldSet, releaseSet, acquireSet,
  state,       \* MATE_STATE_...
  queue,       \* context->queue: the queue the context believes to be in
  list,        \* the contexts in each queue
  taskRunning,
  inErrorState,
  yielder,     \* the context whose yieldContext is under way, or None
  start,       \* the first context this yieldContext could not resume
  halting      \* the context whose haltContext is under way, or None

synchVars ==
  <<holder, heldSet, releaseSet, acquireSet, state, queue, list,
    taskRunning, inErrorState, yielder, start, halting>>

States == {"HALT", "WAITING", "READY", "RUN", "BLOCKED"}

\* readyQueue: waits for locks; runQueue: may run; sendWaitQueue of OPsendM.
Queues == {"ready", "run", "send"}

isRunnable(c) == \A l \in acquireSet[c] : holder[l] = None

\* A faulty version that does not look whether the context is in a queue.
EnqueueAnyway(c, q, s) ==
  /\ queue' = [queue EXCEPT ![c] = q]
  /\ list' = [list EXCEPT ![q] = Append(@, c)]
  /\ state' = [state EXCEPT ![c] = s]
  /\ UNCHANGED inErrorState

(***************************************************************************)
(* Queue.enqueue: to put a context into a queue while it believes to be in *)
(* one is an error of the virtual machine, and halts the context.          *)
(***************************************************************************)
Enqueue(c, q, s) ==
  LET out == queue[c] = "none"
  IN  /\ queue' = [queue EXCEPT ![c] = IF out THEN q ELSE @]
      /\ list' = [list EXCEPT ![q] = IF out THEN Append(@, c) ELSE @]
      /\ state' = [state EXCEPT ![c] = IF out THEN s ELSE "HALT"]
      /\ inErrorState' = (inErrorState \/ ~ out)

\* list_remove: s without c.  The element of a context that a list initialized
\* again has lost is unlinked from its old neighbours only.
Without(s, c) ==
  LET at == {i \in DOMAIN s : s[i] = c}
  IN  IF at = {} THEN s
      ELSE [i \in 1 .. Len(s) - 1 |-> IF \A j \in at : i < j THEN s[i] ELSE s[i + 1]]

\* Queue.remove
RemoveFromQueue(c) ==
  /\ queue' = [queue EXCEPT ![c] = "none"]
  /\ list' = [q \in Queues |-> IF q = queue[c] THEN Without(list[q], c) ELSE list[q]]

\* A faulty version that forgets to clear the acquire set.
obtainLocksAgain(c) ==
  /\ holder' = [l \in Locks |-> IF l \in acquireSet[c] THEN c ELSE holder[l]]
  /\ heldSet' = [heldSet EXCEPT ![c] = @ \cup acquireSet[c]]
  /\ UNCHANGED acquireSet

obtainLocks(c) ==
  /\ holder' = [l \in Locks |-> IF l \in acquireSet[c] THEN c ELSE holder[l]]
  /\ heldSet' = [heldSet EXCEPT ![c] = @ \cup acquireSet[c]]
  /\ acquireSet' = [acquireSet EXCEPT ![c] = {}]

(***************************************************************************)
(* resumeContext: c gets its locks and is submitted to the scheduler, or   *)
(* waits.                                                                  *)
(***************************************************************************)
resumeContext(c) ==
  /\ \/ /\ isRunnable(c)
        /\ obtainLocks(c)
        /\ Enqueue(c, "run", "READY")
        /\ taskRunning' = TRUE
     \/ /\ ~ isRunnable(c)
        /\ Enqueue(c, "ready", "WAITING")
        /\ UNCHANGED <<holder, heldSet, acquireSet, taskRunning>>
  /\ UNCHANGED <<releaseSet, yielder, start, halting>>

\* A faulty version that leaves the lock in the held set.
UnlockTable(c, S) ==
  /\ holder' = [l \in Locks |-> IF l \in S THEN None ELSE holder[l]]
  /\ releaseSet' = [releaseSet EXCEPT ![c] = {}]
  /\ UNCHANGED heldSet

(***************************************************************************)
(* yieldContext: the locks of the release set are unlocked, and then every *)
(* context in the ready queue is tried.  unlock does not look who holds    *)
(* the lock.  The instruction has set the state of c to s.                 *)
(***************************************************************************)
Unlock(c, S) ==
  /\ holder' = [l \in Locks |-> IF l \in S THEN None ELSE holder[l]]
  /\ heldSet' = [heldSet EXCEPT ![c] = @ \ S]
  /\ releaseSet' = [releaseSet EXCEPT ![c] = {}]

\* A faulty yield that does not look at the ready queue.
yieldContextAlone(c, s) ==
  /\ Unlock(c, releaseSet[c])
  /\ state' = [state EXCEPT ![c] = s]
  /\ UNCHANGED <<acquireSet, queue, list, taskRunning, inErrorState,
                 yielder, start, halting>>

yieldContext(c, s) ==
  /\ Unlock(c, releaseSet[c])
  /\ state' = [state EXCEPT ![c] = s]
  /\ yielder' = c
  /\ start' = None
  /\ UNCHANGED <<acquireSet, queue, list, taskRunning, inErrorState, halting>>

\* One round of the loop, for the context at the head of the ready queue.
ResumeNext ==
  /\ yielder # None
  /\ list["ready"] # << >>
  /\ \E current \in Contexts :
       /\ current = Head(list["ready"])
       /\ \/ /\ isRunnable(current)
             /\ obtainLocks(current)
             /\ state' = [state EXCEPT ![current] = "READY"]
             /\ queue' = [queue EXCEPT ![current] = "run"]
             /\ list' = [list EXCEPT !["ready"] = Tail(@), !["run"] = Append(@, current)]
             /\ taskRunning' = TRUE
             /\ UNCHANGED <<yielder, start>>
          \/ /\ ~ isRunnable(current)
             /\ state' = [state EXCEPT ![current] = "WAITING"]
             /\ list' = [list EXCEPT !["ready"] = Append(Tail(@), current)]
             /\ yielder' = IF start = current THEN None ELSE yielder
             /\ start' = IF start = None THEN current ELSE start
             /\ UNCHANGED <<holder, heldSet, acquireSet, queue, taskRunning>>
  /\ UNCHANGED <<releaseSet, inErrorState, halting>>

YieldReturns ==
  /\ yielder # None
  /\ list["ready"] = << >>
  /\ yielder' = None
  /\ UNCHANGED <<holder, heldSet, releaseSet, acquireSet, state, queue, list,
                 taskRunning, inErrorState, start, halting>>

(***************************************************************************)
(* haltContext: the context gives up all its locks, yields, and is then    *)
(* taken out of the queue it is in.  OPhalt has set its state already.     *)
(* (haltTask and hasHalted only signal ContextStatus.halted, which has no  *)
(* effect on the virtual machine, and are left out.)                       *)
(***************************************************************************)
haltContext(c, s) ==
  /\ Unlock(c, heldSet[c])
  /\ state' = [state EXCEPT ![c] = s]
  /\ yielder' = c
  /\ start' = None
  /\ halting' = c
  /\ UNCHANGED <<acquireSet, queue, list, taskRunning, inErrorState>>

HaltReturns ==
  /\ halting # None
  /\ yielder = None
  /\ halting' = None
  /\ IF state[halting] = "HALT"
       THEN UNCHANGED <<state, queue, list>>
       ELSE /\ state' = [state EXCEPT ![halting] = "HALT"]
            /\ RemoveFromQueue(halting)
  /\ UNCHANGED <<holder, heldSet, releaseSet, acquireSet, taskRunning,
                 inErrorState, yielder, start>>

\* initializeContext, with uses the locks the analysis found in the handler.
initializeContext(c, uses) ==
  /\ heldSet' = [heldSet EXCEPT ![c] = {}]
  /\ releaseSet' = [releaseSet EXCEPT ![c] = {}]
  /\ acquireSet' = [acquireSet EXCEPT ![c] = uses]
  /\ RemoveFromQueue(c)
  /\ state' = [state EXCEPT ![c] = "HALT"]
  /\ UNCHANGED <<holder, taskRunning, inErrorState, yielder, start, halting>>

SynchInit ==
  /\ holder = [l \in Locks |-> None]
  /\ heldSet = [c \in Contexts |-> {}]
  /\ releaseSet = [c \in Contexts |-> {}]
  /\ acquireSet = [c \in Contexts |-> {}]
  /\ state = [c \in Contexts |-> "HALT"]
  /\ queue = [c \in Contexts |-> "none"]
  /\ list = [q \in Queues |-> << >>]
  /\ taskRunning = FALSE
  /\ inErrorState = FALSE
  /\ yielder = None
  /\ start = None
  /\ halting = None

=============================================================================
