---------------------------- MODULE MateEngineM -----------------------------
(***************************************************************************)
(* The Mate virtual machine around MContextSynch: the scheduler of         *)
(* contexts (MateEngineM), the instructions that matter to it (the         *)
(* variables of OPgetsetvar4M, OPunlockM, OPpunlockM, OPsleepM, OPsendM,   *)
(* OPhaltM), the contexts that timers and reboots start (Timer0ContextM,   *)
(* OnceContextM), and the installation of new code (MHandlerStore, and     *)
(* MVirus as it uses the engine).                                          *)
(*                                                                         *)
(* A program is any sequence of these instructions that uses the variables *)
(* it holds and releases the locks it holds.  Posting a task never fails   *)
(* here.                                                                   *)
(***************************************************************************)
EXTENDS MContextSynch

CONSTANTS
  Once,         \* the contexts that run once after their code is installed
  Uses,         \* the locks the handler of each context uses at first
  Quantum,      \* MATE_CPU_QUANTUM
  Slice,        \* MATE_CPU_SLICE
  Installable,  \* the contexts whose handlers may change
  NewUses,      \* the lock sets a new handler may use
  MaxInstalls   \* a bound: how often new code arrives

ASSUME EngineAssumption ==
  /\ Once \subseteq Contexts
  /\ Installable \subseteq Contexts
  /\ NewUses \subseteq SUBSET Locks
  /\ Uses \in [Contexts -> SUBSET Locks]
  /\ Quantum \in Nat \ {0}
  /\ Slice \in Nat \ {0}
  /\ MaxInstalls \in Nat

VARIABLES
  task,            \* the task that is running, or "none"
  target,          \* the context this task is about
  todo,            \* contexts rebootTask has yet to tell
  instructions,    \* what RunTask may still execute
  runningContext, iCount,
  halted,          \* "no", "asked", or "seen" once no RunTask from before is left
  sleeping,        \* contexts with an active entry in the table of OPsleepM
  busy, sendingContext,
  usedVars, hasRun,
  rebooting,       \* rebootTasks in the task queue, but for those behind RunTask
  behind,          \* rebootTasks behind a RunTask in the task queue
  installs         \* how often code was installed

taskVars == <<task, target, todo, instructions>>
engineVars == <<runningContext, iCount, halted>>
opVars == <<sleeping, busy, sendingContext>>
codeVars == <<usedVars, hasRun, rebooting, behind, installs>>
vars == <<synchVars, taskVars, engineVars, opVars, codeVars>>

Idle == task = "none" /\ yielder = None /\ halting = None

Calling(t) == task = t /\ yielder = None /\ halting = None

RebootPending == rebooting + behind > 0

Smaller(m, n) == IF m < n THEN m ELSE n

(***************************************************************************)
(* RunTask.  iCount, a uint8_t, is compared with Slice only and stops      *)
(* there.                                                                  *)
(***************************************************************************)
RunTask ==
  /\ Idle
  /\ taskRunning
  /\ rebooting = 0
  /\ rebooting' = behind
  /\ behind' = 0
  /\ \/ /\ halted # "no"
        /\ halted' = "seen"
        /\ taskRunning' = FALSE
        /\ UNCHANGED <<task, runningContext, iCount, queue, list, state, inErrorState>>
     \/ /\ halted = "no"
        /\ task' = "pick"
        /\ UNCHANGED <<taskRunning, halted>>
        /\ IF iCount >= Slice /\ runningContext # None
             THEN /\ Enqueue(runningContext, "run", "READY")
                  /\ runningContext' = None
                  /\ iCount' = 0
             ELSE UNCHANGED <<runningContext, iCount, queue, list, state, inErrorState>>
  /\ UNCHANGED <<holder, heldSet, releaseSet, acquireSet, yielder, start, halting,
                 target, todo, instructions, opVars, usedVars, hasRun, installs>>

PickContext ==
  /\ Calling("pick")
  /\ \/ /\ runningContext # None
        /\ task' = "RunTask"
        /\ instructions' = Quantum
        /\ UNCHANGED <<runningContext, state, queue, list, taskRunning>>
     \/ /\ runningContext = None
        /\ ~ inErrorState
        /\ \E c \in Contexts :
             /\ list["run"] # << >>
             /\ c = Head(list["run"])
             /\ list' = [list EXCEPT !["run"] = Tail(@)]
             /\ queue' = [queue EXCEPT ![c] = "none"]
             /\ state' = [state EXCEPT ![c] = "RUN"]
             /\ runningContext' = c
        /\ task' = "RunTask"
        /\ instructions' = Quantum
        /\ UNCHANGED taskRunning
     \/ /\ runningContext = None
        /\ inErrorState \/ list["run"] = << >>
        /\ task' = "none"
        /\ taskRunning' = FALSE
        /\ UNCHANGED <<instructions, runningContext, state, queue, list>>
  /\ UNCHANGED <<holder, heldSet, releaseSet, acquireSet, inErrorState, yielder,
                 start, halting, target, todo, iCount, halted, opVars, codeVars>>

\* The loop of RunTask ends, and RunTask posts itself.
RunTaskReturns ==
  /\ Calling("RunTask")
  /\ instructions = 0 \/ state[runningContext] # "RUN"
  /\ task' = "none"
  /\ instructions' = 0
  /\ runningContext' = IF state[runningContext] # "RUN" THEN None ELSE runningContext
  /\ iCount' = Smaller(iCount + 1, Slice)
  /\ UNCHANGED <<synchVars, target, todo, halted, opVars, codeVars>>

(***************************************************************************)
(* The instructions.                                                       *)
(***************************************************************************)
Executes(c) ==
  /\ Calling("RunTask")
  /\ instructions > 0
  /\ c = runningContext
  /\ state[c] = "RUN"
  /\ instructions' = instructions - 1
  /\ UNCHANGED <<task, target, todo, engineVars, codeVars>>

\* Get.execute and Set.execute of OPgetsetvar4M.
GetSetVar(c, l) ==
  /\ Executes(c)
  /\ l \in heldSet[c]
  /\ IF holder[l] = c
       THEN UNCHANGED <<state, inErrorState>>
       ELSE state' = [state EXCEPT ![c] = "HALT"] /\ inErrorState' = TRUE
  /\ UNCHANGED <<holder, heldSet, releaseSet, acquireSet, queue, list, taskRunning,
                 yielder, start, halting, opVars>>

\* A faulty instruction that asks for the lock again without releasing it.
OPunlockKeeps(c, l) ==
  /\ Executes(c)
  /\ l \in heldSet[c]
  /\ acquireSet' = [acquireSet EXCEPT ![c] = @ \cup {l}]
  /\ UNCHANGED <<holder, heldSet, releaseSet, state, queue, list, taskRunning,
                 inErrorState, yielder, start, halting, opVars>>

\* OPunlockM: l is released at the next yield and taken again after it.
OPunlock(c, l) ==
  /\ Executes(c)
  /\ l \in heldSet[c]
  /\ releaseSet' = [releaseSet EXCEPT ![c] = @ \cup {l}]
  /\ acquireSet' = [acquireSet EXCEPT ![c] = @ \cup {l}]
  /\ UNCHANGED <<holder, heldSet, state, queue, list, taskRunning, inErrorState,
                 yielder, start, halting, opVars>>

\* OPpunlockM: l is released for good.
OPpunlock(c, l) ==
  /\ Executes(c)
  /\ l \in heldSet[c]
  /\ releaseSet' = [releaseSet EXCEPT ![c] = @ \cup {l}]
  /\ UNCHANGED <<holder, heldSet, acquireSet, state, queue, list, taskRunning,
                 inErrorState, yielder, start, halting, opVars>>

OPsleep(c) ==
  /\ Executes(c)
  /\ sleeping' = sleeping \cup {c}
  /\ yieldContext(c, "BLOCKED")
  /\ UNCHANGED <<busy, sendingContext>>

OPhalt(c) ==
  /\ Executes(c)
  /\ haltContext(c, "HALT")
  /\ UNCHANGED opVars

(***************************************************************************)
(* OPsendM.  The network may refuse the message; the context then waits in *)
(* sendWaitQueue, without yielding, as it does while another one sends.    *)
(***************************************************************************)
WaitToSend(c) ==
  /\ Enqueue(c, "send", "WAITING")
  /\ UNCHANGED <<holder, heldSet, releaseSet, acquireSet, taskRunning, yielder,
                 start, halting, opVars>>

SendAccepted(c) ==
  /\ busy' = TRUE
  /\ sendingContext' = c
  /\ yieldContext(c, "BLOCKED")
  /\ UNCHANGED sleeping

OPsend(c) ==
  /\ Executes(c)
  /\ \/ WaitToSend(c)
     \/ ~ busy /\ SendAccepted(c)

\* SendAdHoc.sendDone
SendDone ==
  /\ Idle
  /\ busy
  /\ IF sendingContext # None
       THEN resumeContext(sendingContext)
       ELSE UNCHANGED synchVars
  /\ sendingContext' = None
  /\ busy' = FALSE
  /\ task' = "sendDone"
  /\ UNCHANGED <<target, todo, instructions, engineVars, sleeping, codeVars>>

\* sendDone: the radio has sent a message of another component.
OtherSendDone ==
  /\ Idle
  /\ ~ busy
  /\ sendingContext = None
  /\ list["send"] # << >>
  /\ task' = "sendDone"
  /\ UNCHANGED <<synchVars, target, todo, instructions, engineVars, opVars, codeVars>>

\* Both end by trying to send for the first context in sendWaitQueue.
TryNextSend ==
  /\ Calling("sendDone")
  /\ task' = "none"
  /\ IF list["send"] = << >>
       THEN UNCHANGED <<synchVars, opVars>>
       ELSE \E c \in Contexts :
              /\ c = Head(list["send"])
              /\ \/ \* accepted
                    /\ Unlock(c, releaseSet[c])
                    /\ state' = [state EXCEPT ![c] = "BLOCKED"]
                    /\ queue' = [queue EXCEPT ![c] = "none"]
                    /\ list' = [list EXCEPT !["send"] = Tail(@)]
                    /\ yielder' = c
                    /\ start' = None
                    /\ busy' = TRUE
                    /\ sendingContext' = c
                    /\ UNCHANGED <<acquireSet, taskRunning, inErrorState, halting, sleeping>>
                 \/ \* refused: c goes to the end of the queue
                    /\ list' = [list EXCEPT !["send"] = Append(Tail(@), c)]
                    /\ state' = [state EXCEPT ![c] = "WAITING"]
                    /\ queue' = [queue EXCEPT ![c] = "send"]
                    /\ UNCHANGED <<holder, heldSet, releaseSet, acquireSet, taskRunning,
                                   inErrorState, yielder, start, halting, opVars>>
  /\ UNCHANGED <<target, todo, instructions, engineVars, codeVars>>

\* The timer of OPsleepM: a context has slept long enough.
SleepExpires(c) ==
  /\ Idle
  /\ c \in sleeping
  /\ sleeping' = sleeping \ {c}
  /\ resumeContext(c)
  /\ UNCHANGED <<taskVars, engineVars, busy, sendingContext, codeVars>>

(***************************************************************************)
(* A timer starts its context again if it has halted: initializeContext    *)
(* and resumeContext.                                                      *)
(***************************************************************************)
ClockEventTask(c) ==
  /\ Idle
  /\ c \notin Once
  /\ state[c] = "HALT"
  /\ initializeContext(c, usedVars[c])
  /\ task' = "start"
  /\ target' = c
  /\ UNCHANGED <<todo, instructions, engineVars, opVars, codeVars>>

StartContext ==
  /\ Calling("start") \/ Calling("startOnce")
  /\ resumeContext(target)
  /\ task' = IF task = "start" THEN "none" ELSE "reboot"
  /\ UNCHANGED <<target, todo, instructions, engineVars, opVars, codeVars>>

(***************************************************************************)
(* New code.  MVirus stops the engine when it hears of a newer capsule,    *)
(* and installs it when it has all of it: the locks of the handler are     *)
(* found again, its context is halted, and the engine is rebooted.         *)
(*                                                                         *)
(* Every chunk posts a checkNeedTask.  The first that finds nothing missing *)
(* was posted behind the RunTask of the engine that was halted, which has  *)
(* seen it.  Those in the queue behind it find nothing missing either, and *)
(* install the capsule again, before the rebootTask of the first.          *)
(***************************************************************************)
ToRequestState ==
  /\ Idle
  /\ halted = "no"
  /\ installs < MaxInstalls
  /\ halted' = IF taskRunning THEN "asked" ELSE "seen"
  /\ UNCHANGED <<synchVars, taskVars, runningContext, iCount, opVars, codeVars>>

CapsuleInstalled(c) ==
  /\ Idle
  /\ halted = "seen" \/ RebootPending
  /\ installs < MaxInstalls
  /\ installs' = installs + 1
  /\ usedVars' \in {[usedVars EXCEPT ![c] = S] : S \in NewUses}
  /\ hasRun' = hasRun \ {c}
  /\ IF state[c] # "HALT" THEN haltContext(c, state[c]) ELSE UNCHANGED synchVars
  /\ task' = "install"
  /\ UNCHANGED <<target, todo, instructions, engineVars, opVars, rebooting, behind>>

\* EngineControl.reboot, which posts rebootTask, and EngineControl.resume.
Reboot ==
  /\ Calling("install")
  /\ task' = "none"
  /\ runningContext' = None
  /\ iCount' = 0
  /\ halted' = "no"
  /\ inErrorState' = FALSE
  /\ holder' = [l \in Locks |-> None]
  /\ list' = [list EXCEPT !["run"] = << >>, !["ready"] = << >>]
  /\ IF taskRunning
       THEN behind' = behind + 1 /\ UNCHANGED rebooting
       ELSE rebooting' = rebooting + 1 /\ UNCHANGED behind
  /\ taskRunning' = TRUE
  /\ UNCHANGED <<heldSet, releaseSet, acquireSet, state, queue, yielder, start, halting,
                 target, todo, instructions, opVars, usedVars, hasRun, installs>>

\* rebootTask signals rebooted to OPsleepM, OPsendM and every context.
RebootTask ==
  /\ Idle
  /\ rebooting > 0
  /\ task' = "reboot"
  /\ todo' = Contexts
  /\ sleeping' = {}
  /\ sendingContext' = None
  /\ list' = [list EXCEPT !["send"] = << >>]
  /\ UNCHANGED <<holder, heldSet, releaseSet, acquireSet, state, queue, taskRunning,
                 inErrorState, yielder, start, halting, target, instructions,
                 engineVars, busy, codeVars>>

\* EngineStatus.rebooted in Timer0ContextM and OnceContextM.
Rebooted(c) ==
  /\ Calling("reboot")
  /\ c \in todo
  /\ todo' = todo \ {c}
  /\ IF state[c] # "HALT" /\ c \notin hasRun
       THEN haltContext(c, state[c])
       ELSE UNCHANGED synchVars
  /\ IF c \in Once \ hasRun
       THEN hasRun' = hasRun \cup {c} /\ task' = "once" /\ target' = c
       ELSE UNCHANGED <<hasRun, task, target>>
  /\ UNCHANGED <<instructions, engineVars, opVars, usedVars, rebooting, behind, installs>>

\* A once context has been halted and is started.
InitializeOnce ==
  /\ Calling("once")
  /\ initializeContext(target, usedVars[target])
  /\ task' = "startOnce"
  /\ UNCHANGED <<target, todo, instructions, engineVars, opVars, codeVars>>

RebootTaskReturns ==
  /\ Calling("reboot")
  /\ todo = {}
  /\ task' = "none"
  /\ rebooting' = rebooting - 1
  /\ UNCHANGED <<synchVars, target, todo, instructions, engineVars, opVars,
                 usedVars, hasRun, behind, installs>>

(***************************************************************************)
(* The behaviours begin when bootTask has rebooted the engine for the      *)
(* first time and rebootTask tells the contexts.                           *)
(***************************************************************************)
Init ==
  /\ SynchInit
  /\ task = "reboot"
  /\ target = None
  /\ todo = Contexts
  /\ instructions = 0
  /\ runningContext = None
  /\ iCount = 0
  /\ halted = "no"
  /\ sleeping = {}
  /\ busy = FALSE
  /\ sendingContext = None
  /\ usedVars = Uses
  /\ hasRun = {}
  /\ rebooting = 1
  /\ behind = 0
  /\ installs = 0

Instruction(c) ==
  \/ \E l \in Locks : GetSetVar(c, l) \/ OPunlock(c, l) \/ OPpunlock(c, l)
  \/ OPsleep(c) \/ OPsend(c) \/ OPhalt(c)

Continue ==
  /\ ResumeNext \/ YieldReturns \/ HaltReturns
  /\ UNCHANGED <<taskVars, engineVars, opVars, codeVars>>

Next ==
  \/ Continue
  \/ RunTask \/ PickContext \/ RunTaskReturns
  \/ \E c \in Contexts : Instruction(c) \/ SleepExpires(c) \/ ClockEventTask(c)
  \/ SendDone \/ OtherSendDone \/ TryNextSend
  \/ StartContext
  \/ ToRequestState \/ Reboot \/ RebootTask \/ InitializeOnce \/ RebootTaskReturns
  \/ \E c \in Installable : CapsuleInstalled(c)
  \/ \E c \in Contexts : Rebooted(c)

Spec == Init /\ [][Next]_vars

(***************************************************************************)
(* Properties.                                                             *)
(***************************************************************************)
Tasks ==
  {"none", "pick", "RunTask", "sendDone", "start", "install", "reboot", "once", "startOnce"}

\* Every field keeps its type, and a context is in one place of one queue.
MateTypeOK ==
  /\ holder \in [Locks -> Contexts \cup {None}]
  /\ {heldSet, releaseSet, acquireSet, usedVars} \subseteq [Contexts -> SUBSET Locks]
  /\ state \in [Contexts -> States]
  /\ queue \in [Contexts -> Queues \cup {"none"}]
  /\ list \in [Queues -> Seq(Contexts)]
  /\ \A q \in Queues : \A i, j \in DOMAIN list[q] : list[q][i] = list[q][j] => i = j
  /\ {taskRunning, inErrorState, busy} \subseteq BOOLEAN
  /\ {yielder, start, halting, target, runningContext, sendingContext}
       \subseteq Contexts \cup {None}
  /\ task \in Tasks
  /\ halted \in {"no", "asked", "seen"}
  /\ {rebooting, behind} \subseteq 0 .. MaxInstalls + 1
  /\ instructions \in 0 .. Quantum
  /\ iCount \in 0 .. Slice
  /\ {todo, sleeping, hasRun} \subseteq SUBSET Contexts
  /\ installs \in 0 .. MaxInstalls

(***************************************************************************)
(* "A context can never hold a resource that it did not hold when it       *)
(* started running": until new code is installed, what a context believes  *)
(* to hold is what the lock table says it holds, a halted context holds    *)
(* nothing, and no access of a variable is refused.                        *)
(***************************************************************************)
LocksAgree == \A c \in Contexts, l \in Locks : l \in heldSet[c] <=> holder[l] = c

HaltedHoldsNothing == \A c \in Contexts : state[c] = "HALT" => heldSet[c] = {}

RaceFree == installs = 0 => LocksAgree /\ HaltedHoldsNothing /\ ~ inErrorState

(***************************************************************************)
(* "Once it starts running, the acquire set of a context is always a       *)
(* subset of its release set", new code or not.                            *)
(***************************************************************************)
AcquiresOnlyReleased ==
  Idle /\ ~ RebootPending =>
    \A c \in Contexts : state[c] \in {"READY", "RUN"} => acquireSet[c] \subseteq releaseSet[c]

WaitsFor(c, d) == \E l \in acquireSet[c] : holder[l] = d

\* In any set of contexts one waits for no other: there is no circle.
NoCircle ==
  \A S \in (SUBSET Contexts) \ {{}} : \E c \in S : \A d \in S \ {c} : ~ WaitsFor(c, d)

(***************************************************************************)
(* "This ensures that contexts can run deadlock-free": until new code is   *)
(* installed contexts never wait for each other in a circle, and none      *)
(* waits for a lock of its own.                                            *)
(***************************************************************************)
DeadlockFree ==
  installs = 0 => NoCircle /\ \A c \in Contexts : queue[c] = "ready" => ~ WaitsFor(c, c)

(***************************************************************************)
(* Between two tasks no context waits whose locks are all free: it would   *)
(* wait until another one yields, perhaps for ever.                        *)
(***************************************************************************)
NoLostWakeup ==
  Idle => \A i \in DOMAIN list["ready"] : ~ isRunnable(list["ready"][i])

(***************************************************************************)
(* "The program analysis (barring incorrect lock releases at runtime)      *)
(* ensures race-free execution": no access is ever refused, and the        *)
(* virtual machine never stops in its error state.                         *)
(***************************************************************************)
AccessAllowed == ~ inErrorState

=============================================================================
