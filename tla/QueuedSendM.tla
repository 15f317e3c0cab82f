---------------------------- MODULE QueuedSendM -----------------------------
(***************************************************************************)
(* Queued sending with retransmission (tos/lib/Queue/QueuedSendM.nc) above *)
(* AMStandard, which other clients use directly at the same time.          *)
(*                                                                         *)
(* Accepted messages wait in a ring.  QueueServiceTask offers the oldest   *)
(* to AMStandard and posts itself again when it is refused; sendDone drops *)
(* or keeps the oldest message and posts QueueServiceTask for the next.    *)
(* The events of every client's messages arrive here and are told apart by *)
(* the message pointer.                                                    *)
(***************************************************************************)
EXTENDS AMStandard, FiniteSets, Integers

CONSTANTS
  MESSAGE_QUEUE_SIZE,
  MAX_RETRANSMIT_COUNT,
  retransmit,             \* whether messages not acknowledged are sent again
  WordMod                 \* 2^16: values of the ring's uint16_t indices

\* getOccupancy needs the size to divide 2^16.  The component is wired once to
\* the sendDone event.
ASSUME QueueAssumption ==
  /\ MESSAGE_QUEUE_SIZE \in Nat \ {0}
  /\ WordMod \in Nat \ {0}
  /\ WordMod % MESSAGE_QUEUE_SIZE = 0
  /\ MAX_RETRANSMIT_COUNT \in Nat
  /\ retransmit \in BOOLEAN
  /\ Services = {"QueueServiceTask"}
  /\ \A j, k \in DOMAIN Handlers : Handlers[j] = "queue" /\ Handlers[k] = "queue" => j = k

VARIABLES
  msgqueue,       \* slot -> message (NULL: NoMsg) and transmission count
  enqueue_next,
  dequeue_next,
  fQueueIdle

queueVars == <<msgqueue, enqueue_next, dequeue_next, fQueueIdle>>
vars == <<amVars, queueVars>>

Slots == 0 .. MESSAGE_QUEUE_SIZE - 1

\* A faulty index that does not wrap.
AfterUnwrapped(n) == n + 1

\* The slot after slot n.
After(n) == (n + 1) % MESSAGE_QUEUE_SIZE
Oldest == msgqueue[dequeue_next]

\* StdControl.init
QueueInit ==
  /\ Init
  /\ msgqueue = [s \in Slots |-> [pMsg |-> NoMsg, xmit_count |-> 0]]
  /\ enqueue_next = 0
  /\ dequeue_next = 0
  /\ fQueueIdle = TRUE

-----------------------------------------------------------------------------

\* A faulty QueueSendMsg.send that does not look for room.
QueueSendWhenFull(m) ==
  /\ ClientRuns
  /\ owner[m] = "app"
  /\ msgqueue' = [msgqueue EXCEPT ![enqueue_next] = [pMsg |-> m, xmit_count |-> 0]]
  /\ enqueue_next' = After(enqueue_next)
  /\ owner' = [owner EXCEPT ![m] = "queue"]
  /\ fQueueIdle' = FALSE
  /\ IF fQueueIdle THEN Sched!TaskPosts("QueueServiceTask") ELSE UNCHANGED tasks
  /\ UNCHANGED <<state, buffer, air, report, calls, dequeue_next, restarted>>

\* QueueSendMsg.send, unless the queue is full.
QueueSend(m) ==
  /\ ClientRuns
  /\ owner[m] = "app"
  /\ After(enqueue_next) # dequeue_next
  /\ msgqueue' = [msgqueue EXCEPT ![enqueue_next] = [pMsg |-> m, xmit_count |-> 0]]
  /\ enqueue_next' = After(enqueue_next)
  /\ owner' = [owner EXCEPT ![m] = "queue"]
  /\ fQueueIdle' = FALSE
  /\ IF fQueueIdle THEN Sched!TaskPosts("QueueServiceTask") ELSE UNCHANGED tasks
  /\ UNCHANGED <<state, buffer, air, report, calls, dequeue_next, restarted>>

\* QueueServiceTask starts.
RunQueueService ==
  /\ Sched!Dispatch
  /\ running' = "QueueServiceTask"
  /\ calls' = <<"service">>
  /\ UNCHANGED <<state, buffer, air, report, owner, queueVars, restarted>>

\* A faulty QueueServiceTask that gives up when AMStandard is busy.
ServiceGivesUp ==
  /\ calls # << >> /\ Head(calls) = "service"
  /\ calls' = Tail(calls)
  /\ \/ /\ Oldest.pMsg # NoMsg
        /\ Send(Oldest.pMsg)
        /\ UNCHANGED fQueueIdle
     \/ /\ Oldest.pMsg = NoMsg
        /\ fQueueIdle' = TRUE
        /\ UNCHANGED <<state, buffer, tasks>>
  /\ UNCHANGED <<air, report, owner, msgqueue, enqueue_next, dequeue_next, restarted>>

\* QueueServiceTask offers the oldest message to AMStandard; refused, it posts
\* itself again.  Without a message the queue is idle.
Service ==
  /\ calls # << >> /\ Head(calls) = "service"
  /\ calls' = Tail(calls)
  /\ \/ /\ Oldest.pMsg # NoMsg
        /\ CanSend
        /\ Send(Oldest.pMsg)
        /\ UNCHANGED fQueueIdle
     \/ /\ Oldest.pMsg # NoMsg
        /\ ~CanSend
        /\ Sched!TaskPosts("QueueServiceTask")
        /\ UNCHANGED <<state, buffer, fQueueIdle>>
     \/ /\ Oldest.pMsg = NoMsg
        /\ fQueueIdle' = TRUE
        /\ UNCHANGED <<state, buffer, tasks>>
  /\ UNCHANGED <<air, report, owner, msgqueue, enqueue_next, dequeue_next, restarted>>

\* sendDone for a message of another client.
IgnoreSendDone ==
  /\ calls # << >> /\ Head(calls) = "queue"
  /\ report.msg # Oldest.pMsg
  /\ HandlerReturns
  /\ UNCHANGED <<state, buffer, air, owner, tasks, queueVars, restarted>>

\* A radio message that was not acknowledged counts a transmission.
Unacknowledged == retransmit /\ ~report.ack /\ Channel(report.msg) = "Radio"

Transmissions == IF Unacknowledged THEN Oldest.xmit_count + 1 ELSE Oldest.xmit_count

\* sendDone for the oldest message, to be transmitted again.
RetransmitOldest ==
  /\ calls # << >> /\ Head(calls) = "queue"
  /\ report.msg = Oldest.pMsg
  /\ Unacknowledged
  /\ Transmissions <= MAX_RETRANSMIT_COUNT
  /\ msgqueue' = [msgqueue EXCEPT ![dequeue_next].xmit_count = Transmissions]
  /\ Sched!TaskPosts("QueueServiceTask")
  /\ HandlerReturns
  /\ UNCHANGED <<state, buffer, air, owner, enqueue_next, dequeue_next, fQueueIdle, restarted>>

\* sendDone for the oldest message, sent or given up: the client's handler runs
\* before the message leaves the queue, and may send.
SignalSendDone ==
  /\ calls # << >> /\ Head(calls) = "queue"
  /\ report.msg = Oldest.pMsg
  /\ Unacknowledged => Transmissions > MAX_RETRANSMIT_COUNT
  /\ msgqueue' = [msgqueue EXCEPT ![dequeue_next].xmit_count = Transmissions]
  /\ owner' = [owner EXCEPT ![report.msg] = "app"]
  /\ calls' = <<"client", "dequeue">> \o Tail(calls)
  /\ UNCHANGED <<state, buffer, air, report, tasks, enqueue_next, dequeue_next, fQueueIdle, restarted>>

\* A faulty dequeue that leaves the next message to the next send.
DequeueForgetsNext ==
  /\ calls # << >> /\ Head(calls) = "dequeue"
  /\ msgqueue' = [msgqueue EXCEPT ![dequeue_next].pMsg = NoMsg]
  /\ dequeue_next' = After(dequeue_next)
  /\ HandlerReturns
  /\ UNCHANGED <<state, buffer, air, owner, tasks, enqueue_next, fQueueIdle, restarted>>

\* A faulty dequeue that clears the slot it has moved to.
DequeueClearsNext ==
  /\ calls # << >> /\ Head(calls) = "dequeue"
  /\ dequeue_next' = After(dequeue_next)
  /\ msgqueue' = [msgqueue EXCEPT ![After(dequeue_next)].pMsg = NoMsg]
  /\ Sched!TaskPosts("QueueServiceTask")
  /\ HandlerReturns
  /\ UNCHANGED <<state, buffer, air, owner, enqueue_next, fQueueIdle, restarted>>

\* The rest of the sendDone handler, after the client's.
Dequeue ==
  /\ calls # << >> /\ Head(calls) = "dequeue"
  /\ msgqueue' = [msgqueue EXCEPT ![dequeue_next].pMsg = NoMsg]
  /\ dequeue_next' = After(dequeue_next)
  /\ Sched!TaskPosts("QueueServiceTask")
  /\ HandlerReturns
  /\ UNCHANGED <<state, buffer, air, owner, enqueue_next, fQueueIdle, restarted>>

QueueNext ==
  \/ AMNext /\ UNCHANGED queueVars
  \/ \E m \in Msgs : QueueSend(m)
  \/ RunQueueService
  \/ Service
  \/ IgnoreSendDone
  \/ RetransmitOldest
  \/ SignalSendDone
  \/ Dequeue

QueueSpec == QueueInit /\ [][QueueNext]_vars

\* As AMFairness; the handlers and the task of this component run to completion.
QueueFairness ==
  /\ WF_vars(\/ RunQueueService
             \/ /\ sendTask \/ RunApp \/ Sleep \/ \E c \in Channels : ChannelDone(c)
                /\ UNCHANGED queueVars)
  /\ WF_vars(\/ Service \/ IgnoreSendDone \/ RetransmitOldest \/ SignalSendDone \/ Dequeue
             \/ (ClientHandlerReturns \/ TaskReturns) /\ UNCHANGED queueVars)
  /\ \A c \in Channels : SF_vars(ChannelInterrupt(c) /\ posted' /\ UNCHANGED queueVars)

FairQueueSpec == QueueSpec /\ QueueFairness

-----------------------------------------------------------------------------
(***************************************************************************)
(* Properties.                                                             *)
(***************************************************************************)

\* QueueControl.getOccupancy: uint16_t subtraction, then the remainder.
getOccupancy == ((enqueue_next - dequeue_next) % WordMod) % MESSAGE_QUEUE_SIZE

Waiting == [k \in 1 .. getOccupancy |->
              msgqueue[(dequeue_next + k - 1) % MESSAGE_QUEUE_SIZE].pMsg]

Abstract == INSTANCE SendQueue WITH
  Room <- MESSAGE_QUEUE_SIZE - 1,
  queue <- Waiting,
  signalled <- "dequeue" \in {calls[k] : k \in 1 .. Len(calls)}

QueueTypeOK ==
  /\ AMTypeOK
  /\ msgqueue \in [Slots -> [pMsg : Msgs \union {NoMsg}, xmit_count : 0 .. MAX_RETRANSMIT_COUNT + 1]]
  /\ enqueue_next \in Slots
  /\ dequeue_next \in Slots
  /\ fQueueIdle \in BOOLEAN

\* The slots with a message are those from dequeue_next up to enqueue_next, and
\* getOccupancy counts them.
RingIsContiguous ==
  \A k \in Slots :
    msgqueue[(dequeue_next + k) % MESSAGE_QUEUE_SIZE].pMsg # NoMsg <=> k < getOccupancy

\* What keeps the queue going: the service task, waiting or running; the oldest
\* message on its way through AMStandard; its sendDone event on its way here.
Movers ==
  CountOf("QueueServiceTask")
    + Cardinality({c \in {"service", "dequeue"} : c \in {calls[k] : k \in 1 .. Len(calls)}})
    + (IF Oldest.pMsg \in InHand /\ owner[Oldest.pMsg] = "queue" THEN 1 ELSE 0)
    + (IF report.msg # NoMsg /\ report.msg = Oldest.pMsg /\ calls[1] = "queue" THEN 1 ELSE 0)

\* A queue that is not idle has exactly one mover: with none it would never
\* send again, with two it would send a message twice.  An idle queue is empty.
OneMover ==
  /\ Movers = IF fQueueIdle THEN 0 ELSE 1
  /\ fQueueIdle => getOccupancy = 0

\* Each message accepted gets its sendDone event once, in the order of the
\* sends, whatever the handlers and the other clients do meanwhile.
ImplementsSendQueue == Abstract!Spec

\* A message accepted gets its sendDone event, unless other clients of
\* AMStandard keep sending for ever.
QueuedIsSent ==
  \A m \in Msgs :
    \/ (owner[m] = "queue") ~> (owner[m] = "app")
    \/ []<><<\E n \in Msgs : ClientSends(n) /\ UNCHANGED queueVars>>_vars

=============================================================================
