----------------------------- MODULE SendQueue ------------------------------
(***************************************************************************)
(* What lib/Queue promises its clients: a bounded queue of messages.  The  *)
(* sendDone event of the oldest message is signalled once, and then the    *)
(* message leaves the queue.                                               *)
(***************************************************************************)
EXTENDS Naturals, Sequences

CONSTANTS Msgs, Room

VARIABLES
  queue,      \* the messages accepted, oldest first
  signalled   \* the sendDone event of the oldest has been signalled

queueVars == <<queue, signalled>>

Init == queue = << >> /\ signalled = FALSE

Accept(m) ==
  /\ Len(queue) < Room
  /\ queue' = Append(queue, m)
  /\ UNCHANGED signalled

SignalSendDone ==
  /\ queue # << >>
  /\ ~signalled
  /\ signalled' = TRUE
  /\ UNCHANGED queue

Remove ==
  /\ signalled
  /\ queue' = Tail(queue)
  /\ signalled' = FALSE

Next ==
  \/ \E m \in Msgs : Accept(m)
  \/ SignalSendDone
  \/ Remove

Spec == Init /\ [][Next]_queueVars

=============================================================================
