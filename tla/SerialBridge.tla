---------------------------- MODULE SerialBridge ----------------------------
(***************************************************************************)
(* What TOSBase promises of one of its directions: a message that entered  *)
(* the queue goes out over the other interface, in order, before it leaves *)
(* the queue.  It may go out more than once.                               *)
(***************************************************************************)
EXTENDS Naturals, Sequences

CONSTANTS Messages, Room, Nothing

VARIABLES
  queue,    \* the messages that entered, oldest first
  last      \* the message that went out last

bridgeVars == <<queue, last>>

Init == queue = << >> /\ last = Nothing

Enter(m) ==
  /\ Len(queue) < Room
  /\ queue' = Append(queue, m)
  /\ UNCHANGED last

GoOut ==
  /\ queue # << >>
  /\ last' = Head(queue)
  /\ UNCHANGED queue

Leave ==
  /\ queue # << >>
  /\ last = Head(queue)
  /\ queue' = Tail(queue)
  /\ UNCHANGED last

Next ==
  \/ \E m \in Messages : Enter(m)
  \/ GoOut
  \/ Leave

Spec == Init /\ [][Next]_bridgeVars

=============================================================================
