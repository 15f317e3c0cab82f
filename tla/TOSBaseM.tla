----------------------------- MODULE TOSBaseM -------------------------------
(***************************************************************************)
(* The base station (apps/TOSBase/TOSBaseM.nc) on the serial framer: a     *)
(* queue from the radio to the serial line and one from the serial line to *)
(* the radio, each emptied by a task that posts itself again until the     *)
(* other side took the oldest message and said so.                         *)
(*                                                                         *)
(* A ring of buffers with its two indices and its count is the sequence of *)
(* the messages in it.  The radio below is external: it takes one message  *)
(* at a time, may refuse, and signals sendDone later.  A radio message of  *)
(* another group or with a bad CRC changes nothing and is left out.        *)
(***************************************************************************)
EXTENDS FramerM, FiniteSets

CONSTANTS
  UART_QUEUE_LEN,
  RADIO_QUEUE_LEN,
  MaxHeard              \* bound: messages the radio hears

ASSUME BaseAssumption ==
  /\ UART_QUEUE_LEN \in Nat \ {0}
  /\ RADIO_QUEUE_LEN \in Nat \ {0}
  /\ MaxHeard \in Nat
  /\ Nothing \notin Frames \union (0 .. MaxFrames) \union (1 .. MaxHeard)

VARIABLES
  uartQueue,
  uartBusy,
  radioQueue,
  radioBusy,
  onAir,          \* external: the message the radio sends, or Nothing
  heard,          \* how many messages the radio heard
  radioed         \* the messages the radio sent

uartVars == <<uartQueue, uartBusy, heard>>
radioVars == <<radioQueue, radioBusy, onAir, radioed>>
vars == <<framerVars, uartVars, radioVars>>

HeardMsgs == 1 .. MaxHeard

Init ==
  /\ FramerInit
  /\ uartQueue = << >>
  /\ uartBusy = FALSE
  /\ radioQueue = << >>
  /\ radioBusy = FALSE
  /\ onAir = Nothing
  /\ heard = 0
  /\ radioed = {}

\* The queue without its oldest message.  QueuesHaveOneMover: no sendDone comes
\* for an empty queue while the tasks keep up (the count would wrap).
WithoutOldest(q) == SubSeq(q, 2, Len(q))

\* One task at a time runs to its end; PacketRcvd is the one that takes two steps.
NoTaskRuns == rcv = "idle"
Runs(task) == NoTaskRuns /\ tasks # << >> /\ Head(tasks) = task

-----------------------------------------------------------------------------
(* From the radio to the serial line.                                      *)

\* RadioReceive.receive: without room the message is dropped.
RadioReceive ==
  /\ NoTaskRuns
  /\ heard < MaxHeard
  /\ heard' = heard + 1
  /\ IF Len(uartQueue) < UART_QUEUE_LEN
     THEN /\ uartQueue' = Append(uartQueue, heard')
          /\ uartBusy' = (uartBusy \/ CanPost(tasks))
          /\ tasks' = IF uartBusy THEN tasks ELSE Posted(tasks, <<"UARTSendTask">>)
     ELSE UNCHANGED <<uartQueue, uartBusy, tasks>>
  /\ UNCHANGED <<tx, wire, rxVars, hostVars, errors, radioVars>>

\* UARTSendTask
UARTSendTask ==
  /\ Runs("UARTSendTask")
  /\ \/ /\ uartQueue = << >>
        /\ uartBusy' = FALSE
        /\ tasks' = Tail(tasks)
        /\ UNCHANGED tx
     \/ /\ uartQueue # << >>
        /\ tx' = Send(tx, Head(uartQueue))
        /\ tasks' = IF SendAccepts(tx) THEN Tail(tasks)
                    ELSE Posted(Tail(tasks), <<"UARTSendTask">>)
        /\ UNCHANGED uartBusy
  /\ UNCHANGED <<wire, rxVars, hostVars, errors, uartQueue, heard, radioVars>>

\* A faulty sendDone that drops the message whatever became of it.
UARTSendDoneDrops(success) ==
  /\ uartQueue' = WithoutOldest(uartQueue)
  /\ tasks' = Posted(Tail(tasks), <<"UARTSendTask">>)

\* UARTSend.sendDone: a message that was not sent stays.
UARTSendDone(success) ==
  /\ uartQueue' = IF success THEN WithoutOldest(uartQueue) ELSE uartQueue
  /\ tasks' = Posted(Tail(tasks), <<"UARTSendTask">>)

\* The task PacketSent of the framer.
PacketSent ==
  /\ Runs("PacketSent")
  /\ tx' = StartTx(AfterSent(tx))
  /\ IF SentData(tx) THEN UARTSendDone(SentWell(tx))
     ELSE tasks' = Tail(tasks) /\ UNCHANGED uartQueue
  /\ UNCHANGED <<wire, rxVars, hostVars, errors, uartBusy, heard, radioVars>>

-----------------------------------------------------------------------------
(* From the serial line to the radio.                                      *)

\* A faulty test that counts one slot too many.
HasRadioRoomOffByOne == Len(radioQueue) <= RADIO_QUEUE_LEN

\* radioCount < RADIO_QUEUE_LEN
HasRadioRoom == Len(radioQueue) < RADIO_QUEUE_LEN

\* A faulty processUartPacket that acknowledges what it drops.
AcknowledgedAlways(f) == f.Proto = "PACKET_ACK"

\* processUartPacket acknowledges a message it has room for.
Acknowledged(f) == f.Proto = "PACKET_ACK" /\ HasRadioRoom

\* The task PacketRcvd of the framer, with processUartPacket in it.
PacketRcvd ==
  /\ Runs("PacketRcvd")
  /\ LookAtTail
  /\ IF Received = Nothing \/ Received.Length # "whole"
     THEN /\ tasks' = Tail(tasks)
          /\ UNCHANGED <<tx, radioQueue, radioBusy>>
     ELSE /\ IF HasRadioRoom
             THEN /\ radioQueue' = Append(radioQueue, Received.msg)
                  /\ radioBusy' = (radioBusy \/ CanPost(Tail(tasks)))
                  /\ tasks' = IF radioBusy THEN Tail(tasks)
                              ELSE Posted(Tail(tasks), <<"RadioSendTask">>)
             ELSE /\ tasks' = Tail(tasks)
                  /\ UNCHANGED <<radioQueue, radioBusy>>
          /\ tx' = IF Acknowledged(Received) THEN ReflectToken(tx, Received.token) ELSE tx
  /\ UNCHANGED <<wire, hostVars, errors, uartVars, onAir, radioed>>

\* Its end.
PacketRcvdEnds ==
  /\ EmptyTail
  /\ UNCHANGED <<tx, wire, tasks, hostVars, errors, uartVars, radioVars>>

\* RadioSendTask
RadioSendTask(accepted) ==
  /\ Runs("RadioSendTask")
  /\ \/ /\ radioQueue = << >>
        /\ radioBusy' = FALSE
        /\ tasks' = Tail(tasks)
        /\ UNCHANGED onAir
     \/ /\ radioQueue # << >>
        /\ accepted
        /\ onAir = Nothing
        /\ onAir' = Head(radioQueue)
        /\ tasks' = Tail(tasks)
        /\ UNCHANGED radioBusy
     \/ /\ radioQueue # << >>
        /\ ~accepted
        /\ tasks' = Posted(Tail(tasks), <<"RadioSendTask">>)
        /\ UNCHANGED <<onAir, radioBusy>>
  /\ UNCHANGED <<tx, wire, rxVars, hostVars, errors, uartVars, radioQueue, radioed>>

\* A faulty sendDone that does not go on after a failure.
RadioSendDoneGivesUp(success) ==
  /\ NoTaskRuns
  /\ onAir # Nothing
  /\ onAir' = Nothing
  /\ radioed' = IF success THEN radioed \union {onAir} ELSE radioed
  /\ radioQueue' = IF success THEN WithoutOldest(radioQueue) ELSE radioQueue
  /\ tasks' = IF success THEN Posted(tasks, <<"RadioSendTask">>) ELSE tasks
  /\ UNCHANGED <<tx, wire, rxVars, hostVars, errors, uartVars, radioBusy>>

\* RadioSend.sendDone
RadioSendDone(success) ==
  /\ NoTaskRuns
  /\ onAir # Nothing
  /\ onAir' = Nothing
  /\ radioed' = IF success THEN radioed \union {onAir} ELSE radioed
  /\ radioQueue' = IF success THEN WithoutOldest(radioQueue) ELSE radioQueue
  /\ tasks' = Posted(tasks, <<"RadioSendTask">>)
  /\ UNCHANGED <<tx, wire, rxVars, hostVars, errors, uartVars, radioBusy>>

-----------------------------------------------------------------------------

RunTask ==
  \/ UARTSendTask
  \/ PacketSent
  \/ PacketRcvd
  \/ PacketRcvdEnds
  \/ \E accepted \in BOOLEAN : RadioSendTask(accepted)

Next ==
  \/ FramerInterrupt /\ UNCHANGED <<uartVars, radioVars>>
  \/ RunTask
  \/ RadioReceive
  \/ \E success \in BOOLEAN : RadioSendDone(success)

Spec == Init /\ [][Next]_vars

\* The scheduler runs tasks while any waits; a byte handed to the UART is sent
\* and its interrupt comes; a radio that is offered a message again and again
\* takes it in the end, and sends it in the end.
Fairness ==
  /\ WF_vars(RunTask)
  /\ WF_vars((TxPayload \/ TxDone) /\ UNCHANGED <<uartVars, radioVars>>)
  /\ WF_vars(\E success \in BOOLEAN : RadioSendDone(success))
  /\ SF_vars(RadioSendTask(TRUE))
  /\ SF_vars(RadioSendDone(TRUE))

FairSpec == Spec /\ Fairness

-----------------------------------------------------------------------------

\* The type invariant.
BaseTypeOK ==
  /\ tx \in [gTxState : {"IDLE", "PROTO", "FINISH", "ERROR"},
             gFlags : SUBSET {"TOKENPEND", "DATAPEND"},
             gTxProto : {"ACK", "PACKET_NOACK"},
             gpTxMsg : HeardMsgs \union {Nothing},
             gpTxBuf : HeardMsgs \union {Nothing},
             gTxTokenBuf : (0 .. MaxFrames) \union {Nothing}]
  /\ wire \in HeardMsgs \union (0 .. MaxFrames) \union {Nothing}
  /\ gRxState \in {"NOSYNC", "PROTO", "BODY"}
  /\ gMsgRcvTbl \in [RxSlots -> Frames \union {Nothing}]
  /\ gRxHeadIndex \in RxSlots
  /\ gRxTailIndex \in RxSlots
  /\ incoming \in Frames \union {Nothing}
  /\ rcv \in {"idle", "message", "empty"}
  /\ odd \subseteq {"empty", "long"}
  /\ spoiled \in BOOLEAN
  /\ Len(tasks) <= TaskSlots
  /\ hostAcks \subseteq 0 .. MaxFrames
  /\ Len(uartQueue) <= UART_QUEUE_LEN
  /\ Len(radioQueue) <= RADIO_QUEUE_LEN
  /\ onAir \in HostMsgs \union {Nothing}
  /\ radioed \subseteq HostMsgs
  /\ uartBusy \in BOOLEAN /\ radioBusy \in BOOLEAN

Waiting(q) == {q[i] : i \in DOMAIN q}

\* How often a task waits; how many runs of PacketRcvd have still to end.
Movers(task) == Cardinality({i \in DOMAIN tasks : tasks[i] = task})
ToEnd == Movers("PacketRcvd") + (IF NoTaskRuns THEN 0 ELSE 1)

\* The interrupt fills a buffer only while it is empty; head and tail differ by
\* the runs of PacketRcvd that are due, and each full buffer is one such a run
\* comes to: a received frame is never forgotten, whatever frames come in.
\* Without an empty frame the runs due are as many as the full buffers; without
\* one and without a frame longer than a buffer nothing received is written over
\* (rxByteReady and PacketRcvd of FramerM).
BuffersMatchTasks ==
  /\ gRxState # "NOSYNC" => HeadIsFree
  /\ gRxHeadIndex = (gRxTailIndex + ToEnd) % HDLC_QUEUESIZE
  /\ \A s \in RxSlots : gMsgRcvTbl[s] # Nothing =>
       \E i \in 0 .. ToEnd - 1 : s = (gRxTailIndex + i) % HDLC_QUEUESIZE
  /\ "empty" \notin odd => Cardinality({s \in RxSlots : gMsgRcvTbl[s] # Nothing}) = ToEnd
  /\ spoiled => odd # {}

\* The README of TOSBase: a message that came over the serial line is
\* acknowledged only if it was queued for the radio.  (A token that PacketRcvd
\* wrote over is 0.)
AckedOnlyIfQueued == hostAcks \ {0} \subseteq radioed \union Waiting(radioQueue)

\* A queue with messages has one mover: its task waits, or the message it
\* handed over is not done (UARTSendTask, RadioSendTask and the sendDones).
UartMovers == Movers("UARTSendTask") + Cardinality(tx.gFlags \intersect {"DATAPEND"})
RadioMovers == Movers("RadioSendTask") + Cardinality({onAir} \ {Nothing})

QueuesHaveOneMover ==
  /\ UartMovers = (IF uartBusy THEN 1 ELSE 0)
  /\ RadioMovers = (IF radioBusy THEN 1 ELSE 0)
  /\ uartQueue # << >> => uartBusy
  /\ radioQueue # << >> => radioBusy

\* The path to the serial line is the bridge that SerialBridge promises: every
\* queued message goes out, in order, before its buffer is given up.
SB == INSTANCE SerialBridge WITH
        Messages <- HeardMsgs, Room <- UART_QUEUE_LEN, Nothing <- 0,
        queue <- uartQueue, last <- hostGot
ImplementsBridge == SB!Spec

\* The README of TOSBase: "once a message enters a queue, it will eventually
\* leave on the other interface".  Of finitely many messages none is left in a
\* queue in the end; that each left on the other interface is what
\* ImplementsBridge and AckedOnlyIfQueued say.
EventuallyLeaves == <>[](uartQueue = << >> /\ radioQueue = << >>)

\* The same guarantee of single steps: a message leaves the queue of the serial
\* line when the host has it, or at least the frame with it is going out.
GoingOut(m) == tx.gTxState \in {"PROTO", "FINISH"} /\ SentData(tx) /\ tx.gpTxBuf = m
LeavesOnTheOtherInterface ==
  [][\A m \in Waiting(uartQueue) \ Waiting(uartQueue)' : hostGot >= m \/ GoingOut(m)]_vars

=============================================================================
