----------------------------- MODULE AMStandard -----------------------------
(***************************************************************************)
(* The sending half of the active message layer                            *)
(* (tos/system/AMStandard.nc): one message at a time is accepted, sendTask *)
(* hands it to the UART or to the radio, and the channel's sendDone event  *)
(* (or its refusal) is reported to every component wired to SendMsg.       *)
(*                                                                         *)
(* Commands and events run in tasks, so each is an action; what the        *)
(* clients do in their sendDone handlers comes between the calls of the    *)
(* handlers.  The channels are modelled from the interface BareSendMsg: a  *)
(* channel sends one message at a time, may refuse any, and completes what *)
(* it accepts from a task that its interrupt handler posts, trying again   *)
(* as long as the task queue is full.                                      *)
(***************************************************************************)
EXTENDS Naturals, Sequences, FiniteSets

CONSTANTS
  Msgs,        \* message buffers of the program
  UartMsgs,    \* those addressed to TOS_UART_ADDR; the others go by radio
  NoMsg,
  Handlers,    \* who gets the sendDone event, in the order of the calls
  Services,    \* further tasks of the components above
  Capacity,    \* room in the task queue
  MaxApps,     \* bound: tasks of the program that wait at the same time
  PowerCycles  \* may the program stop and start the layer

ASSUME AMAssumption ==
  /\ UartMsgs \subseteq Msgs
  /\ NoMsg \notin Msgs
  /\ Handlers \in Seq({"client", "queue"}) \ {<< >>}
  /\ Capacity \in Nat \ {0}
  /\ MaxApps \in Nat
  /\ PowerCycles \in BOOLEAN

VARIABLES
  state,       \* TRUE: a message is being sent
  buffer,      \* the message for sendTask
  air,         \* channel -> the message it is sending
  report,      \* the sendDone event being signalled
  calls,       \* the handlers of that event that are still to return
  restarted,   \* history: the layer was stopped and started again
  owner,       \* message -> who may use its buffer: the program, or a layer below
  fifo, running, asleep, posted   \* the task scheduler

tasks == <<fifo, running, asleep, posted>>
amVars == <<state, buffer, air, report, calls, restarted, owner, tasks>>

Channels == {"UART", "Radio"}
Channel(m) == IF m \in UartMsgs THEN "UART" ELSE "Radio"

TaskNames == {"sendTask", "App"} \union Channels \union Services

Sched == INSTANCE TaskFifo WITH Tasks <- TaskNames, NoTask <- "none", Boot <- "boot"

CountOf(t) == Cardinality({k \in DOMAIN fifo : fifo[k] = t})

Waits(t) == \E k \in DOMAIN fifo : fifo[k] = t

NoReport == [msg |-> NoMsg, success |-> FALSE, ack |-> FALSE]

Init ==
  /\ state = FALSE
  /\ buffer = NoMsg
  /\ air = [c \in Channels |-> NoMsg]
  /\ report = NoReport
  /\ calls = << >>
  /\ restarted = FALSE
  /\ owner = [m \in Msgs |-> "app"]
  /\ Sched!Init

-----------------------------------------------------------------------------
(***************************************************************************)
(* Sending.                                                                *)
(***************************************************************************)

\* A faulty SendMsg.send that does not look at state.
SendWhenBusy(m) ==
  /\ Sched!TaskPosts("sendTask")
  /\ state' = Sched!HasRoom
  /\ buffer' = IF Sched!HasRoom THEN m ELSE buffer

\* A faulty SendMsg.send that leaves state set when the post fails.
SendStaysBusy(m) ==
  IF state
    THEN UNCHANGED <<state, buffer, tasks>>
    ELSE /\ Sched!TaskPosts("sendTask")
         /\ state' = TRUE
         /\ buffer' = IF Sched!HasRoom THEN m ELSE buffer

\* SendMsg.send accepts the message: it is the layer's only one, and the post
\* succeeds.  (A message too long is refused first and changes nothing.)
CanSend == ~state /\ Sched!HasRoom

Send(m) ==
  IF state
    THEN UNCHANGED <<state, buffer, tasks>>
    ELSE /\ Sched!TaskPosts("sendTask")
         /\ state' = Sched!HasRoom
         /\ buffer' = IF Sched!HasRoom THEN m ELSE buffer

\* The start-up code, a task or a sendDone handler of a client runs.
ClientRuns == running \in {"boot", "App"} \/ (calls # << >> /\ Head(calls) = "client")

ClientSends(m) ==
  /\ ClientRuns
  /\ owner[m] = "app"
  /\ owner' = [owner EXCEPT ![m] = IF CanSend THEN "am" ELSE "app"]
  /\ Send(m)
  /\ UNCHANGED <<air, report, calls, restarted>>

\* reportSendDone: the layer is free before the first handler is called.  The
\* event gives the buffer back to the client that sent it.
ReportSendDone(m, success, ack) ==
  /\ state' = FALSE
  /\ report' = [msg |-> m, success |-> success, ack |-> ack]
  /\ calls' = Handlers
  /\ owner' = [owner EXCEPT ![m] = IF @ = "am" THEN "app" ELSE @]

\* A faulty sendTask that does not report the message a channel refuses.
sendTaskForgetsRefusal ==
  /\ Sched!Dispatch
  /\ running' = "sendTask"
  /\ \/ /\ air[Channel(buffer)] = NoMsg
        /\ air' = [air EXCEPT ![Channel(buffer)] = buffer]
     \/ UNCHANGED air
  /\ UNCHANGED <<state, buffer, report, calls, owner, restarted>>

\* sendTask: the channel takes the message, or refuses it and the failure is
\* reported at once.
sendTask ==
  /\ Sched!Dispatch
  /\ running' = "sendTask"
  /\ \/ /\ air[Channel(buffer)] = NoMsg
        /\ air' = [air EXCEPT ![Channel(buffer)] = buffer]
        /\ UNCHANGED <<state, report, calls, owner>>
     \/ /\ ReportSendDone(buffer, FALSE, FALSE)
        /\ UNCHANGED air
  /\ UNCHANGED <<buffer, restarted>>

-----------------------------------------------------------------------------
(***************************************************************************)
(* Completion.                                                             *)
(***************************************************************************)

\* The channel has sent its message: its interrupt handler posts the task that
\* completes it, and tries again at the next interrupt if the post fails.
ChannelInterrupt(c) ==
  /\ air[c] # NoMsg
  /\ ~Waits(c)
  /\ Sched!InterruptPosts(c)
  /\ UNCHANGED <<state, buffer, air, report, calls, owner, restarted>>

\* The task of the channel signals sendDone.
ChannelDone(c) ==
  /\ Sched!Dispatch
  /\ running' = c
  /\ air' = [air EXCEPT ![c] = NoMsg]
  /\ \E success \in BOOLEAN, ack \in BOOLEAN :
       /\ ack => success /\ c = "Radio"
       /\ ReportSendDone(air[c], success, ack)
  /\ UNCHANGED <<buffer, restarted>>

\* The handler at the head of calls returns.
HandlerReturns ==
  /\ calls' = Tail(calls)
  /\ report' = IF Len(calls) = 1 THEN NoReport ELSE report

ClientHandlerReturns ==
  /\ calls # << >>
  /\ Head(calls) = "client"
  /\ HandlerReturns
  /\ UNCHANGED <<state, buffer, air, owner, tasks, restarted>>

TaskReturns ==
  /\ calls = << >>
  /\ Sched!Return
  /\ UNCHANGED <<state, buffer, air, report, calls, owner, restarted>>

-----------------------------------------------------------------------------
(***************************************************************************)
(* The rest of the program.                                                *)
(***************************************************************************)

RunApp ==
  /\ Sched!Dispatch
  /\ running' = "App"
  /\ UNCHANGED <<state, buffer, air, report, calls, owner, restarted>>

AppInterrupt ==
  /\ CountOf("App") < MaxApps
  /\ Sched!InterruptPosts("App")
  /\ UNCHANGED <<state, buffer, air, report, calls, owner, restarted>>

Sleep ==
  /\ Sched!Sleep
  /\ UNCHANGED <<state, buffer, air, report, calls, owner, restarted>>

\* Control.stop and Control.start at once: a channel may lose the message it is
\* sending, unless its task waits already, and start clears state whatever
\* became of the message.
PowerCycle ==
  /\ PowerCycles
  /\ running = "App"
  /\ state' = FALSE
  /\ restarted' = TRUE
  /\ \E lost \in SUBSET {c \in Channels : ~Waits(c)} :
       air' = [c \in Channels |-> IF c \in lost THEN NoMsg ELSE air[c]]
  /\ UNCHANGED <<buffer, report, calls, owner, tasks>>

AMNext ==
  \/ \E m \in Msgs : ClientSends(m)
  \/ sendTask
  \/ \E c \in Channels : ChannelInterrupt(c)
  \/ \E c \in Channels : ChannelDone(c)
  \/ ClientHandlerReturns
  \/ TaskReturns
  \/ RunApp
  \/ AppInterrupt
  \/ Sleep
  \/ PowerCycle

AMSpec == Init /\ [][AMNext]_amVars

\* Tasks run to completion, the main loop goes on, and a channel completes what
\* it has accepted (BareSendMsg: "a sendDone should be expected").  Its interrupt
\* keeps trying to post, so it succeeds if there is room again and again.
AMFairness ==
  /\ WF_amVars(sendTask \/ RunApp \/ Sleep \/ \E c \in Channels : ChannelDone(c))
  /\ WF_amVars(ClientHandlerReturns \/ TaskReturns)
  /\ \A c \in Channels : SF_amVars(ChannelInterrupt(c) /\ posted')

FairAMSpec == AMSpec /\ AMFairness

-----------------------------------------------------------------------------
(***************************************************************************)
(* Properties.                                                             *)
(***************************************************************************)

AMTypeOK ==
  /\ state \in BOOLEAN
  /\ buffer \in Msgs \union {NoMsg}
  /\ air \in [Channels -> Msgs \union {NoMsg}]
  /\ report \in [msg : Msgs \union {NoMsg}, success : BOOLEAN, ack : BOOLEAN]
  /\ calls \in Seq({"client", "queue", "dequeue", "service"})
  /\ report # NoReport => calls # << >>
  /\ restarted \in BOOLEAN
  /\ owner \in [Msgs -> {"app", "am", "queue"}]
  /\ Sched!TypeOK

\* The messages that are the business of the layer and of the channels.
InHand ==
  ((IF Waits("sendTask") THEN {buffer} ELSE {}) \union {air[c] : c \in Channels}) \ {NoMsg}

\* The layer refuses messages only while it has one, even after a restart: state
\* is set by what waits for sendTask or is on a channel, and a sendDone clears it.
BusyForAReason == state => InHand # {}

\* While the layer is busy it has a single message, and when it is not it has
\* none: no second message can overwrite buffer before sendTask reads it.
OneMessageInHand ==
  ~restarted =>
    /\ state <=> InHand # {}
    /\ \A c \in Channels : air[c] # NoMsg => ~Waits("sendTask")
    /\ \A j, k \in DOMAIN fifo : fifo[j] = "sendTask" /\ fifo[k] = "sendTask" => j = k

\* What the layer or a channel reads, the program may not write.
BuffersAreNotShared == ~restarted => \A m \in InHand : owner[m] # "app"

\* A sendDone event is signalled for a message some client has sent and has not
\* been told of, hence once for each message accepted.
SendDoneOnce ==
  [][report'.msg # NoMsg /\ report = NoReport /\ ~restarted
       => owner[report'.msg] # "app"]_amVars

\* Every message accepted is reported to its client, unless the layer restarts.
EverySendIsReported ==
  \A m \in Msgs : (owner[m] = "am") ~> (owner[m] = "app" \/ restarted)

=============================================================================
