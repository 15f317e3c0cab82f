------------------------------ MODULE QueueProofs ------------------------------
(***************************************************************************)
(* Proofs about AMStandard and QueuedSendM, for all messages, clients,     *)
(* task queues and other tasks.                                            *)
(*                                                                         *)
(* AMStandard: Busy holds for ever, state is set only while a message is   *)
(* on its way.  OneJob holds until the layer is restarted: the message on  *)
(* its way is one, it waits for sendTask or is on one channel, and its     *)
(* task waits at most once.                                                *)
(*                                                                         *)
(* QueuedSendM: whatever the wiring and the other clients do, and with     *)
(* restarts, the ring is contiguous and implements SendQueue (Ring).  That *)
(* the queue never stops and never sends a message twice holds without     *)
(* restarts, with room in the task queue, and if the component is the      *)
(* first to hear of a sendDone event (Moving).                             *)
(***************************************************************************)
EXTENDS QueuedSendM, TaskCounts

-----------------------------------------------------------------------------
(***************************************************************************)
(* AMStandard: the invariants.                                             *)
(***************************************************************************)

Types ==
  /\ fifo \in Seq(TaskNames)
  /\ state \in BOOLEAN
  /\ buffer \in Msgs \union {NoMsg}
  /\ air \in [Channels -> Msgs \union {NoMsg}]
  /\ owner \in [Msgs -> {"app", "am", "queue"}]
  /\ restarted \in BOOLEAN

Once(t) == \A j, k \in DOMAIN fifo : fifo[j] = t /\ fifo[k] = t => j = k

\* No task waits without a message, that of a channel waits once, and state is
\* set for a reason.
Busy ==
  /\ Waits("sendTask") => buffer \in Msgs
  /\ \A c \in Channels : Once(c) /\ (Waits(c) => air[c] # NoMsg)
  /\ state => Waits("sendTask") \/ \E c \in Channels : air[c] # NoMsg

OneJob ==
  /\ Once("sendTask")
  /\ Waits("sendTask") => state /\ owner[buffer] # "app"
  /\ \A c \in Channels : air[c] # NoMsg => state /\ ~Waits("sendTask") /\ owner[air[c]] # "app"
  /\ \A c, d \in Channels : air[c] # NoMsg /\ air[d] # NoMsg => c = d

Base == Types /\ Busy

IInv == Base /\ (~restarted => OneJob)

\* What a step does to the invariants; those of Base do not need OneJob.
Kept ==
  /\ Base'
  /\ restarted => restarted'
  /\ ~restarted' /\ OneJob => OneJob'

-----------------------------------------------------------------------------
(***************************************************************************)
(* The task queue.                                                         *)
(***************************************************************************)

\* What a post does to the queue: the task waits too, if there was room.
LEMMA PostStep ==
  ASSUME fifo \in Seq(TaskNames), NEW t \in TaskNames, Sched!Enqueue(t)
  PROVE  /\ fifo' \in Seq(TaskNames)
         /\ \A u : Waits(u)' <=> Waits(u) \/ (u = t /\ Sched!HasRoom)
         /\ \A u : Once(u) /\ (u # t \/ ~Waits(t)) => Once(u)'
  <1>1. CASE Sched!HasRoom
    <2>1. fifo' = Append(fifo, t)
      BY <1>1 DEF Sched!Enqueue
    <2>2. /\ fifo' \in Seq(TaskNames)
          /\ Len(fifo) \in Nat
          /\ DOMAIN fifo = 1 .. Len(fifo)
          /\ DOMAIN fifo' = 1 .. Len(fifo) + 1
          /\ \A k \in DOMAIN fifo : fifo'[k] = fifo[k]
          /\ fifo'[Len(fifo) + 1] = t
      BY <2>1
    <2> HIDE <2>1
    <2>3. \A k \in DOMAIN fifo' : k \in DOMAIN fifo \/ k = Len(fifo) + 1
      BY <2>2
    <2>4. DOMAIN fifo \subseteq DOMAIN fifo' /\ Len(fifo) + 1 \in DOMAIN fifo'
      BY <2>2
    <2>5. \A u : Waits(u)' <=> Waits(u) \/ u = t
      BY <2>2, <2>3, <2>4 DEF Waits
    <2>6. \A u : Once(u) /\ (u # t \/ ~Waits(t)) => Once(u)'
      BY <2>2, <2>3 DEF Once, Waits
    <2> QED BY <1>1, <2>2, <2>5, <2>6
  <1>2. CASE ~Sched!HasRoom
    BY <1>2 DEF Sched!Enqueue, Waits, Once
  <1> QED BY <1>1, <1>2

\* What a dispatch does: the oldest task leaves.
LEMMA DispatchStep ==
  ASSUME fifo \in Seq(TaskNames), NEW t, Sched!Dispatch, running' = t
  PROVE  /\ fifo' \in Seq(TaskNames)
         /\ Waits(t)
         /\ \A u : Waits(u)' => Waits(u)
         /\ \A u : Waits(u) /\ u # t => Waits(u)'
         /\ \A u : Once(u) => Once(u)'
         /\ Once(t) => ~Waits(t)'
  <1>1. fifo # << >> /\ fifo' = Tail(fifo) /\ t = Head(fifo)
    BY DEF Sched!Dispatch
  <1>2. /\ fifo' \in Seq(TaskNames)
        /\ Len(fifo) \in Nat \ {0}
        /\ DOMAIN fifo = 1 .. Len(fifo)
        /\ DOMAIN fifo' = 1 .. Len(fifo) - 1
        /\ \A k \in DOMAIN fifo' : fifo'[k] = fifo[k + 1]
        /\ t = fifo[1]
    BY <1>1
  <1> HIDE <1>1
  <1>3. \A k \in DOMAIN fifo' : k + 1 \in DOMAIN fifo /\ k + 1 # 1
    BY <1>2
  <1>4. \A k \in DOMAIN fifo : k # 1 => k - 1 \in DOMAIN fifo' /\ fifo'[k - 1] = fifo[k]
    BY <1>2
  <1>5. 1 \in DOMAIN fifo
    BY <1>2
  <1>6. \A j, k \in DOMAIN fifo' : j + 1 = k + 1 => j = k
    BY <1>2
  <1>7. Waits(t)
    BY <1>2, <1>5 DEF Waits
  <1>8. \A u : Waits(u)' => Waits(u)
    BY <1>2, <1>3 DEF Waits
  <1>9. \A u : Waits(u) /\ u # t => Waits(u)'
    BY <1>2, <1>4 DEF Waits
  <1>10. \A u : Once(u) => Once(u)'
    BY <1>2, <1>3, <1>6 DEF Once
  <1>11. Once(t) => ~Waits(t)'
    BY <1>2, <1>3, <1>5 DEF Once, Waits
  <1> QED BY <1>2, <1>7, <1>8, <1>9, <1>10, <1>11

\* A step that leaves the queue alone.
LEMMA SameQueue ==
  ASSUME fifo' = fifo
  PROVE  \A u : (Waits(u)' <=> Waits(u)) /\ (Once(u)' <=> Once(u))
  BY DEF Waits, Once

-----------------------------------------------------------------------------
(***************************************************************************)
(* The steps.                                                              *)
(***************************************************************************)

\* Two channels, with names of their own among the tasks.
LEMMA Names ==
  /\ {"sendTask", "App"} \union Channels \subseteq TaskNames
  /\ "sendTask" \notin Channels /\ "App" \notin Channels
  /\ \A m : Channel(m) \in Channels
  BY DEF TaskNames, Channels, Channel

LEMMA IInit == Init => IInv
  <1> SUFFICES ASSUME Init PROVE IInv
    OBVIOUS
  <1>1. fifo = << >>
    BY DEF Init, Sched!Init
  <1>2. \A u : ~Waits(u) /\ Once(u)
    BY <1>1 DEF Waits, Once
  <1>3. Types
    <2>1. fifo \in Seq(TaskNames)
      BY <1>1
    <2>2. air \in [Channels -> Msgs \union {NoMsg}] /\ owner \in [Msgs -> {"app", "am", "queue"}]
      BY DEF Init
    <2> QED BY <2>1, <2>2 DEF Init, Types
  <1>4. \A c \in Channels : air[c] = NoMsg
    BY DEF Init
  <1> QED BY <1>2, <1>3, <1>4 DEF Init, IInv, Base, Busy, OneJob

\* A send that is refused changes nothing.
LEMMA RefusedSend ==
  ASSUME state \in BOOLEAN, NEW m, Send(m), ~CanSend
  PROVE  UNCHANGED <<state, buffer, fifo>>
  <1>1. CASE state
    BY <1>1 DEF Send, tasks
  <1>2. CASE ~state /\ ~Sched!HasRoom
    <2>1. /\ Sched!Enqueue("sendTask")
          /\ state' = Sched!HasRoom
          /\ buffer' = IF Sched!HasRoom THEN m ELSE buffer
      BY <1>2, Zenon DEF Send, Sched!TaskPosts
    <2>2. state = FALSE
      BY <1>2
    <2>3. state' = FALSE
      BY <1>2, <2>1 DEF Sched!HasRoom
    <2>4. buffer' = buffer /\ fifo' = fifo
      BY <1>2, <2>1, Zenon DEF Sched!Enqueue
    <2> QED BY <2>2, <2>3, <2>4
  <1> QED BY <1>1, <1>2 DEF CanSend

\* A client sends: refused while the layer is busy or the task queue is full.
LEMMA ClientSendsStep ==
  ASSUME Base, NEW m \in Msgs, ClientSends(m)
  PROVE  Kept
  <1> USE DEF Base, Kept, Types
  <1>0. UNCHANGED <<air, restarted>> /\ owner[m] = "app"
    BY DEF ClientSends
  <1>1. CASE ~CanSend
    <2>1. owner' = owner
      BY <1>1 DEF ClientSends
    <2>2. UNCHANGED <<state, buffer, fifo>>
      BY <1>1, RefusedSend DEF ClientSends
    <2> QED BY <1>0, <2>1, <2>2, SameQueue DEF Busy, OneJob
  <1>2. CASE CanSend
    <2>1. /\ ~state /\ Sched!HasRoom
          /\ state' = TRUE /\ buffer' = m /\ owner' = [owner EXCEPT ![m] = "am"]
          /\ Sched!Enqueue("sendTask")
      BY <1>2 DEF ClientSends, Send, CanSend, Sched!TaskPosts
    <2>2. /\ fifo' \in Seq(TaskNames)
          /\ \A u : Waits(u)' <=> Waits(u) \/ u = "sendTask"
          /\ \A u : Once(u) /\ (u # "sendTask" \/ ~Waits("sendTask")) => Once(u)'
      BY <2>1, PostStep, Names
    <2>3. Types'
      BY <1>0, <2>1, <2>2
    <2>4. Busy'
      BY <1>0, <2>1, <2>2, Names DEF Busy
    <2>5. ASSUME ~restarted, OneJob PROVE OneJob'
      <3>1. ~Waits("sendTask") /\ \A c \in Channels : air[c] = NoMsg
        BY <2>1, <2>5 DEF OneJob
      <3> QED BY <1>0, <2>1, <2>2, <2>5, <3>1, Names DEF OneJob
    <2> QED BY <1>0, <2>3, <2>4, <2>5
  <1> QED BY <1>1, <1>2

LEMMA sendTaskStep ==
  ASSUME Base, sendTask
  PROVE  Kept
  <1> USE DEF Base, Kept, Types
  <1>1. /\ fifo' \in Seq(TaskNames)
        /\ Waits("sendTask")
        /\ \A u : Waits(u)' => Waits(u)
        /\ \A u : Once(u) => Once(u)'
        /\ Once("sendTask") => ~Waits("sendTask")'
        /\ UNCHANGED <<buffer, restarted>>
    BY DispatchStep DEF sendTask
  <1>2. buffer \in Msgs /\ buffer # NoMsg /\ Channel(buffer) \in Channels
    BY <1>1, Names, AMAssumption DEF Busy
  <1>3. CASE /\ air[Channel(buffer)] = NoMsg
             /\ air' = [air EXCEPT ![Channel(buffer)] = buffer]
             /\ UNCHANGED <<state, owner>>
    <2>1. Types'
      BY <1>1, <1>2, <1>3
    <2>2. \A c \in Channels : air'[c] = NoMsg => air[c] = NoMsg
      BY <1>2, <1>3
    <2>3. air'[Channel(buffer)] # NoMsg
      BY <1>2, <1>3
    <2>4. Busy'
      BY <1>1, <1>2, <1>3, <2>2, <2>3 DEF Busy
    <2>5. ASSUME ~restarted, OneJob PROVE OneJob'
      <3>1. state /\ owner[buffer] # "app" /\ \A c \in Channels : air[c] = NoMsg
        BY <1>1, <2>5 DEF OneJob
      <3>2. ~Waits("sendTask")'
        BY <1>1, <2>5 DEF OneJob
      <3>3. \A c \in Channels : air'[c] # NoMsg => c = Channel(buffer) /\ air'[c] = buffer
        BY <1>2, <1>3, <3>1
      <3> QED BY <1>1, <1>3, <2>5, <3>1, <3>2, <3>3 DEF OneJob
    <2> QED BY <1>1, <2>1, <2>4, <2>5
  <1>4. CASE ReportSendDone(buffer, FALSE, FALSE) /\ UNCHANGED air
    <2>1. state' = FALSE /\ owner' \in [Msgs -> {"app", "am", "queue"}]
      BY <1>2, <1>4 DEF ReportSendDone
    <2>2. Types' /\ Busy'
      BY <1>1, <1>2, <1>4, <2>1 DEF Busy
    <2>3. ASSUME ~restarted, OneJob PROVE OneJob'
      <3>1. \A c \in Channels : air[c] = NoMsg
        BY <1>1, <2>3 DEF OneJob
      <3> QED BY <1>1, <1>4, <2>1, <2>3, <3>1 DEF OneJob
    <2> QED BY <1>1, <2>2, <2>3
  <1> QED BY <1>3, <1>4 DEF sendTask

LEMMA ChannelInterruptStep ==
  ASSUME Base, NEW c \in Channels, ChannelInterrupt(c)
  PROVE  Kept
  <1> USE DEF Base, Kept, Types
  <1>1. /\ air[c] # NoMsg /\ ~Waits(c) /\ Sched!Enqueue(c)
        /\ UNCHANGED <<state, buffer, air, owner, restarted>>
    BY DEF ChannelInterrupt, Sched!InterruptPosts
  <1>2. /\ fifo' \in Seq(TaskNames)
        /\ \A u : Waits(u)' => Waits(u) \/ u = c
        /\ \A u : Waits(u) => Waits(u)'
        /\ \A u : Once(u) => Once(u)'
    BY <1>1, PostStep, Names
  <1>3. "sendTask" # c
    BY Names
  <1> QED BY <1>1, <1>2, <1>3 DEF Busy, OneJob

LEMMA ChannelDoneStep ==
  ASSUME Base, NEW c \in Channels, ChannelDone(c)
  PROVE  Kept
  <1> USE DEF Base, Kept, Types
  <1>1. /\ fifo' \in Seq(TaskNames)
        /\ Waits(c)
        /\ \A u : Waits(u)' => Waits(u)
        /\ \A u : Once(u) => Once(u)'
        /\ Once(c) => ~Waits(c)'
        /\ UNCHANGED <<buffer, restarted>>
        /\ air' = [air EXCEPT ![c] = NoMsg]
    BY DispatchStep DEF ChannelDone
  <1>2. state' = FALSE /\ owner' \in [Msgs -> {"app", "am", "queue"}]
    BY DEF ChannelDone, ReportSendDone
  <1>0. \A d \in Channels : d # c => air'[d] = air[d]
    BY <1>1
  <1>3. Types' /\ Busy'
    BY <1>0, <1>1, <1>2 DEF Busy
  <1>4. ASSUME ~restarted, OneJob PROVE OneJob'
    <2>1. air[c] # NoMsg
      BY <1>1 DEF Busy
    <2>2. ~Waits("sendTask") /\ \A d \in Channels : air'[d] = NoMsg
      BY <1>0, <1>1, <1>4, <2>1 DEF OneJob
    <2> QED BY <1>1, <1>2, <1>4, <2>2 DEF OneJob
  <1> QED BY <1>1, <1>3, <1>4

\* The steps that leave the messages alone and post at most an App.
LEMMA OtherStep ==
  ASSUME Base,
         ClientHandlerReturns \/ TaskReturns \/ RunApp \/ AppInterrupt \/ Sleep \/ UNCHANGED amVars
  PROVE  Kept
  <1> USE DEF Base, Kept, Types
  <1>1. UNCHANGED <<state, buffer, air, owner, restarted>>
    BY DEF ClientHandlerReturns, TaskReturns, RunApp, AppInterrupt, Sleep, amVars
  <1>2. CASE RunApp
    <2>1. /\ fifo' \in Seq(TaskNames)
          /\ \A u : Waits(u)' => Waits(u)
          /\ \A u : Once(u) => Once(u)'
          /\ Waits("sendTask") => Waits("sendTask")'
      BY <1>2, DispatchStep DEF RunApp
    <2> QED BY <1>1, <2>1 DEF Busy, OneJob
  <1>3. CASE AppInterrupt
    <2>1. Sched!Enqueue("App")
      BY <1>3 DEF AppInterrupt, Sched!InterruptPosts
    <2>2. /\ fifo' \in Seq(TaskNames)
          /\ \A u : Waits(u)' => Waits(u) \/ u = "App"
          /\ \A u : Waits(u) => Waits(u)'
          /\ \A u : Once(u) /\ u # "App" => Once(u)'
      BY <2>1, PostStep, Names
    <2> QED BY <1>1, <2>2, Names DEF Busy, OneJob
  <1>4. CASE ClientHandlerReturns \/ TaskReturns \/ Sleep \/ UNCHANGED amVars
    <2>1. fifo' = fifo
      BY <1>4 DEF ClientHandlerReturns, TaskReturns, Sleep, amVars, tasks, Sched!Return, Sched!Sleep
    <2> QED BY <1>1, <2>1, SameQueue DEF Busy, OneJob
  <1> QED BY <1>2, <1>3, <1>4

LEMMA PowerCycleStep ==
  ASSUME Base, PowerCycle
  PROVE  Kept
  <1> USE DEF Base, Kept, Types
  <1>1. /\ state' = FALSE /\ restarted' = TRUE
        /\ UNCHANGED <<buffer, owner, fifo>>
        /\ air' \in [Channels -> Msgs \union {NoMsg}]
        /\ \A c \in Channels : Waits(c) => air'[c] = air[c]
    BY DEF PowerCycle, tasks
  <1> QED BY <1>1, SameQueue DEF Busy

LEMMA BaseStep ==
  ASSUME Base, [AMNext]_amVars
  PROVE  Kept
  BY ClientSendsStep, sendTaskStep, ChannelInterruptStep, ChannelDoneStep, OtherStep,
     PowerCycleStep DEF AMNext

LEMMA Inductive == AMSpec => []IInv
  <1>1. IInv /\ [AMNext]_amVars => IInv'
    BY BaseStep DEF IInv, Kept
  <1> QED BY <1>1, IInit, PTL DEF AMSpec

-----------------------------------------------------------------------------
(***************************************************************************)
(* Types.                                                                  *)
(***************************************************************************)

\* A post and a dispatch keep the scheduler's types.
LEMMA EnqueueType ==
  ASSUME Sched!TypeOK, NEW t \in TaskNames, Sched!Enqueue(t),
         running' = running, asleep' \in BOOLEAN
  PROVE  Sched!TypeOK'
  <1>1. posted' \in BOOLEAN
    BY DEF Sched!Enqueue, Sched!HasRoom
  <1>2. CASE Len(fifo) < Capacity
    <2>1. fifo' = Append(fifo, t)
      BY <1>2 DEF Sched!Enqueue, Sched!HasRoom
    <2>2. fifo' \in Seq(TaskNames) /\ Len(fifo') = Len(fifo) + 1 /\ Len(fifo) \in Nat
      BY <2>1 DEF Sched!TypeOK
    <2> QED BY <1>1, <1>2, <2>2, AMAssumption DEF Sched!TypeOK
  <1>3. CASE ~(Len(fifo) < Capacity)
    <2>1. fifo' = fifo
      BY <1>3 DEF Sched!Enqueue, Sched!HasRoom
    <2> QED BY <1>1, <2>1 DEF Sched!TypeOK
  <1> QED BY <1>2, <1>3

LEMMA DispatchType ==
  ASSUME Sched!TypeOK, Sched!Dispatch
  PROVE  Sched!TypeOK'
  <1>1. /\ fifo # << >> /\ fifo \in Seq(TaskNames)
        /\ fifo' = Tail(fifo) /\ running' = Head(fifo)
    BY DEF Sched!TypeOK, Sched!Dispatch
  <1>2. /\ fifo' \in Seq(TaskNames) /\ running' \in TaskNames
        /\ Len(fifo') = Len(fifo) - 1 /\ Len(fifo) \in Nat
    BY <1>1
  <1> QED BY <1>2, AMAssumption DEF Sched!TypeOK, Sched!Dispatch

Callees == {"client", "queue", "dequeue", "service"}

CallsType ==
  /\ report \in [msg : Msgs \union {NoMsg}, success : BOOLEAN, ack : BOOLEAN]
  /\ calls \in Seq(Callees)
  /\ report # NoReport => calls # << >>

\* A handler returns: the event is over with the last one.
LEMMA HandlerReturnsType ==
  ASSUME CallsType, calls # << >>, HandlerReturns
  PROVE  CallsType'
  <1>1. calls' = Tail(calls) /\ report' = IF Len(calls) = 1 THEN NoReport ELSE report
    BY DEF HandlerReturns
  <1>2. calls' \in Seq(Callees) /\ Len(calls) \in Nat /\ Len(calls') = Len(calls) - 1
    BY <1>1 DEF CallsType
  <1>3. Len(calls) # 1 => calls' # << >>
    BY <1>2
  <1>4. report' \in [msg : Msgs \union {NoMsg}, success : BOOLEAN, ack : BOOLEAN]
    BY <1>1 DEF CallsType, NoReport
  <1> QED BY <1>1, <1>2, <1>3, <1>4 DEF CallsType

LEMMA ReportType ==
  ASSUME NEW m \in Msgs \union {NoMsg}, NEW success \in BOOLEAN, NEW ack \in BOOLEAN,
         ReportSendDone(m, success, ack), owner \in [Msgs -> {"app", "am", "queue"}]
  PROVE  CallsType' /\ owner' \in [Msgs -> {"app", "am", "queue"}] /\ state' = FALSE
  <1>1. report' = [msg |-> m, success |-> success, ack |-> ack] /\ calls' = Handlers
    BY DEF ReportSendDone
  <1>2. calls' \in Seq(Callees) /\ calls' # << >>
    BY <1>1, AMAssumption DEF Callees
  <1>3. CallsType'
    BY <1>1, <1>2 DEF CallsType
  <1>4. owner' = [owner EXCEPT ![m] = IF owner[m] = "am" THEN "app" ELSE owner[m]]
    BY DEF ReportSendDone
  <1>5. owner' \in [Msgs -> {"app", "am", "queue"}]
    BY <1>4
  <1>6. state' = FALSE
    BY DEF ReportSendDone
  <1> QED BY <1>3, <1>5, <1>6

LEMMA TypeSplit ==
  AMTypeOK <=> /\ CallsType /\ Sched!TypeOK
               /\ state \in BOOLEAN /\ restarted \in BOOLEAN
               /\ buffer \in Msgs \union {NoMsg}
               /\ air \in [Channels -> Msgs \union {NoMsg}]
               /\ owner \in [Msgs -> {"app", "am", "queue"}]
  BY Zenon DEF AMTypeOK, CallsType, Callees

LEMMA TypeSplitNext ==
  AMTypeOK' <=> /\ CallsType' /\ Sched!TypeOK'
                /\ state' \in BOOLEAN /\ restarted' \in BOOLEAN
                /\ buffer' \in Msgs \union {NoMsg}
                /\ air' \in [Channels -> Msgs \union {NoMsg}]
                /\ owner' \in [Msgs -> {"app", "am", "queue"}]
  BY Zenon DEF AMTypeOK, CallsType, Callees

LEMMA AMTypeInit == Init => AMTypeOK
  <1> SUFFICES ASSUME Init PROVE AMTypeOK
    OBVIOUS
  <1>1. CallsType
    BY DEF Init, CallsType, NoReport
  <1>2. fifo \in Seq(TaskNames) /\ Len(fifo) = 0
    BY DEF Init, Sched!Init
  <1>3. running = "boot" /\ asleep = FALSE /\ posted = TRUE
    BY DEF Init, Sched!Init
  <1>4. Len(fifo) <= Capacity
    BY <1>2, AMAssumption
  <1>5. Sched!TypeOK
    BY ONLY <1>2, <1>3, <1>4 DEF Sched!TypeOK
  <1> QED BY <1>1, <1>5, TypeSplit DEF Init

LEMMA AMTypeStep == AMTypeOK /\ [AMNext]_amVars => AMTypeOK'
  <1> SUFFICES ASSUME AMTypeOK, [AMNext]_amVars PROVE AMTypeOK'
    OBVIOUS
  <1>0. /\ CallsType /\ Sched!TypeOK
        /\ state \in BOOLEAN /\ restarted \in BOOLEAN
        /\ buffer \in Msgs \union {NoMsg}
        /\ air \in [Channels -> Msgs \union {NoMsg}]
        /\ owner \in [Msgs -> {"app", "am", "queue"}]
        /\ asleep \in BOOLEAN
    BY TypeSplit DEF Sched!TypeOK
  <1>1. ASSUME NEW m \in Msgs, ClientSends(m) PROVE AMTypeOK'
    <2>1. UNCHANGED <<air, report, calls, restarted>> /\ owner' \in [Msgs -> {"app", "am", "queue"}]
      BY <1>0, <1>1 DEF ClientSends
    <2>2. state' \in BOOLEAN /\ buffer' \in Msgs \union {NoMsg} /\ Sched!TypeOK'
      <3>1. CASE state
        BY <1>0, <1>1, <3>1 DEF ClientSends, Send, tasks, Sched!TypeOK
      <3>2. CASE ~state
        <4>1. /\ Sched!Enqueue("sendTask") /\ UNCHANGED <<running, asleep>>
              /\ state' = Sched!HasRoom /\ buffer' = IF Sched!HasRoom THEN m ELSE buffer
          BY <1>1, <3>2, Zenon DEF ClientSends, Send, Sched!TaskPosts
        <4>2. Sched!TypeOK'
          BY <1>0, <4>1, EnqueueType, Names
        <4>3. state' \in BOOLEAN
          BY <4>1 DEF Sched!HasRoom
        <4>4. buffer' \in Msgs \union {NoMsg}
          BY <1>0, <4>1, Zenon
        <4> QED BY <4>2, <4>3, <4>4
      <3> QED BY <3>1, <3>2
    <2> QED BY <1>0, <2>1, <2>2, TypeSplitNext DEF CallsType
  <1>2. ASSUME sendTask PROVE AMTypeOK'
    <2>1. Sched!TypeOK' /\ UNCHANGED <<buffer, restarted>>
      BY <1>0, <1>2, DispatchType DEF sendTask
    <2>2. CASE air' = [air EXCEPT ![Channel(buffer)] = buffer] /\ UNCHANGED <<state, report, calls, owner>>
      BY <1>0, <2>1, <2>2, TypeSplitNext DEF CallsType
    <2>3. CASE ReportSendDone(buffer, FALSE, FALSE) /\ UNCHANGED air
      BY <1>0, <2>1, <2>3, ReportType, TypeSplitNext
    <2> QED BY <1>2, <2>2, <2>3 DEF sendTask
  <1>3. ASSUME NEW t \in TaskNames, Sched!InterruptPosts(t),
               UNCHANGED <<state, buffer, air, report, calls, owner, restarted>>
        PROVE  AMTypeOK'
    <2>1. Sched!TypeOK'
      BY <1>0, <1>3, EnqueueType DEF Sched!InterruptPosts
    <2> QED BY <1>0, <1>3, <2>1, TypeSplitNext DEF CallsType
  <1>4. ASSUME NEW c \in Channels, ChannelDone(c) PROVE AMTypeOK'
    <2>1. /\ Sched!TypeOK' /\ UNCHANGED <<buffer, restarted>>
          /\ air' \in [Channels -> Msgs \union {NoMsg}] /\ air[c] \in Msgs \union {NoMsg}
      BY <1>0, <1>4, DispatchType DEF ChannelDone
    <2>2. PICK success \in BOOLEAN, ack \in BOOLEAN : ReportSendDone(air[c], success, ack)
      BY <1>4 DEF ChannelDone
    <2> QED BY <1>0, <2>1, <2>2, ReportType, TypeSplitNext
  <1>5. ASSUME ClientHandlerReturns PROVE AMTypeOK'
    <2>1. CallsType'
      BY <1>0, <1>5, HandlerReturnsType DEF ClientHandlerReturns
    <2>2. UNCHANGED <<state, buffer, air, owner, tasks, restarted>>
      BY <1>5 DEF ClientHandlerReturns
    <2> QED BY <1>0, <2>1, <2>2, TypeSplitNext DEF tasks, Sched!TypeOK
  <1>6. ASSUME TaskReturns \/ Sleep \/ UNCHANGED amVars PROVE AMTypeOK'
    <2>1. /\ UNCHANGED <<state, buffer, air, report, calls, owner, restarted>>
          /\ Sched!TypeOK'
      BY <1>0, <1>6 DEF TaskReturns, Sleep, amVars, tasks, Sched!Return, Sched!Sleep, Sched!TypeOK
    <2> QED BY <1>0, <2>1, TypeSplitNext DEF CallsType
  <1>7. ASSUME RunApp PROVE AMTypeOK'
    <2>1. /\ UNCHANGED <<state, buffer, air, report, calls, owner, restarted>>
          /\ Sched!TypeOK'
      BY <1>0, <1>7, DispatchType DEF RunApp
    <2> QED BY <1>0, <2>1, TypeSplitNext DEF CallsType
  <1>8. ASSUME PowerCycle PROVE AMTypeOK'
    <2>1. /\ state' = FALSE /\ restarted' = TRUE
          /\ air' \in [Channels -> Msgs \union {NoMsg}]
          /\ UNCHANGED <<buffer, report, calls, owner, tasks>>
      BY <1>0, <1>8 DEF PowerCycle
    <2> QED BY <1>0, <2>1, TypeSplitNext DEF CallsType, tasks, Sched!TypeOK
  <1>9. ASSUME ChannelInterrupt("UART") \/ ChannelInterrupt("Radio") \/ AppInterrupt PROVE AMTypeOK'
    BY <1>3, <1>9, Names DEF ChannelInterrupt, AppInterrupt, Channels
  <1> QED BY <1>1, <1>2, <1>4, <1>5, <1>6, <1>7, <1>8, <1>9 DEF AMNext, Channels

-----------------------------------------------------------------------------
(***************************************************************************)
(* The theorems.                                                           *)
(***************************************************************************)

(***************************************************************************)
(* The variables of the layer and of the task queue keep their types, and   *)
(* a sendDone event is under way exactly while one of its handlers has not *)
(* returned (AMStandard.nc).                                               *)
(***************************************************************************)
THEOREM AMTypeCorrect == AMSpec => []AMTypeOK
  BY AMTypeInit, AMTypeStep, PTL DEF AMSpec

(***************************************************************************)
(* The layer refuses messages only while one is on its way, restarts or    *)
(* not: a failed post or a refusal never leaves state set (SendMsg.send,   *)
(* sendTask, reportSendDone, Control.start).                               *)
(***************************************************************************)
THEOREM NeverBusyInVain == AMSpec => []BusyForAReason
  <1>1. IInv => BusyForAReason
    BY AMAssumption DEF IInv, Base, Types, Busy, BusyForAReason, InHand
  <1> QED BY <1>1, Inductive, PTL

(***************************************************************************)
(* Until a restart the layer and its channels have one message while state *)
(* is set and none otherwise, so that buffer is not overwritten before     *)
(* sendTask reads it (SendMsg.send, sendTask).                             *)
(***************************************************************************)
THEOREM OneMessageAtATime == AMSpec => []OneMessageInHand
  <1>1. ASSUME IInv, ~restarted
        PROVE  /\ state <=> InHand # {}
               /\ \A c \in Channels : air[c] # NoMsg => ~Waits("sendTask")
               /\ Once("sendTask")
    <2>1. OneJob
      BY <1>1 DEF IInv
    <2>2. state => InHand # {}
      BY <1>1, AMAssumption DEF IInv, Base, Types, Busy, InHand
    <2>3. ASSUME NEW m \in InHand
          PROVE  state
      BY <2>1, <2>3 DEF OneJob, InHand
    <2> QED BY <2>1, <2>2, <2>3 DEF OneJob
  <1>2. IInv => OneMessageInHand
    BY <1>1 DEF OneMessageInHand, Once
  <1> QED BY <1>2, Inductive, PTL

(***************************************************************************)
(* Until a restart the program owns no buffer that the layer or a channel  *)
(* has in hand (SendMsg.send gives it away, SendMsg.sendDone back).        *)
(***************************************************************************)
THEOREM BuffersStayApart == AMSpec => []BuffersAreNotShared
  <1>1. IInv => BuffersAreNotShared
    BY AMAssumption DEF IInv, Base, Types, Busy, OneJob, BuffersAreNotShared, InHand
  <1> QED BY <1>1, Inductive, PTL

(***************************************************************************)
(* Until a restart a sendDone event is for a message that was accepted and *)
(* not yet reported (reportSendDone).                                      *)
(***************************************************************************)
THEOREM ReportedOnce == AMSpec => SendDoneOnce
  <1> DEFINE A == report'.msg # NoMsg /\ report = NoReport /\ ~restarted => owner[report'.msg] # "app"
  <1>1. IInv /\ [AMNext]_amVars => [A]_amVars
    <2> SUFFICES ASSUME IInv, AMNext, report'.msg # NoMsg, report = NoReport, ~restarted
                 PROVE  owner[report'.msg] # "app"
      OBVIOUS
    <2>1. CASE sendTask
      <3>1. report'.msg = buffer \/ report' = report
        BY <2>1 DEF sendTask, ReportSendDone
      <3>2. Waits("sendTask")
        BY <2>1, DispatchStep DEF sendTask, IInv, Base, Types
      <3> QED BY <3>1, <3>2 DEF IInv, Base, OneJob, NoReport
    <2>2. CASE \E c \in Channels : ChannelDone(c)
      <3>1. PICK c \in Channels : ChannelDone(c)
        BY <2>2
      <3>2. report'.msg = air[c]
        BY <3>1 DEF ChannelDone, ReportSendDone
      <3> QED BY <3>2 DEF IInv, Base, OneJob
    <2>3. CASE ~sendTask /\ ~\E c \in Channels : ChannelDone(c)
      <3>1. report' \in {report, NoReport}
        BY <2>3 DEF AMNext, ClientSends, ChannelInterrupt, ClientHandlerReturns, HandlerReturns,
                    TaskReturns, RunApp, AppInterrupt, Sleep, PowerCycle
      <3> QED BY <3>1 DEF NoReport
    <2> QED BY <2>1, <2>2, <2>3
  <1> QED BY <1>1, Inductive, PTL DEF AMSpec, SendDoneOnce

-----------------------------------------------------------------------------
(***************************************************************************)
(* Indices.                                                                *)
(***************************************************************************)

LEMMA SizeType == MESSAGE_QUEUE_SIZE \in Nat \ {0}
  BY QueueAssumption

Mod(x) == x % MESSAGE_QUEUE_SIZE

\* The remainder on the numbers that occur.
LEMMA Wraps ==
  ASSUME NEW x \in 0 .. 2 * MESSAGE_QUEUE_SIZE - 1
  PROVE  /\ Mod(x) = IF x < MESSAGE_QUEUE_SIZE THEN x ELSE x - MESSAGE_QUEUE_SIZE
         /\ Mod(x) \in Slots
  BY SizeType DEF Slots, Mod

LEMMA ModOfSum ==
  ASSUME NEW d \in Slots, NEW k \in 0 .. MESSAGE_QUEUE_SIZE
  PROVE  /\ Mod(d + k) = IF d + k < MESSAGE_QUEUE_SIZE THEN d + k ELSE d + k - MESSAGE_QUEUE_SIZE
         /\ Mod(d + k) \in Slots
  <1>1. d + k \in 0 .. 2 * MESSAGE_QUEUE_SIZE - 1
    BY SizeType DEF Slots
  <1> QED BY <1>1, Wraps, SizeType DEF Slots

LEMMA ModIsInjective ==
  ASSUME NEW d \in Slots, NEW j \in Slots, NEW k \in Slots, Mod(d + j) = Mod(d + k)
  PROVE  j = k
  <1>1. d + j \in 0 .. 2 * MESSAGE_QUEUE_SIZE - 1 /\ d + k \in 0 .. 2 * MESSAGE_QUEUE_SIZE - 1
    BY SizeType DEF Slots
  <1> QED BY <1>1, Wraps, SizeType DEF Slots

\* The remainder of a number that is less than a multiple of n, by n or less.
LEMMA RemainderBelowMultiple ==
  ASSUME NEW n \in Nat \ {0}, NEW w \in Int, w % n = 0,
         NEW x \in Int, NEW r \in 0 .. n - 1, r = x - w + n
  PROVE  x % n = r
  <1> DEFINE p == x \div n
             t == x % n
             q == w \div n
  <1>1. x = n * p + t /\ p \in Int /\ t \in 0 .. n - 1
    OBVIOUS
  <1>2. w = n * q /\ q \in Int
    OBVIOUS
  <1> HIDE DEF p, t, q
  <1>3. n * p + t + n = n * q + r
    BY <1>1, <1>2
  <1>4. CASE p > q - 1
    <2>1. n * (p + 1 - q) >= n
      BY <1>1, <1>2, <1>4
    <2> QED BY <1>1, <1>2, <1>3, <2>1
  <1>5. CASE p < q - 1
    <2>1. n * (q - 1 - p) >= n
      BY <1>1, <1>2, <1>5
    <2> QED BY <1>1, <1>2, <1>3, <2>1
  <1>6. CASE p = q - 1
    BY <1>1, <1>2, <1>3, <1>6 DEF t
  <1> QED BY <1>1, <1>2, <1>4, <1>5, <1>6

\* getOccupancy is the distance between the two indices around the ring,
\* although it is computed modulo 2^16 first.
LEMMA OccupancyIsDistance ==
  ASSUME NEW e \in Slots, NEW d \in Slots
  PROVE  Mod((e - d) % WordMod) = IF e >= d THEN e - d ELSE e - d + MESSAGE_QUEUE_SIZE
  <1>1. WordMod \in Nat \ {0} /\ MESSAGE_QUEUE_SIZE \in Nat \ {0} /\ WordMod % MESSAGE_QUEUE_SIZE = 0
    BY QueueAssumption
  <1>2. WordMod >= MESSAGE_QUEUE_SIZE
    BY <1>1
  <1>3. e \in 0 .. MESSAGE_QUEUE_SIZE - 1 /\ d \in 0 .. MESSAGE_QUEUE_SIZE - 1
    BY SizeType DEF Slots
  <1>4. CASE e >= d
    <2>1. (e - d) % WordMod = e - d
      BY <1>1, <1>2, <1>3, <1>4
    <2>2. (e - d) % MESSAGE_QUEUE_SIZE = e - d
      BY <1>1, <1>3, <1>4
    <2> QED BY <1>4, <2>1, <2>2 DEF Mod
  <1>5. CASE e < d
    <2>1. (e - d) % WordMod = e - d + WordMod
      BY <1>1, <1>2, <1>3, <1>5
    <2> DEFINE x == e - d + WordMod
               r == e - d + MESSAGE_QUEUE_SIZE
    <2>2. x \in Int /\ r \in 0 .. MESSAGE_QUEUE_SIZE - 1 /\ r = x - WordMod + MESSAGE_QUEUE_SIZE
      BY <1>1, <1>3, <1>5
    <2> HIDE DEF x, r, Mod
    <2>3. \A n \in Nat \ {0} : \A w \in Int : \A y \in Int : \A s \in 0 .. n - 1 :
             w % n = 0 /\ s = y - w + n => y % n = s
      BY RemainderBelowMultiple
    <2>4. x % MESSAGE_QUEUE_SIZE = r
      <3>1. MESSAGE_QUEUE_SIZE \in Nat \ {0} /\ WordMod \in Int
        BY <1>1
      <3> QED BY <1>1, <2>2, <2>3, <3>1, Zenon
    <2> QED BY <1>3, <1>5, <2>1, <2>4 DEF x, r, Mod
  <1> QED BY <1>3, <1>4, <1>5

Ring ==
  /\ msgqueue \in [Slots -> [pMsg : Msgs \union {NoMsg}, xmit_count : 0 .. MAX_RETRANSMIT_COUNT + 1]]
  /\ enqueue_next \in Slots
  /\ dequeue_next \in Slots
  /\ RingIsContiguous

Offset(k) == Mod(dequeue_next + k)

LEMMA RingOperators ==
  /\ getOccupancy = Mod((enqueue_next - dequeue_next) % WordMod)
  /\ \A s : After(s) = Mod(s + 1)
  /\ RingIsContiguous <=> \A k \in Slots : msgqueue[Offset(k)].pMsg # NoMsg <=> k < getOccupancy
  BY DEF getOccupancy, After, Mod, Offset, RingIsContiguous

LEMMA RingOperatorsNext ==
  /\ getOccupancy' = Mod((enqueue_next' - dequeue_next') % WordMod)
  /\ RingIsContiguous' <=>
       \A k \in Slots : msgqueue'[Offset(k)'].pMsg # NoMsg <=> k < getOccupancy'
  BY DEF getOccupancy, Mod, Offset, RingIsContiguous

\* What getOccupancy returns.
LEMMA OccupancyValue ==
  ASSUME enqueue_next \in Slots, dequeue_next \in Slots
  PROVE  /\ getOccupancy = IF enqueue_next >= dequeue_next
                             THEN enqueue_next - dequeue_next
                             ELSE enqueue_next - dequeue_next + MESSAGE_QUEUE_SIZE
         /\ getOccupancy \in Slots
  <1>1. getOccupancy = IF enqueue_next >= dequeue_next
                         THEN enqueue_next - dequeue_next
                         ELSE enqueue_next - dequeue_next + MESSAGE_QUEUE_SIZE
    BY OccupancyIsDistance, RingOperators
  <1> QED BY <1>1, SizeType DEF Slots

\* The slots of the ring, counted from the oldest message.
LEMMA OffsetValue ==
  ASSUME dequeue_next \in Slots, NEW k \in 0 .. MESSAGE_QUEUE_SIZE
  PROVE  /\ Offset(k) = IF dequeue_next + k < MESSAGE_QUEUE_SIZE
                          THEN dequeue_next + k ELSE dequeue_next + k - MESSAGE_QUEUE_SIZE
         /\ Offset(k) \in Slots
  BY ModOfSum DEF Offset

LEMMA AfterValue ==
  ASSUME NEW s \in Slots
  PROVE  /\ After(s) = IF s + 1 < MESSAGE_QUEUE_SIZE THEN s + 1 ELSE 0
         /\ After(s) \in Slots
  <1>1. s + 1 \in 0 .. 2 * MESSAGE_QUEUE_SIZE - 1
    BY SizeType DEF Slots
  <1> QED BY <1>1, Wraps, RingOperators, SizeType DEF Slots

LEMMA OffsetsDiffer ==
  ASSUME dequeue_next \in Slots, NEW j \in Slots, NEW k \in Slots, Offset(j) = Offset(k)
  PROVE  j = k
  BY ModIsInjective DEF Offset

\* The slot that follows the last message is enqueue_next, and the first one is
\* the oldest message's.
LEMMA Ends ==
  ASSUME enqueue_next \in Slots, dequeue_next \in Slots
  PROVE  Offset(getOccupancy) = enqueue_next /\ Offset(0) = dequeue_next /\ 0 \in Slots
  <1>1. 0 \in 0 .. MESSAGE_QUEUE_SIZE /\ 0 \in Slots
    BY SizeType DEF Slots
  <1>2. getOccupancy \in 0 .. MESSAGE_QUEUE_SIZE
    BY OccupancyValue, SizeType DEF Slots
  <1>3. Offset(getOccupancy) = enqueue_next
    BY <1>2, OccupancyValue, OffsetValue, SizeType DEF Slots
  <1>4. Offset(0) = dequeue_next
    BY <1>1, OffsetValue, SizeType DEF Slots
  <1> QED BY <1>1, <1>3, <1>4

\* The oldest message is there unless the ring is empty.
LEMMA OldestThere ==
  ASSUME Ring
  PROVE  Oldest.pMsg # NoMsg <=> getOccupancy > 0
  <1>1. msgqueue[Offset(0)].pMsg # NoMsg <=> 0 < getOccupancy
    BY RingOperators, Ends DEF Ring
  <1>2. getOccupancy \in Nat
    BY OccupancyValue, SizeType DEF Ring, Slots
  <1> QED BY <1>1, <1>2, Ends DEF Ring, Oldest

\* A message is added behind the last one.
LEMMA EnqueueStep ==
  ASSUME Ring, NEW m \in Msgs, After(enqueue_next) # dequeue_next,
         msgqueue' = [msgqueue EXCEPT ![enqueue_next] = [pMsg |-> m, xmit_count |-> 0]],
         enqueue_next' = After(enqueue_next),
         dequeue_next' = dequeue_next
  PROVE  /\ Ring'
         /\ getOccupancy < MESSAGE_QUEUE_SIZE - 1
         /\ getOccupancy' = getOccupancy + 1
         /\ \A k \in Slots : Offset(k)' = Offset(k)
         /\ \A k \in Slots : k # getOccupancy => msgqueue'[Offset(k)] = msgqueue[Offset(k)]
         /\ msgqueue'[Offset(getOccupancy)] = [pMsg |-> m, xmit_count |-> 0]
  <1> DEFINE N == MESSAGE_QUEUE_SIZE
             c == getOccupancy
             c1 == getOccupancy'
  <1>1. /\ enqueue_next \in Slots /\ dequeue_next \in Slots
        /\ enqueue_next' \in Slots /\ dequeue_next' \in Slots
        /\ enqueue_next' = IF enqueue_next + 1 < N THEN enqueue_next + 1 ELSE 0
    BY AfterValue DEF Ring
  <1>2. /\ c = IF enqueue_next >= dequeue_next THEN enqueue_next - dequeue_next
                ELSE enqueue_next - dequeue_next + N
        /\ c \in Slots
    BY <1>1, OccupancyValue
  <1>3. c1 = IF enqueue_next' >= dequeue_next' THEN enqueue_next' - dequeue_next'
             ELSE enqueue_next' - dequeue_next' + N
    BY <1>1, OccupancyIsDistance, RingOperatorsNext
  <1> HIDE DEF c, c1
  <1>4. c < N - 1 /\ c1 = c + 1
    BY <1>1, <1>2, <1>3, SizeType DEF Slots
  <1>5. \A k \in Slots : Offset(k)' = Offset(k) /\ Offset(k) \in Slots
    <2> TAKE k \in Slots
    <2>1. k \in 0 .. N
      BY SizeType DEF Slots
    <2> QED BY <1>1, <2>1, OffsetValue DEF Offset
  <1>6. Offset(c) = enqueue_next
    BY <1>1, Ends DEF c
  <1>7. \A k \in Slots : k # c => Offset(k) # enqueue_next
    BY <1>1, <1>2, <1>6, OffsetsDiffer
  <1>8. \A k \in Slots : k # c => msgqueue'[Offset(k)] = msgqueue[Offset(k)]
    BY <1>5, <1>7 DEF Ring
  <1>9. msgqueue'[Offset(c)] = [pMsg |-> m, xmit_count |-> 0]
    BY <1>1, <1>6 DEF Ring
  <1>10. \A k \in Slots : msgqueue'[Offset(k)'].pMsg # NoMsg <=> k < c + 1
    <2> TAKE k \in Slots
    <2>1. CASE k = c
      <3>1. m # NoMsg
        BY AMAssumption
      <3> QED BY <1>2, <1>5, <1>9, <2>1, <3>1 DEF Slots
    <2>2. CASE k # c
      <3>1. msgqueue[Offset(k)].pMsg # NoMsg <=> k < c
        BY RingOperators DEF Ring, c
      <3> QED BY <1>2, <1>5, <1>8, <2>2, <3>1 DEF Slots
    <2> QED BY <2>1, <2>2
  <1>11. msgqueue' \in [Slots -> [pMsg : Msgs \union {NoMsg}, xmit_count : 0 .. MAX_RETRANSMIT_COUNT + 1]]
    <2>1. 0 \in 0 .. MAX_RETRANSMIT_COUNT + 1
      BY QueueAssumption
    <2> QED BY <2>1 DEF Ring
  <1>12. RingIsContiguous'
    BY <1>4, <1>10, RingOperatorsNext DEF c, c1
  <1> QED BY <1>1, <1>4, <1>5, <1>8, <1>9, <1>11, <1>12 DEF Ring, c, c1

\* The oldest message is removed.
LEMMA DequeueStep ==
  ASSUME Ring, Oldest.pMsg # NoMsg,
         msgqueue' = [msgqueue EXCEPT ![dequeue_next].pMsg = NoMsg],
         dequeue_next' = After(dequeue_next),
         enqueue_next' = enqueue_next
  PROVE  /\ Ring'
         /\ getOccupancy > 0
         /\ getOccupancy' = getOccupancy - 1
         /\ \A k \in Slots : k + 1 \in Slots => Offset(k)' = Offset(k + 1)
         /\ \A s \in Slots : s # dequeue_next => msgqueue'[s] = msgqueue[s]
  <1> DEFINE N == MESSAGE_QUEUE_SIZE
             c == getOccupancy
             c1 == getOccupancy'
  <1>1. /\ enqueue_next \in Slots /\ dequeue_next \in Slots
        /\ enqueue_next' \in Slots /\ dequeue_next' \in Slots
        /\ dequeue_next' = IF dequeue_next + 1 < N THEN dequeue_next + 1 ELSE 0
    BY AfterValue DEF Ring
  <1>2. /\ c = IF enqueue_next >= dequeue_next THEN enqueue_next - dequeue_next
                ELSE enqueue_next - dequeue_next + N
        /\ c \in Slots /\ c > 0
    BY <1>1, OccupancyValue, OldestThere
  <1>3. c1 = IF enqueue_next' >= dequeue_next' THEN enqueue_next' - dequeue_next'
             ELSE enqueue_next' - dequeue_next' + N
    BY <1>1, OccupancyIsDistance, RingOperatorsNext
  <1> HIDE DEF c, c1
  <1>4. c1 = c - 1
    BY <1>1, <1>2, <1>3, SizeType DEF Slots
  <1>5. ASSUME NEW k \in Slots
        PROVE  Offset(k)' = IF k + 1 < N THEN Offset(k + 1) ELSE dequeue_next
    <2>1. k \in 0 .. N /\ k + 1 \in 0 .. N
      BY <1>1, SizeType DEF Slots
    <2>2. Offset(k)' = IF dequeue_next' + k < N THEN dequeue_next' + k ELSE dequeue_next' + k - N
      <3>1. Offset(k)' = Mod(dequeue_next' + k)
        BY DEF Offset, Mod
      <3>2. Mod(dequeue_next' + k) = IF dequeue_next' + k < N THEN dequeue_next' + k
                                                              ELSE dequeue_next' + k - N
        BY <1>1, <2>1, ModOfSum
      <3> QED BY ONLY <3>1, <3>2
    <2>3. Offset(k + 1) = IF dequeue_next + (k + 1) < N
                            THEN dequeue_next + (k + 1) ELSE dequeue_next + (k + 1) - N
      BY <1>1, <2>1, OffsetValue
    <2> QED BY <1>1, <2>1, <2>2, <2>3, SizeType DEF Slots
  <1>6. \A s \in Slots : s # dequeue_next => msgqueue'[s] = msgqueue[s]
    BY DEF Ring
  <1>7. msgqueue'[dequeue_next].pMsg = NoMsg
    BY <1>1 DEF Ring
  <1>8. \A k \in Slots : msgqueue'[Offset(k)'].pMsg # NoMsg <=> k < c - 1
    <2> TAKE k \in Slots
    <2>1. CASE k + 1 < N
      <3>1. k + 1 \in Slots /\ k + 1 # 0
        BY <2>1, SizeType DEF Slots
      <3>2. Offset(k + 1) # dequeue_next /\ Offset(k + 1) \in Slots
        <4>1. Offset(0) = dequeue_next /\ 0 \in Slots
          BY <1>1, Ends
        <4>2. Offset(k + 1) # Offset(0)
          BY <1>1, <3>1, <4>1, OffsetsDiffer
        <4>3. k + 1 \in 0 .. MESSAGE_QUEUE_SIZE
          BY <3>1, SizeType DEF Slots
        <4> QED BY <1>1, <4>1, <4>2, <4>3, OffsetValue
      <3>3. msgqueue[Offset(k + 1)].pMsg # NoMsg <=> k + 1 < c
        BY <3>1, RingOperators DEF Ring, c
      <3>4. msgqueue'[Offset(k)'].pMsg = msgqueue[Offset(k + 1)].pMsg
        BY <1>5, <1>6, <2>1, <3>2
      <3> QED BY <1>2, <3>1, <3>3, <3>4 DEF Slots
    <2>2. CASE ~(k + 1 < N)
      <3>1. Offset(k)' = dequeue_next
        BY <1>5, <2>2
      <3>2. ~(k < c - 1)
        BY <1>2, <2>2, SizeType DEF Slots
      <3> QED BY <1>7, <3>1, <3>2
    <2> QED BY <2>1, <2>2
  <1>9. msgqueue' \in [Slots -> [pMsg : Msgs \union {NoMsg}, xmit_count : 0 .. MAX_RETRANSMIT_COUNT + 1]]
    BY DEF Ring
  <1>10. RingIsContiguous'
    BY <1>4, <1>8, RingOperatorsNext DEF c, c1
  <1>11. \A k \in Slots : k + 1 \in Slots => Offset(k)' = Offset(k + 1)
    BY <1>5, SizeType DEF Slots
  <1> QED BY <1>1, <1>2, <1>4, <1>6, <1>9, <1>10, <1>11 DEF Ring, c, c1

\* A step that changes at most transmission counts.
LEMMA SameRing ==
  ASSUME Ring, UNCHANGED <<enqueue_next, dequeue_next>>,
         msgqueue' \in [Slots -> [pMsg : Msgs \union {NoMsg}, xmit_count : 0 .. MAX_RETRANSMIT_COUNT + 1]],
         \A s \in Slots : msgqueue'[s].pMsg = msgqueue[s].pMsg
  PROVE  /\ Ring' /\ getOccupancy' = getOccupancy
         /\ \A k \in Slots : Offset(k)' = Offset(k)
         /\ Oldest'.pMsg = Oldest.pMsg
  <1>1. /\ dequeue_next \in Slots /\ getOccupancy' = getOccupancy
        /\ \A k : Offset(k)' = Offset(k)
    BY DEF Ring, getOccupancy, Offset
  <1>2. \A k \in Slots : Offset(k) \in Slots
    <2> TAKE k \in Slots
    <2>1. k \in 0 .. MESSAGE_QUEUE_SIZE
      BY SizeType DEF Slots
    <2> QED BY <1>1, <2>1, OffsetValue
  <1>3. \A k \in Slots : msgqueue'[Offset(k)'].pMsg # NoMsg <=> k < getOccupancy'
    BY <1>1, <1>2, RingOperators DEF Ring
  <1>4. RingIsContiguous'
    BY <1>3, RingOperatorsNext
  <1> QED BY <1>1, <1>4 DEF Ring, Oldest

-----------------------------------------------------------------------------
(***************************************************************************)
(* Sequences: the handlers still to return, and the tasks that wait.       *)
(***************************************************************************)

In(s, u) == \E k \in DOMAIN s : s[k] = u

Single(s, u) == \A j, k \in DOMAIN s : s[j] = u /\ s[k] = u => j = k

LEMMA TailIn ==
  ASSUME NEW S, NEW s \in Seq(S), s # << >>
  PROVE  /\ In(s, Head(s))
         /\ \A u : In(Tail(s), u) => In(s, u)
         /\ \A u : In(s, u) /\ u # Head(s) => In(Tail(s), u)
         /\ \A u : Single(s, u) => Single(Tail(s), u)
         /\ Single(s, Head(s)) => ~In(Tail(s), Head(s))
  <1> DEFINE t == Tail(s)
             h == Head(s)
  <1>1. /\ Len(s) \in Nat \ {0} /\ DOMAIN s = 1 .. Len(s) /\ DOMAIN t = 1 .. Len(s) - 1
        /\ \A k \in DOMAIN t : t[k] = s[k + 1]
        /\ h = s[1]
    OBVIOUS
  <1> HIDE DEF t, h
  <1>2. \A k \in DOMAIN t : k + 1 \in DOMAIN s /\ k + 1 # 1
    BY <1>1
  <1>3. \A k \in DOMAIN s : k # 1 => k - 1 \in DOMAIN t /\ t[k - 1] = s[k]
    BY <1>1
  <1>4. 1 \in DOMAIN s
    BY <1>1
  <1>5. \A j, k \in DOMAIN t : j + 1 = k + 1 => j = k
    BY <1>1
  <1>6. In(s, h)
    BY <1>1, <1>4 DEF In
  <1>7. \A u : In(t, u) => In(s, u)
    BY <1>1, <1>2 DEF In
  <1>8. \A u : In(s, u) /\ u # h => In(t, u)
    BY <1>1, <1>3 DEF In
  <1>9. \A u : Single(s, u) => Single(t, u)
    BY <1>1, <1>2, <1>5 DEF Single
  <1>10. Single(s, h) => ~In(t, h)
    BY <1>1, <1>2, <1>4 DEF Single, In
  <1> QED BY <1>6, <1>7, <1>8, <1>9, <1>10 DEF t, h

LEMMA InEmpty == \A u : ~In(<< >>, u) /\ Single(<< >>, u)
  BY DEF In, Single

LEMMA TwoMoreIn ==
  ASSUME NEW S, NEW a \in S, NEW b \in S, NEW t \in Seq(S), a # b
  PROVE  /\ <<a, b>> \o t \in Seq(S) /\ <<a, b>> \o t # << >>
         /\ Head(<<a, b>> \o t) = a
         /\ \A u : In(<<a, b>> \o t, u) <=> u = a \/ u = b \/ In(t, u)
         /\ \A u : (u \in {a, b} => ~In(t, u)) /\ Single(t, u) => Single(<<a, b>> \o t, u)
  <1> DEFINE s == <<a, b>> \o t
  <1>1. /\ s \in Seq(S) /\ Len(t) \in Nat /\ Len(s) = Len(t) + 2
        /\ DOMAIN s = 1 .. Len(t) + 2 /\ DOMAIN t = 1 .. Len(t)
        /\ s[1] = a /\ s[2] = b
        /\ \A k \in DOMAIN t : s[k + 2] = t[k]
    OBVIOUS
  <1>2. s # << >> /\ Head(s) = a
    BY <1>1
  <1> HIDE DEF s
  <1>3. \A k \in DOMAIN s : k # 1 /\ k # 2 => k - 2 \in DOMAIN t /\ t[k - 2] = s[k]
    BY <1>1
  <1>4. /\ \A k \in DOMAIN t : k + 2 \in DOMAIN s
        /\ 1 \in DOMAIN s /\ 2 \in DOMAIN s
    BY <1>1
  <1>5. \A j, k \in DOMAIN s : j - 2 = k - 2 => j = k
    <2>1. DOMAIN s \subseteq Int
      BY <1>1
    <2>2. \A j, k \in Int : j - 2 = k - 2 => j = k
      OBVIOUS
    <2> QED BY ONLY <2>1, <2>2
  <1>6. \A u : In(s, u) <=> u = a \/ u = b \/ In(t, u)
    <2>1. \A k \in DOMAIN t : \E i \in DOMAIN s : s[i] = t[k]
      BY <1>1, <1>4
    <2>2. \A k \in DOMAIN s : s[k] = a \/ s[k] = b \/ \E i \in DOMAIN t : t[i] = s[k]
      BY <1>1, <1>3
    <2>3. In(s, a) /\ In(s, b)
      BY <1>1, <1>4 DEF In
    <2> QED BY ONLY <2>1, <2>2, <2>3 DEF In
  <1>7. \A u : (u \in {a, b} => ~In(t, u)) /\ Single(t, u) => Single(s, u)
    <2> TAKE u
    <2> HAVE (u \in {a, b} => ~In(t, u)) /\ Single(t, u)
    <2> SUFFICES ASSUME NEW j \in DOMAIN s, NEW k \in DOMAIN s, s[j] = u, s[k] = u
                 PROVE  j = k
      BY DEF Single
    <2>1. CASE u \in {a, b}
      <3>1. j \in {1, 2} /\ k \in {1, 2}
        BY <1>3, <2>1 DEF In
      <3> QED BY <1>1, <3>1
    <2>2. CASE u \notin {a, b}
      <3>1. j \notin {1, 2} /\ k \notin {1, 2}
        BY <1>1, <2>2
      <3>2. j - 2 = k - 2
        BY <1>3, <3>1 DEF Single
      <3> QED BY <1>5, <3>2
    <2> QED BY <2>1, <2>2
  <1> QED BY <1>1, <1>2, <1>6, <1>7 DEF s

-----------------------------------------------------------------------------
(***************************************************************************)
(* The invariant of the ring.                                              *)
(***************************************************************************)

Signalled == In(calls, "dequeue")

\* Which handlers may be under way together, and in which tasks.
Shape ==
  /\ Single(calls, "queue") /\ Single(calls, "dequeue")
  /\ Signalled => ~In(calls, "queue") /\ Oldest.pMsg # NoMsg
  /\ In(calls, "queue") => report.msg # NoMsg
  /\ In(calls, "service") => calls = <<"service">> /\ report = NoReport
  /\ calls # << >> => running \notin {"none", "boot", "App"}

\* A message is transmitted at most MAX_RETRANSMIT_COUNT times again.
Counts ==
  \A s \in Slots :
    msgqueue[s].pMsg # NoMsg /\ ~(s = dequeue_next /\ Signalled)
      => msgqueue[s].xmit_count <= MAX_RETRANSMIT_COUNT

QInv == AMTypeOK /\ Base /\ Ring /\ Shape /\ Counts /\ fQueueIdle \in BOOLEAN

LEMMA BaseFromTypes == AMTypeOK /\ Busy => Base
  BY DEF AMTypeOK, Base, Types, Sched!TypeOK

LEMMA BaseFromTypesNext == AMTypeOK' /\ Busy' => Base'
  BY DEF AMTypeOK, Base, Types, Sched!TypeOK

LEMMA QInit == QueueInit => QInv
  <1> SUFFICES ASSUME QueueInit PROVE QInv
    OBVIOUS
  <1>1. AMTypeOK /\ Base
    BY AMTypeInit, IInit DEF QueueInit, IInv
  <1>2. 0 \in Slots /\ enqueue_next = 0 /\ dequeue_next = 0
    BY SizeType DEF QueueInit, Slots
  <1>3. getOccupancy = 0
    BY <1>2, OccupancyValue, SizeType
  <1>4. \A k \in Slots : Offset(k) \in Slots
    <2> TAKE k \in Slots
    <2>1. k \in 0 .. MESSAGE_QUEUE_SIZE
      BY SizeType DEF Slots
    <2> QED BY <1>2, <2>1, OffsetValue
  <1>5. \A s \in Slots : msgqueue[s] = [pMsg |-> NoMsg, xmit_count |-> 0]
    BY DEF QueueInit
  <1>6. RingIsContiguous
    BY <1>3, <1>4, <1>5, RingOperators, SizeType DEF Slots
  <1>7. msgqueue \in [Slots -> [pMsg : Msgs \union {NoMsg}, xmit_count : 0 .. MAX_RETRANSMIT_COUNT + 1]]
    <2>1. 0 \in 0 .. MAX_RETRANSMIT_COUNT + 1
      BY QueueAssumption
    <2> QED BY <2>1 DEF QueueInit
  <1>8. calls = << >>
    BY DEF QueueInit, Init
  <1>9. Shape
    BY <1>8, InEmpty DEF Shape, Signalled
  <1>10. Counts
    BY <1>5 DEF Counts
  <1>11. fQueueIdle \in BOOLEAN
    BY DEF QueueInit
  <1> QED BY <1>1, <1>2, <1>6, <1>7, <1>9, <1>10, <1>11 DEF QInv, Ring

\* A handler returns.
LEMMA ReturnStep ==
  ASSUME QInv, calls # << >>, HandlerReturns, running' = running,
         Head(calls) # "dequeue" => Oldest'.pMsg = Oldest.pMsg
  PROVE  /\ Shape' /\ CallsType'
         /\ Signalled' <=> Signalled /\ Head(calls) # "dequeue"
  <1>1. CallsType /\ calls \in Seq(Callees)
    BY TypeSplit DEF QInv, CallsType
  <1>2. calls' = Tail(calls) /\ report' = IF Len(calls) = 1 THEN NoReport ELSE report
    BY DEF HandlerReturns
  <1>3. CallsType'
    BY <1>1, HandlerReturnsType
  <1>4. /\ \A u : In(calls', u) => In(calls, u)
        /\ \A u : In(calls, u) /\ u # Head(calls) => In(calls', u)
        /\ \A u : Single(calls, u) => Single(calls', u)
        /\ Single(calls, Head(calls)) => ~In(calls', Head(calls))
    BY <1>1, <1>2, TailIn
  <1>5. Signalled' <=> Signalled /\ Head(calls) # "dequeue"
    BY <1>4 DEF QInv, Shape, Signalled
  <1>6. Len(calls) = 1 => calls' = << >>
    BY <1>1, <1>2
  <1>7. In(calls', "queue") => report' = report
    BY <1>2, <1>6, InEmpty
  <1>8. calls = <<"service">> => calls' = << >>
    BY <1>2
  <1>9. Shape'
    BY <1>4, <1>5, <1>7, <1>8, InEmpty DEF QInv, Shape, Signalled
  <1> QED BY <1>3, <1>5, <1>9

\* A sendDone event begins: its message is one, and no handler is under way.
LEMMA ReportStep ==
  ASSUME QInv, Sched!Dispatch, running' \notin {"none", "boot", "App"},
         NEW m \in Msgs, NEW success \in BOOLEAN, NEW ack \in BOOLEAN,
         ReportSendDone(m, success, ack)
  PROVE  Shape' /\ ~Signalled /\ ~Signalled'
  <1>1. calls = << >>
    BY DEF QInv, Shape, Sched!Dispatch
  <1>2. calls' = Handlers /\ report'.msg = m
    BY DEF ReportSendDone
  <1>3. \A u : In(calls', u) => u \in {"client", "queue"}
    BY <1>2, AMAssumption DEF In
  <1>4. Single(calls', "queue")
    BY <1>2, QueueAssumption DEF Single
  <1>5. Single(calls', "dequeue") /\ ~In(calls', "service") /\ ~Signalled'
    BY <1>3 DEF In, Single, Signalled
  <1>6. m # NoMsg
    BY AMAssumption
  <1> QED BY <1>1, <1>2, <1>4, <1>5, <1>6, InEmpty DEF Shape, Signalled

LEMMA AMStepShape ==
  ASSUME QInv, [AMNext]_amVars, UNCHANGED queueVars
  PROVE  Shape' /\ (Signalled' <=> Signalled)
  <1>0. Oldest'.pMsg = Oldest.pMsg
    BY DEF queueVars, Oldest
  <1>1. ASSUME UNCHANGED <<calls, report>>, calls = << >> \/ running' = running
        PROVE  Shape' /\ (Signalled' <=> Signalled)
    BY <1>0, <1>1 DEF QInv, Shape, Signalled, In, Single
  <1>2. CASE \E m \in Msgs : ClientSends(m)
    <2>1. UNCHANGED <<calls, report, running>>
      BY <1>2 DEF ClientSends, Send, tasks, Sched!TaskPosts
    <2> QED BY <1>1, <2>1
  <1>3. CASE sendTask
    <2>1. Sched!Dispatch /\ running' = "sendTask"
      BY <1>3 DEF sendTask
    <2>2. CASE UNCHANGED <<calls, report>>
      BY <1>1, <2>1, <2>2 DEF QInv, Shape, Sched!Dispatch
    <2>3. CASE ReportSendDone(buffer, FALSE, FALSE)
      <3>1. Waits("sendTask")
        BY <2>1, DispatchStep DEF QInv, Base, Types
      <3>2. buffer \in Msgs
        BY <3>1 DEF QInv, Base, Busy
      <3> QED BY <2>1, <2>3, <3>2, ReportStep
    <2> QED BY <1>3, <2>2, <2>3 DEF sendTask
  <1>4. CASE \E c \in Channels : ChannelDone(c)
    <2>1. PICK c \in Channels : ChannelDone(c)
      BY <1>4
    <2>2. Sched!Dispatch /\ running' = c /\ c \notin {"none", "boot", "App"}
      BY <2>1 DEF ChannelDone, Channels
    <2>3. PICK success \in BOOLEAN, ack \in BOOLEAN : ReportSendDone(air[c], success, ack)
      BY <2>1 DEF ChannelDone
    <2>4. Waits(c)
      BY <2>2, DispatchStep DEF QInv, Base, Types
    <2>5. air[c] \in Msgs
      BY <2>4 DEF QInv, Base, Busy, Types
    <2> QED BY <2>2, <2>3, <2>5, ReportStep
  <1>5. CASE ClientHandlerReturns
    <2>1. calls # << >> /\ Head(calls) = "client" /\ HandlerReturns /\ running' = running
      BY <1>5 DEF ClientHandlerReturns, tasks
    <2> QED BY <1>0, <2>1, ReturnStep
  <1>6. CASE \/ TaskReturns \/ RunApp \/ AppInterrupt \/ Sleep \/ PowerCycle \/ UNCHANGED amVars
             \/ \E c \in Channels : ChannelInterrupt(c)
    <2>1. UNCHANGED <<calls, report>>
      BY <1>6 DEF TaskReturns, RunApp, AppInterrupt, Sleep, PowerCycle, ChannelInterrupt, amVars
    <2>2. calls = << >> \/ running' = running
      BY <1>6 DEF TaskReturns, RunApp, AppInterrupt, Sleep, PowerCycle, ChannelInterrupt, amVars,
                  tasks, Sched!Dispatch, Sched!InterruptPosts, Sched!Sleep, QInv, Shape
    <2> QED BY <1>1, <2>1, <2>2
  <1> QED BY <1>2, <1>3, <1>4, <1>5, <1>6 DEF AMNext

-----------------------------------------------------------------------------
(***************************************************************************)
(* The sequence of the messages in the ring.                               *)
(***************************************************************************)

LEMMA WaitingValue ==
  ASSUME Ring
  PROVE  /\ Waiting = [k \in 1 .. getOccupancy |-> msgqueue[Offset(k - 1)].pMsg]
         /\ Waiting \in Seq(Msgs \union {NoMsg}) /\ Len(Waiting) = getOccupancy
         /\ getOccupancy \in Nat
         /\ \A k \in 1 .. getOccupancy : k - 1 \in Slots /\ Offset(k - 1) \in Slots
  <1>1. /\ dequeue_next \in Slots /\ getOccupancy \in Slots /\ getOccupancy \in Nat
        /\ dequeue_next \in Int
    BY OccupancyValue, SizeType DEF Ring, Slots
  <1>2. \A k \in 1 .. getOccupancy : dequeue_next + k - 1 = dequeue_next + (k - 1)
    BY <1>1
  <1>3. \A k \in 1 .. getOccupancy : k - 1 \in Slots /\ k - 1 \in 0 .. MESSAGE_QUEUE_SIZE
    BY <1>1, SizeType DEF Slots
  <1>4. \A k \in 1 .. getOccupancy : Offset(k - 1) \in Slots
    BY <1>1, <1>3, OffsetValue
  <1>5. Waiting = [k \in 1 .. getOccupancy |-> msgqueue[Offset(k - 1)].pMsg]
    BY <1>2 DEF Waiting, Offset, Mod
  <1>6. \A k \in 1 .. getOccupancy : msgqueue[Offset(k - 1)].pMsg \in Msgs \union {NoMsg}
    BY <1>4 DEF Ring
  <1> QED BY <1>1, <1>3, <1>4, <1>5, <1>6

LEMMA WaitingValueNext ==
  ASSUME Ring'
  PROVE  /\ Waiting' = [k \in 1 .. getOccupancy' |-> msgqueue'[Offset(k - 1)'].pMsg]
         /\ Waiting' \in Seq(Msgs \union {NoMsg}) /\ Len(Waiting') = getOccupancy'
  <1>1. /\ dequeue_next' \in Slots /\ enqueue_next' \in Slots
    BY DEF Ring
  <1>2. getOccupancy' \in Slots /\ getOccupancy' \in Nat /\ dequeue_next' \in Int
    BY <1>1, OccupancyIsDistance, RingOperatorsNext, SizeType DEF Slots
  <1>3. \A k \in 1 .. getOccupancy' : dequeue_next' + k - 1 = dequeue_next' + (k - 1)
    BY <1>2
  <1>4. \A k \in 1 .. getOccupancy' : k - 1 \in 0 .. MESSAGE_QUEUE_SIZE
    BY <1>2, SizeType DEF Slots
  <1>5. \A k \in 1 .. getOccupancy' : Offset(k - 1)' \in Slots
    BY <1>1, <1>4, ModOfSum DEF Offset
  <1>6. Waiting' = [k \in 1 .. getOccupancy' |-> msgqueue'[Offset(k - 1)'].pMsg]
    BY <1>3 DEF Waiting, Offset, Mod
  <1>7. \A k \in 1 .. getOccupancy' : msgqueue'[Offset(k - 1)'].pMsg \in Msgs \union {NoMsg}
    BY <1>5 DEF Ring
  <1> QED BY <1>2, <1>6, <1>7

\* Append and Tail, written as functions.
LEMMA AppendValue ==
  ASSUME NEW S, NEW s \in Seq(S), NEW t \in S
  PROVE  Append(s, t) = [k \in 1 .. Len(s) + 1 |-> IF k = Len(s) + 1 THEN t ELSE s[k]]
  <1> DEFINE a == Append(s, t)
  <1>1. /\ a \in Seq(S) /\ Len(a) = Len(s) + 1
        /\ \A i \in 1 .. Len(s) : a[i] = s[i]
        /\ a[Len(s) + 1] = t
    BY AppendProperties
  <1> HIDE DEF a
  <1>2. a = [k \in 1 .. Len(s) + 1 |-> a[k]]
    BY <1>1, LenProperties
  <1>3. \A k \in 1 .. Len(s) + 1 : a[k] = IF k = Len(s) + 1 THEN t ELSE s[k]
    BY <1>1, LenProperties
  <1> QED BY <1>2, <1>3 DEF a

LEMMA TailValue ==
  ASSUME NEW S, NEW s \in Seq(S), s # << >>
  PROVE  Tail(s) = [k \in 1 .. Len(s) - 1 |-> s[k + 1]]
  <1> DEFINE r == Tail(s)
  <1>1. /\ r \in Seq(S) /\ Len(r) = Len(s) - 1
        /\ \A i \in 1 .. Len(r) : r[i] = s[i + 1]
    BY HeadTailProperties
  <1> HIDE DEF r
  <1>2. r = [k \in 1 .. Len(s) - 1 |-> r[k]]
    BY <1>1, LenProperties
  <1> QED BY <1>1, <1>2 DEF r

\* The message enqueued is the last to wait.
LEMMA WaitingAppended ==
  ASSUME Ring, NEW m \in Msgs, After(enqueue_next) # dequeue_next,
         msgqueue' = [msgqueue EXCEPT ![enqueue_next] = [pMsg |-> m, xmit_count |-> 0]],
         enqueue_next' = After(enqueue_next),
         dequeue_next' = dequeue_next
  PROVE  Len(Waiting) < MESSAGE_QUEUE_SIZE - 1 /\ Waiting' = Append(Waiting, m)
  <1> DEFINE c == getOccupancy
  <1>1. /\ Ring' /\ c < MESSAGE_QUEUE_SIZE - 1 /\ getOccupancy' = c + 1
        /\ \A k \in Slots : Offset(k)' = Offset(k)
        /\ \A k \in Slots : k # c => msgqueue'[Offset(k)] = msgqueue[Offset(k)]
        /\ msgqueue'[Offset(c)] = [pMsg |-> m, xmit_count |-> 0]
    BY EnqueueStep
  <1>2. /\ c \in Nat /\ Len(Waiting) = c /\ Waiting \in Seq(Msgs \union {NoMsg})
        /\ Waiting = [k \in 1 .. c |-> msgqueue[Offset(k - 1)].pMsg]
    BY WaitingValue
  <1>3. Waiting' = [k \in 1 .. c + 1 |-> msgqueue'[Offset(k - 1)'].pMsg]
    BY <1>1, WaitingValueNext
  <1> HIDE DEF c
  <1>4. ASSUME NEW k \in 1 .. c + 1
        PROVE  msgqueue'[Offset(k - 1)'].pMsg = IF k = c + 1 THEN m ELSE Waiting[k]
    <2>1. k - 1 \in Slots
      BY <1>1, <1>2, SizeType DEF Slots
    <2>2. CASE k = c + 1
      <3>1. k - 1 = c
        BY <1>2, <2>2
      <3>2. msgqueue'[Offset(k - 1)'] = [pMsg |-> m, xmit_count |-> 0]
        BY <1>1, <2>1, <3>1
      <3> QED BY <2>2, <3>2
    <2>3. CASE k # c + 1
      <3>1. k - 1 # c /\ k \in 1 .. c
        BY <1>2, <2>3
      <3>2. msgqueue'[Offset(k - 1)'] = msgqueue[Offset(k - 1)]
        BY <1>1, <2>1, <3>1
      <3>3. Waiting[k] = msgqueue[Offset(k - 1)].pMsg
        BY <1>2, <3>1
      <3> QED BY <2>3, <3>2, <3>3
    <2> QED BY <2>2, <2>3
  <1>5. Append(Waiting, m) = [k \in 1 .. c + 1 |-> IF k = c + 1 THEN m ELSE Waiting[k]]
    BY <1>2, AppendValue
  <1> QED BY <1>1, <1>2, <1>3, <1>4, <1>5

\* The message dequeued was the first to wait.
LEMMA WaitingShortened ==
  ASSUME Ring, Oldest.pMsg # NoMsg,
         msgqueue' = [msgqueue EXCEPT ![dequeue_next].pMsg = NoMsg],
         dequeue_next' = After(dequeue_next),
         enqueue_next' = enqueue_next
  PROVE  Waiting' = Tail(Waiting)
  <1> DEFINE c == getOccupancy
  <1>1. /\ Ring' /\ c > 0 /\ getOccupancy' = c - 1
        /\ \A k \in Slots : k + 1 \in Slots => Offset(k)' = Offset(k + 1)
        /\ \A s \in Slots : s # dequeue_next => msgqueue'[s] = msgqueue[s]
    BY DequeueStep
  <1>2. /\ c \in Nat /\ c \in Slots /\ Len(Waiting) = c /\ Waiting \in Seq(Msgs \union {NoMsg})
        /\ Waiting = [k \in 1 .. c |-> msgqueue[Offset(k - 1)].pMsg]
        /\ \A k \in 1 .. c : Offset(k - 1) \in Slots
    BY WaitingValue, OccupancyValue DEF Ring
  <1>3. Waiting' = [k \in 1 .. c - 1 |-> msgqueue'[Offset(k - 1)'].pMsg]
    BY <1>1, WaitingValueNext
  <1> HIDE DEF c
  <1>4. ASSUME NEW k \in 1 .. c - 1
        PROVE  msgqueue'[Offset(k - 1)'].pMsg = Waiting[k + 1]
    <2>1. /\ k \in Slots /\ k - 1 \in Slots /\ (k - 1) + 1 = k /\ (k + 1) - 1 = k /\ k # 0
          /\ k + 1 \in 1 .. c
      BY <1>2, SizeType DEF Slots
    <2>2. Offset(k - 1)' = Offset(k)
      BY <1>1, <2>1
    <2>3. Offset(k) \in Slots
      BY <1>2, <2>1
    <2>4. Offset(k) # dequeue_next
      <3>1. Offset(0) = dequeue_next /\ 0 \in Slots
        BY Ends DEF Ring
      <3> QED BY <2>1, <3>1, OffsetsDiffer DEF Ring
    <2>5. Waiting[k + 1] = msgqueue[Offset(k)].pMsg
      BY <1>2, <2>1
    <2> QED BY <1>1, <2>2, <2>3, <2>4, <2>5
  <1>5. Tail(Waiting) = [k \in 1 .. c - 1 |-> Waiting[k + 1]]
    <2>1. Waiting # << >>
      BY <1>1, <1>2
    <2> QED BY <1>2, <2>1, TailValue
  <1> QED BY <1>3, <1>4, <1>5

\* A step that changes at most transmission counts.
LEMMA WaitingSame ==
  ASSUME Ring, UNCHANGED <<enqueue_next, dequeue_next>>,
         \A s \in Slots : msgqueue'[s].pMsg = msgqueue[s].pMsg
  PROVE  Waiting' = Waiting
  <1>1. getOccupancy' = getOccupancy
    BY DEF getOccupancy
  <1>2. /\ Waiting = [k \in 1 .. getOccupancy |-> msgqueue[Offset(k - 1)].pMsg]
        /\ \A k \in 1 .. getOccupancy : Offset(k - 1) \in Slots
    BY WaitingValue
  <1>3. Waiting' = [k \in 1 .. getOccupancy |-> msgqueue'[Mod(dequeue_next + k - 1)].pMsg]
    BY <1>1 DEF Waiting, Mod
  <1>4. Waiting = [k \in 1 .. getOccupancy |-> msgqueue[Mod(dequeue_next + k - 1)].pMsg]
    BY DEF Waiting, Mod
  <1>5. \A k \in 1 .. getOccupancy : Mod(dequeue_next + k - 1) \in Slots
    <2>1. getOccupancy \in Nat /\ dequeue_next \in Int
      BY WaitingValue, SizeType DEF Ring, Slots
    <2>2. \A k \in 1 .. getOccupancy : dequeue_next + k - 1 = dequeue_next + (k - 1)
      BY <2>1
    <2> QED BY <1>2, <2>2 DEF Offset
  <1> QED BY <1>3, <1>4, <1>5

-----------------------------------------------------------------------------
(***************************************************************************)
(* The steps, and what they are for SendQueue.                             *)
(***************************************************************************)

LEMMA QParts ==
  ASSUME CallsType', Sched!TypeOK', Busy', Ring', Shape', Counts',
         state' \in BOOLEAN, restarted' \in BOOLEAN, fQueueIdle' \in BOOLEAN,
         buffer' \in Msgs \union {NoMsg},
         air' \in [Channels -> Msgs \union {NoMsg}],
         owner' \in [Msgs -> {"app", "am", "queue"}]
  PROVE  QInv'
  <1>1. AMTypeOK'
    BY TypeSplitNext
  <1> QED BY <1>1, BaseFromTypesNext DEF QInv

LEMMA QTypes ==
  ASSUME QInv
  PROVE  /\ CallsType /\ Sched!TypeOK /\ fifo \in Seq(TaskNames)
         /\ state \in BOOLEAN /\ restarted \in BOOLEAN /\ fQueueIdle \in BOOLEAN
         /\ buffer \in Msgs \union {NoMsg}
         /\ air \in [Channels -> Msgs \union {NoMsg}]
         /\ owner \in [Msgs -> {"app", "am", "queue"}]
         /\ Ring /\ Shape /\ Counts /\ Busy
  BY TypeSplit DEF QInv, Base, Sched!TypeOK

LEMMA ServiceName ==
  /\ "QueueServiceTask" \in TaskNames
  /\ "QueueServiceTask" \notin {"sendTask", "App"} \union Channels
  BY QueueAssumption DEF TaskNames, Channels

\* A step that at most posts QueueServiceTask.
LEMMA PostService ==
  ASSUME QInv, Sched!TaskPosts("QueueServiceTask") \/ UNCHANGED tasks,
         UNCHANGED <<state, buffer, air>>
  PROVE  Busy' /\ Sched!TypeOK' /\ running' = running
  <1>0. Sched!TypeOK /\ fifo \in Seq(TaskNames) /\ Busy
    BY QTypes
  <1>1. CASE Sched!TaskPosts("QueueServiceTask")
    <2>1. Sched!Enqueue("QueueServiceTask") /\ UNCHANGED <<running, asleep>>
      BY <1>1 DEF Sched!TaskPosts
    <2>2. Sched!TypeOK'
      BY <1>0, <2>1, EnqueueType, ServiceName DEF Sched!TypeOK
    <2>3. /\ \A u : u # "QueueServiceTask" => (Waits(u)' <=> Waits(u))
          /\ \A u : Once(u) /\ u # "QueueServiceTask" => Once(u)'
      BY <1>0, <2>1, PostStep, ServiceName
    <2> QED BY <1>0, <2>1, <2>2, <2>3, ServiceName DEF Busy
  <1>2. CASE UNCHANGED tasks
    BY <1>0, <1>2, SameQueue DEF tasks, Busy, Sched!TypeOK
  <1> QED BY <1>1, <1>2

\* The steps of SendQueue.
LEMMA AbstractStep ==
  ASSUME CallsType, CallsType'
  PROVE  /\ Waiting' = Waiting /\ (Signalled' <=> Signalled) => UNCHANGED Abstract!queueVars
         /\ \A m : /\ Len(Waiting) < MESSAGE_QUEUE_SIZE - 1
                   /\ Waiting' = Append(Waiting, m) /\ (Signalled' <=> Signalled)
                   => Abstract!Accept(m)
         /\ Waiting # << >> /\ Waiting' = Waiting /\ ~Signalled /\ Signalled'
              => Abstract!SignalSendDone
         /\ Waiting' = Tail(Waiting) /\ Signalled /\ ~Signalled' => Abstract!Remove
  <1> DEFINE D == "dequeue" \in {calls[k] : k \in 1 .. Len(calls)}
  <1>1. DOMAIN calls = 1 .. Len(calls) /\ DOMAIN calls' = 1 .. Len(calls')
    BY DEF CallsType
  <1>2. D \in BOOLEAN /\ D' \in BOOLEAN
    OBVIOUS
  <1>3. (D <=> Signalled) /\ (D' <=> Signalled')
    BY <1>1 DEF Signalled, In
  <1> HIDE DEF D
  <1>4. /\ (Signalled' <=> Signalled) => D' = D
        /\ Signalled' => D' = TRUE
        /\ ~Signalled' => D' = FALSE
    BY <1>2, <1>3
  <1>5. Waiting' = Waiting /\ (Signalled' <=> Signalled) => UNCHANGED Abstract!queueVars
    BY <1>4 DEF Abstract!queueVars, D
  <1>6. ASSUME NEW m, Len(Waiting) < MESSAGE_QUEUE_SIZE - 1,
               Waiting' = Append(Waiting, m), Signalled' <=> Signalled
        PROVE  Abstract!Accept(m)
    BY <1>4, <1>6 DEF Abstract!Accept, D
  <1>7. Waiting # << >> /\ Waiting' = Waiting /\ ~Signalled /\ Signalled'
          => Abstract!SignalSendDone
    BY <1>3, <1>4 DEF Abstract!SignalSendDone, D
  <1>8. Waiting' = Tail(Waiting) /\ Signalled /\ ~Signalled' => Abstract!Remove
    BY <1>3, <1>4 DEF Abstract!Remove, D
  <1> QED BY <1>5, <1>6, <1>7, <1>8

\* AMStandard and the program: the queue does not change.
LEMMA QueueAMStep ==
  ASSUME QInv, [AMNext]_amVars, UNCHANGED queueVars
  PROVE  QInv' /\ UNCHANGED Abstract!queueVars
  <1>1. AMTypeOK' /\ Base'
    BY AMTypeStep, BaseStep DEF QInv, Kept
  <1>2. CallsType' /\ CallsType /\ Ring /\ Counts
    BY <1>1, TypeSplitNext, QTypes
  <1>3. Shape' /\ (Signalled' <=> Signalled)
    BY AMStepShape
  <1>4. UNCHANGED <<msgqueue, enqueue_next, dequeue_next, fQueueIdle>>
    BY DEF queueVars
  <1>5. Waiting' = Waiting
    BY <1>2, <1>4, WaitingSame
  <1>6. Ring'
    BY <1>2, <1>4, SameRing DEF Ring
  <1>7. Counts'
    BY <1>2, <1>3, <1>4 DEF Counts
  <1>8. fQueueIdle' \in BOOLEAN
    BY <1>4 DEF QInv
  <1> QED BY <1>1, <1>2, <1>3, <1>5, <1>6, <1>7, <1>8, AbstractStep DEF QInv

LEMMA QueueSendStep ==
  ASSUME QInv, NEW m \in Msgs, QueueSend(m)
  PROVE  QInv' /\ Abstract!Accept(m)
  <1>0. CallsType /\ Ring /\ Shape /\ Counts
    BY QTypes
  <1>1. /\ UNCHANGED <<state, buffer, air, report, calls, dequeue_next, restarted>>
        /\ fQueueIdle' = FALSE
        /\ After(enqueue_next) # dequeue_next
        /\ msgqueue' = [msgqueue EXCEPT ![enqueue_next] = [pMsg |-> m, xmit_count |-> 0]]
        /\ enqueue_next' = After(enqueue_next)
        /\ owner' = [owner EXCEPT ![m] = "queue"]
        /\ Sched!TaskPosts("QueueServiceTask") \/ UNCHANGED tasks
    BY DEF QueueSend
  <1>2. Busy' /\ Sched!TypeOK' /\ running' = running
    BY <1>1, PostService
  <1>3. Ring' /\ Len(Waiting) < MESSAGE_QUEUE_SIZE - 1 /\ Waiting' = Append(Waiting, m)
    BY <1>0, <1>1, EnqueueStep, WaitingAppended
  <1>4. CallsType' /\ (Signalled' <=> Signalled)
    BY <1>0, <1>1 DEF CallsType, Signalled
  <1>5. enqueue_next \in Slots /\ dequeue_next \in Slots
    BY <1>0 DEF Ring
  <1>6. \A s \in Slots : msgqueue'[s] = IF s = enqueue_next THEN [pMsg |-> m, xmit_count |-> 0]
                                                           ELSE msgqueue[s]
    BY <1>0, <1>1, <1>5 DEF Ring
  <1>7. Shape'
    <2>1. Oldest.pMsg # NoMsg => Oldest'.pMsg # NoMsg
      BY <1>1, <1>5, <1>6, AMAssumption DEF Oldest
    <2> QED BY <1>0, <1>1, <1>2, <1>4, <2>1 DEF Shape, Signalled
  <1>8. Counts'
    <2>1. 0 <= MAX_RETRANSMIT_COUNT
      BY QueueAssumption
    <2> QED BY <1>0, <1>1, <1>4, <1>6, <2>1 DEF Counts
  <1>9. QInv'
    BY <1>1, <1>2, <1>3, <1>4, <1>7, <1>8, QParts, QTypes
  <1> QED BY <1>0, <1>3, <1>4, <1>9, AbstractStep

LEMMA RunQueueServiceStep ==
  ASSUME QInv, RunQueueService
  PROVE  QInv' /\ UNCHANGED Abstract!queueVars
  <1>0. CallsType /\ Ring /\ Shape /\ Counts /\ Busy /\ Sched!TypeOK /\ fifo \in Seq(TaskNames)
    BY QTypes
  <1>1. /\ Sched!Dispatch /\ running' = "QueueServiceTask" /\ calls' = <<"service">>
        /\ UNCHANGED <<state, buffer, air, report, owner, restarted>>
        /\ UNCHANGED <<msgqueue, enqueue_next, dequeue_next, fQueueIdle>>
    BY DEF RunQueueService, queueVars
  <1>2. calls = << >> /\ report = NoReport
    BY <1>0, <1>1 DEF Shape, CallsType, Sched!Dispatch
  <1>3. Sched!TypeOK'
    BY <1>0, <1>1, DispatchType
  <1>4. Busy'
    <2>1. /\ \A u : Waits(u)' => Waits(u)
          /\ \A u : Waits(u) /\ u # "QueueServiceTask" => Waits(u)'
          /\ \A u : Once(u) => Once(u)'
      BY <1>0, <1>1, DispatchStep
    <2> QED BY <1>0, <1>1, <2>1, ServiceName DEF Busy
  <1>5. CallsType'
    BY <1>0, <1>1 DEF CallsType, Callees
  <1>6. \A u : In(calls', u) => u = "service"
    BY <1>1 DEF In
  <1>7. ~Signalled /\ ~Signalled'
    BY <1>2, <1>6, InEmpty DEF Signalled
  <1>8. Shape'
    BY <1>1, <1>2, <1>6, <1>7 DEF Shape, Single, In, Signalled
  <1>9. Ring' /\ Waiting' = Waiting
    BY <1>0, <1>1, SameRing, WaitingSame DEF Ring
  <1>10. Counts'
    BY <1>0, <1>1, <1>7 DEF Counts
  <1>11. QInv'
    BY <1>1, <1>3, <1>4, <1>5, <1>8, <1>9, <1>10, QParts, QTypes
  <1> QED BY <1>0, <1>5, <1>7, <1>9, <1>11, AbstractStep

\* QueueServiceTask offers the oldest message, and calls nothing else.
LEMMA ServiceStep ==
  ASSUME QInv, Service
  PROVE  QInv' /\ UNCHANGED Abstract!queueVars
  <1>0. /\ CallsType /\ Ring /\ Shape /\ Counts /\ Busy /\ Sched!TypeOK /\ fifo \in Seq(TaskNames)
        /\ state \in BOOLEAN /\ buffer \in Msgs \union {NoMsg}
    BY QTypes
  <1>1. /\ calls # << >> /\ Head(calls) = "service" /\ calls' = Tail(calls)
        /\ UNCHANGED <<air, report, owner, msgqueue, enqueue_next, dequeue_next, restarted>>
    BY DEF Service
  <1>2. calls = <<"service">> /\ report = NoReport
    BY <1>0, <1>1, TailIn DEF CallsType, Shape
  <1>3. calls' = << >>
    BY <1>1, <1>2
  <1>4. ~Signalled /\ ~Signalled'
    BY <1>2, <1>3, InEmpty DEF Signalled, In
  <1>5. CallsType'
    BY <1>0, <1>1, <1>2, <1>3 DEF CallsType, Callees
  <1>6. Shape'
    BY <1>3, <1>4, InEmpty DEF Shape, Signalled
  <1>7. Ring' /\ Waiting' = Waiting
    BY <1>0, <1>1, SameRing, WaitingSame DEF Ring
  <1>8. Counts'
    BY <1>0, <1>1, <1>4 DEF Counts
  <1>9. CASE Oldest.pMsg # NoMsg /\ CanSend /\ Send(Oldest.pMsg) /\ UNCHANGED fQueueIdle
    <2>1. /\ ~state /\ Sched!HasRoom /\ state' = TRUE /\ buffer' = Oldest.pMsg
          /\ Sched!Enqueue("sendTask") /\ UNCHANGED <<running, asleep>>
      BY <1>9 DEF CanSend, Send, Sched!TaskPosts
    <2>2. Oldest.pMsg \in Msgs
      BY <1>0, <1>9 DEF Ring, Oldest
    <2>3. Sched!TypeOK'
      BY <1>0, <2>1, EnqueueType, Names DEF Sched!TypeOK
    <2>4. /\ \A u : Waits(u)' <=> Waits(u) \/ u = "sendTask"
          /\ \A u : Once(u) /\ u # "sendTask" => Once(u)'
      BY <1>0, <2>1, PostStep, Names
    <2>5. Busy'
      BY <1>0, <1>1, <2>1, <2>2, <2>4, Names DEF Busy
    <2>6. QInv'
      BY <1>1, <1>5, <1>6, <1>7, <1>8, <1>9, <2>1, <2>2, <2>3, <2>5, QParts, QTypes
    <2> QED BY <1>0, <1>4, <1>5, <1>7, <2>6, AbstractStep
  <1>10. CASE \/ /\ Sched!TaskPosts("QueueServiceTask")
                 /\ UNCHANGED <<state, buffer, fQueueIdle>>
              \/ fQueueIdle' = TRUE /\ UNCHANGED <<state, buffer, tasks>>
    <2>1. Busy' /\ Sched!TypeOK' /\ fQueueIdle' \in BOOLEAN
      BY <1>1, <1>10, PostService, QTypes
    <2>2. QInv'
      BY <1>1, <1>5, <1>6, <1>7, <1>8, <1>10, <2>1, QParts, QTypes
    <2> QED BY <1>0, <1>4, <1>5, <1>7, <2>2, AbstractStep
  <1> QED BY <1>9, <1>10 DEF Service

LEMMA IgnoreSendDoneStep ==
  ASSUME QInv, IgnoreSendDone
  PROVE  QInv' /\ UNCHANGED Abstract!queueVars
  <1>0. CallsType /\ Ring /\ Shape /\ Counts
    BY QTypes
  <1>1. /\ calls # << >> /\ Head(calls) = "queue" /\ HandlerReturns
        /\ UNCHANGED <<state, buffer, air, owner, tasks, restarted>>
        /\ UNCHANGED <<msgqueue, enqueue_next, dequeue_next, fQueueIdle>>
    BY DEF IgnoreSendDone, queueVars
  <1>2. Busy' /\ Sched!TypeOK' /\ running' = running
    BY <1>1, PostService
  <1>3. CallsType' /\ Shape' /\ (Signalled' <=> Signalled)
    BY <1>1, <1>2, ReturnStep DEF Oldest
  <1>4. Ring' /\ Waiting' = Waiting
    BY <1>0, <1>1, SameRing, WaitingSame DEF Ring
  <1>5. Counts'
    BY <1>0, <1>1, <1>3 DEF Counts
  <1>6. QInv'
    BY <1>1, <1>2, <1>3, <1>4, <1>5, QParts, QTypes
  <1> QED BY <1>0, <1>3, <1>4, <1>6, AbstractStep

\* A sendDone event for the oldest message.
LEMMA OldestReported ==
  ASSUME QInv, calls # << >>, Head(calls) = "queue", report.msg = Oldest.pMsg
  PROVE  /\ In(calls, "queue") /\ ~Signalled
         /\ Oldest.pMsg \in Msgs
         /\ Oldest.xmit_count \in 0 .. MAX_RETRANSMIT_COUNT
         /\ Transmissions \in 0 .. MAX_RETRANSMIT_COUNT + 1
         /\ ~Unacknowledged => Transmissions <= MAX_RETRANSMIT_COUNT
  <1>0. CallsType /\ Ring /\ Shape /\ Counts
    BY QTypes
  <1>1. In(calls, "queue")
    BY <1>0, TailIn DEF CallsType
  <1>2. ~Signalled /\ report.msg # NoMsg
    BY <1>0, <1>1 DEF Shape
  <1>3. dequeue_next \in Slots
    BY <1>0 DEF Ring
  <1>4. Oldest.pMsg \in Msgs /\ Oldest.xmit_count \in 0 .. MAX_RETRANSMIT_COUNT + 1
    BY <1>0, <1>2, <1>3 DEF Ring, Oldest
  <1>5. Oldest.xmit_count <= MAX_RETRANSMIT_COUNT
    BY <1>0, <1>2, <1>3 DEF Counts, Oldest
  <1>6. Oldest.xmit_count \in 0 .. MAX_RETRANSMIT_COUNT
    BY <1>4, <1>5, QueueAssumption
  <1> QED BY <1>1, <1>2, <1>4, <1>6, QueueAssumption DEF Transmissions

\* Counting a transmission leaves the ring as it is.
LEMMA CountStep ==
  ASSUME QInv, Transmissions \in 0 .. MAX_RETRANSMIT_COUNT + 1,
         msgqueue' = [msgqueue EXCEPT ![dequeue_next].xmit_count = Transmissions],
         UNCHANGED <<enqueue_next, dequeue_next>>
  PROVE  /\ Ring' /\ Waiting' = Waiting /\ Oldest'.pMsg = Oldest.pMsg
         /\ Oldest'.xmit_count = Transmissions
         /\ \A s \in Slots : /\ msgqueue'[s].pMsg = msgqueue[s].pMsg
                             /\ s # dequeue_next => msgqueue'[s] = msgqueue[s]
  <1>0. Ring /\ dequeue_next \in Slots
    BY QTypes DEF Ring
  <1>1. msgqueue' \in [Slots -> [pMsg : Msgs \union {NoMsg}, xmit_count : 0 .. MAX_RETRANSMIT_COUNT + 1]]
    BY <1>0 DEF Ring
  <1>2. \A s \in Slots : /\ msgqueue'[s].pMsg = msgqueue[s].pMsg
                         /\ s # dequeue_next => msgqueue'[s] = msgqueue[s]
    BY <1>0 DEF Ring
  <1>3. msgqueue'[dequeue_next].xmit_count = Transmissions
    BY <1>0 DEF Ring
  <1> QED BY <1>0, <1>1, <1>2, <1>3, SameRing, WaitingSame DEF Oldest

LEMMA RetransmitOldestStep ==
  ASSUME QInv, RetransmitOldest
  PROVE  QInv' /\ UNCHANGED Abstract!queueVars
  <1>0. CallsType /\ Ring /\ Shape /\ Counts
    BY QTypes
  <1>1. /\ calls # << >> /\ Head(calls) = "queue" /\ report.msg = Oldest.pMsg
        /\ Transmissions <= MAX_RETRANSMIT_COUNT
        /\ msgqueue' = [msgqueue EXCEPT ![dequeue_next].xmit_count = Transmissions]
        /\ Sched!TaskPosts("QueueServiceTask")
        /\ HandlerReturns
        /\ UNCHANGED <<state, buffer, air, owner, enqueue_next, dequeue_next, fQueueIdle, restarted>>
    BY DEF RetransmitOldest
  <1>2. Busy' /\ Sched!TypeOK' /\ running' = running
    BY <1>1, PostService
  <1>3. ~Signalled /\ Transmissions \in 0 .. MAX_RETRANSMIT_COUNT + 1
    BY <1>1, OldestReported
  <1>4. /\ Ring' /\ Waiting' = Waiting /\ Oldest'.pMsg = Oldest.pMsg
        /\ Oldest'.xmit_count = Transmissions
        /\ \A s \in Slots : /\ msgqueue'[s].pMsg = msgqueue[s].pMsg
                            /\ s # dequeue_next => msgqueue'[s] = msgqueue[s]
    BY <1>1, <1>3, CountStep
  <1>5. CallsType' /\ Shape' /\ (Signalled' <=> Signalled)
    BY <1>1, <1>2, <1>4, ReturnStep
  <1>6. Counts'
    BY <1>0, <1>1, <1>3, <1>4, <1>5 DEF Counts, Oldest
  <1>7. QInv'
    BY <1>1, <1>2, <1>4, <1>5, <1>6, QParts, QTypes
  <1> QED BY <1>0, <1>4, <1>5, <1>7, AbstractStep

LEMMA SignalSendDoneStep ==
  ASSUME QInv, SignalSendDone
  PROVE  QInv' /\ Abstract!SignalSendDone
  <1>0. CallsType /\ Ring /\ Shape /\ Counts /\ owner \in [Msgs -> {"app", "am", "queue"}]
    BY QTypes
  <1>1. /\ calls # << >> /\ Head(calls) = "queue" /\ report.msg = Oldest.pMsg
        /\ msgqueue' = [msgqueue EXCEPT ![dequeue_next].xmit_count = Transmissions]
        /\ owner' = [owner EXCEPT ![report.msg] = "app"]
        /\ calls' = <<"client", "dequeue">> \o Tail(calls)
        /\ UNCHANGED <<state, buffer, air, report, tasks, enqueue_next, dequeue_next, fQueueIdle, restarted>>
    BY DEF SignalSendDone
  <1>2. Busy' /\ Sched!TypeOK' /\ running' = running
    BY <1>1, PostService
  <1>3. /\ In(calls, "queue") /\ ~Signalled /\ Oldest.pMsg \in Msgs
        /\ Transmissions \in 0 .. MAX_RETRANSMIT_COUNT + 1
    BY <1>1, OldestReported
  <1>4. /\ Ring' /\ Waiting' = Waiting /\ Oldest'.pMsg = Oldest.pMsg
        /\ \A s \in Slots : /\ msgqueue'[s].pMsg = msgqueue[s].pMsg
                            /\ s # dequeue_next => msgqueue'[s] = msgqueue[s]
    BY <1>1, <1>3, CountStep
  <1> DEFINE t == Tail(calls)
  <1>5. t \in Seq(Callees) /\ "client" \in Callees /\ "dequeue" \in Callees
    BY <1>0, <1>1 DEF CallsType, Callees
  <1>6. /\ \A u : In(t, u) => In(calls, u)
        /\ Single(t, "queue") /\ Single(t, "dequeue") /\ ~In(t, "queue")
    BY <1>0, <1>1, TailIn DEF CallsType, Shape
  <1>7. ~In(t, "dequeue") /\ ~In(t, "service")
    <2>1. ~In(calls, "service")
      BY <1>0, <1>1 DEF Shape
    <2> QED BY <1>3, <1>6, <2>1 DEF Signalled
  <1> HIDE DEF t
  <1>8. calls' = <<"client", "dequeue">> \o t
    BY <1>1 DEF t
  <1>9. /\ calls' \in Seq(Callees) /\ calls' # << >>
        /\ \A u : In(calls', u) <=> u = "client" \/ u = "dequeue" \/ In(t, u)
        /\ \A u : (u \in {"client", "dequeue"} => ~In(t, u)) /\ Single(t, u) => Single(calls', u)
    BY <1>5, <1>8, TwoMoreIn
  <1>10. CallsType' /\ Signalled'
    BY <1>0, <1>1, <1>9 DEF CallsType, Signalled
  <1>11. Shape'
    <2>1. Single(calls', "queue") /\ Single(calls', "dequeue")
      BY <1>6, <1>7, <1>9
    <2>2. ~In(calls', "queue") /\ ~In(calls', "service")
      BY <1>6, <1>7, <1>9
    <2>3. Oldest'.pMsg # NoMsg
      BY <1>3, <1>4, AMAssumption
    <2>4. running' \notin {"none", "boot", "App"}
      BY <1>0, <1>1, <1>2 DEF Shape
    <2> QED BY <2>1, <2>2, <2>3, <2>4 DEF Shape, Signalled
  <1>12. Counts'
    BY <1>0, <1>1, <1>4, <1>10 DEF Counts
  <1>13. owner' \in [Msgs -> {"app", "am", "queue"}]
    BY <1>0, <1>1
  <1>14. QInv'
    BY <1>1, <1>2, <1>4, <1>10, <1>11, <1>12, <1>13, QParts, QTypes
  <1>15. Waiting # << >>
    <2>1. Oldest.pMsg # NoMsg
      BY <1>3, AMAssumption
    <2> QED BY <1>0, <2>1, OldestThere, WaitingValue
  <1> QED BY <1>0, <1>3, <1>4, <1>10, <1>14, <1>15, AbstractStep

LEMMA DequeueActionStep ==
  ASSUME QInv, Dequeue
  PROVE  QInv' /\ Abstract!Remove
  <1>0. CallsType /\ Ring /\ Shape /\ Counts
    BY QTypes
  <1>1. /\ calls # << >> /\ Head(calls) = "dequeue"
        /\ msgqueue' = [msgqueue EXCEPT ![dequeue_next].pMsg = NoMsg]
        /\ dequeue_next' = After(dequeue_next)
        /\ Sched!TaskPosts("QueueServiceTask")
        /\ HandlerReturns
        /\ UNCHANGED <<state, buffer, air, owner, enqueue_next, fQueueIdle, restarted>>
    BY DEF Dequeue
  <1>2. Busy' /\ Sched!TypeOK' /\ running' = running
    BY <1>1, PostService
  <1>3. CallsType' /\ Shape' /\ ~Signalled'
    BY <1>1, <1>2, ReturnStep
  <1>4. Signalled /\ Oldest.pMsg # NoMsg
    BY <1>0, <1>1, TailIn DEF CallsType, Shape, Signalled
  <1>5. /\ Ring' /\ Waiting' = Tail(Waiting)
        /\ \A s \in Slots : s # dequeue_next => msgqueue'[s] = msgqueue[s]
    BY <1>0, <1>1, <1>4, DequeueStep, WaitingShortened
  <1>6. msgqueue'[dequeue_next].pMsg = NoMsg
    BY <1>0, <1>1 DEF Ring
  <1>7. Counts'
    BY <1>0, <1>5, <1>6 DEF Counts
  <1>8. QInv'
    BY <1>1, <1>2, <1>3, <1>5, <1>7, QParts, QTypes
  <1> QED BY <1>0, <1>3, <1>4, <1>5, <1>8, AbstractStep

LEMMA QStep ==
  ASSUME QInv, [QueueNext]_vars
  PROVE  QInv' /\ [Abstract!Next]_(Abstract!queueVars)
  <1>1. CASE [AMNext]_amVars /\ UNCHANGED queueVars
    BY <1>1, QueueAMStep
  <1>2. ASSUME NEW m \in Msgs, QueueSend(m)
        PROVE  QInv' /\ Abstract!Next
    BY <1>2, QueueSendStep DEF Abstract!Next
  <1>3. CASE SignalSendDone
    BY <1>3, SignalSendDoneStep DEF Abstract!Next
  <1>4. CASE Dequeue
    BY <1>4, DequeueActionStep DEF Abstract!Next
  <1>5. CASE RunQueueService \/ Service \/ IgnoreSendDone \/ RetransmitOldest
    BY <1>5, RunQueueServiceStep, ServiceStep, IgnoreSendDoneStep, RetransmitOldestStep
  <1> QED BY <1>1, <1>2, <1>3, <1>4, <1>5 DEF QueueNext, vars

LEMMA QInductive == QueueSpec => []QInv
  BY QInit, QStep, PTL DEF QueueSpec

(***************************************************************************)
(* The slots of the ring with a message are those from dequeue_next on     *)
(* that getOccupancy counts, although it computes modulo 2^16, and though  *)
(* a client enqueues within the sendDone event, before the oldest message  *)
(* is removed (QueueSendMsg.send, sendDone, getOccupancy).                 *)
(***************************************************************************)
THEOREM RingCorrect == QueueSpec => []RingIsContiguous
  <1>1. QInv => RingIsContiguous
    BY DEF QInv, Ring
  <1> QED BY <1>1, QInductive, PTL

(***************************************************************************)
(* The queue keeps its types; xmit_count stays at most one above           *)
(* MAX_RETRANSMIT_COUNT, since the message that exceeds it is given up     *)
(* (SendMsg.sendDone).                                                     *)
(***************************************************************************)
THEOREM QueueTypeCorrect == QueueSpec => []QueueTypeOK
  <1>1. QInv => QueueTypeOK
    BY DEF QInv, Ring, QueueTypeOK
  <1> QED BY <1>1, QInductive, PTL

(***************************************************************************)
(* The ring, with its indices and NULL marks, implements the bounded queue *)
(* of SendQueue: messages get their sendDone event one at a time, once, in *)
(* the order of the sends, whatever the handlers, the other clients of     *)
(* AMStandard, the task queue and restarts do (QueuedSendM.nc).            *)
(***************************************************************************)
THEOREM QueueRefinement == QueueSpec => ImplementsSendQueue
  <1>1. QueueInit => Abstract!Init
    <2> SUFFICES ASSUME QueueInit PROVE Abstract!Init
      OBVIOUS
    <2>1. getOccupancy = 0
      <3>1. enqueue_next \in Slots /\ dequeue_next \in Slots /\ enqueue_next = dequeue_next
        BY SizeType DEF QueueInit, Slots
      <3> QED BY <3>1, OccupancyValue, SizeType DEF Slots
    <2>2. Waiting = << >>
      BY <2>1 DEF Waiting
    <2> DEFINE S == {calls[k] : k \in 1 .. Len(calls)}
    <2>3. S = {}
      BY DEF QueueInit, Init
    <2> HIDE DEF S
    <2>4. ("dequeue" \in S) = FALSE
      BY <2>3
    <2> QED BY <2>2, <2>4 DEF Abstract!Init, S
  <1>2. QInv /\ [QueueNext]_vars => [Abstract!Next]_(Abstract!queueVars)
    BY QStep
  <1> QED BY <1>1, <1>2, QInductive, PTL DEF QueueSpec, ImplementsSendQueue, Abstract!Spec

-----------------------------------------------------------------------------
(***************************************************************************)
(* What keeps the queue going.                                             *)
(***************************************************************************)

\* The program does not restart the layer, every post succeeds, and the
\* component hears of a sendDone event before the clients do.
Wired ==
  /\ ~PowerCycles
  /\ Capacity >= MaxApps + 2
  /\ Handlers[1] = "queue"

\* The slots whose message is still to be reported to its client.
Unsent(s) == msgqueue[s].pMsg # NoMsg /\ ~(s = dequeue_next /\ Signalled)

\* Those messages are the queue's, and no two slots have the same.
Owned ==
  /\ \A s \in Slots : Unsent(s) => owner[msgqueue[s].pMsg] = "queue"
  /\ \A r, s \in Slots :
       Unsent(r) /\ Unsent(s) /\ msgqueue[r].pMsg = msgqueue[s].pMsg => r = s

Carries(m) == (Waits("sendTask") /\ buffer = m) \/ \E c \in Channels : air[c] = m

\* Of the queue's messages only the oldest is ever offered to AMStandard.
OnlyOldest ==
  \A m \in Msgs : Carries(m) /\ owner[m] = "queue" => m = Oldest.pMsg /\ ~Signalled

\* QueuedSendM's handler runs before any client can send.
HeardFirst == In(calls, "queue") => Head(calls) = "queue" /\ ~state

\* The movers: the task, the service it runs, the handler that will dequeue,
\* the oldest message on its way, and its event.
Posted == Waits("QueueServiceTask")
Serving == In(calls, "service")
Carried == Oldest.pMsg # NoMsg /\ Carries(Oldest.pMsg) /\ owner[Oldest.pMsg] = "queue"
Reported == In(calls, "queue") /\ report.msg = Oldest.pMsg

\* With QInv, OnlyOldest and HeardFirst no two movers exist together.
OneAtATime ==
  /\ Posted => ~Serving /\ ~Signalled /\ ~Carried /\ ~Reported
  /\ Serving => ~Carried
  /\ fQueueIdle <=> ~Posted /\ ~Serving /\ ~Signalled /\ ~Carried /\ ~Reported
  /\ fQueueIdle => Oldest.pMsg = NoMsg

MInv ==
  /\ QInv
  /\ ~restarted /\ OneJob
  /\ Once("QueueServiceTask")
  /\ CountOf("App") <= MaxApps
  /\ Owned
  /\ OnlyOldest
  /\ HeardFirst
  /\ OneAtATime

LEMMA CountValue ==
  /\ CountOf("App") = Occurrences(fifo, "App")
  /\ CountOf("App")' = Occurrences(fifo', "App")
  BY DEF CountOf, Occurrences, Places

LEMMA AppsPost ==
  ASSUME fifo \in Seq(TaskNames), NEW t \in TaskNames, Sched!Enqueue(t)
  PROVE  /\ CountOf("App") \in Nat /\ CountOf("App")' \in Nat
         /\ t # "App" => CountOf("App")' = CountOf("App")
         /\ CountOf("App")' <= CountOf("App") + 1
  <1>1. fifo' = fifo \/ fifo' = Append(fifo, t)
    BY DEF Sched!Enqueue
  <1>2. Occurrences(fifo, "App") \in Nat
    BY PlacesFinite
  <1>3. Occurrences(Append(fifo, t), "App")
           = Occurrences(fifo, "App") + (IF t = "App" THEN 1 ELSE 0)
    BY CountAppend
  <1>4. CASE fifo' = fifo
    BY <1>2, <1>4, CountValue
  <1>5. CASE fifo' = Append(fifo, t)
    BY <1>2, <1>3, <1>5, CountValue
  <1> QED BY <1>1, <1>4, <1>5

LEMMA AppsDispatch ==
  ASSUME fifo \in Seq(TaskNames), Sched!Dispatch
  PROVE  CountOf("App")' <= CountOf("App") /\ CountOf("App") \in Nat /\ CountOf("App")' \in Nat
  <1>1. fifo # << >> /\ fifo' = Tail(fifo) /\ Tail(fifo) \in Seq(TaskNames)
    BY DEF Sched!Dispatch
  <1>2. Occurrences(fifo, "App") \in Nat /\ Occurrences(Tail(fifo), "App") \in Nat
    BY <1>1, PlacesFinite
  <1>3. Occurrences(fifo, "App")
           = Occurrences(Tail(fifo), "App") + (IF Head(fifo) = "App" THEN 1 ELSE 0)
    BY <1>1, CountTail
  <1> QED BY <1>1, <1>2, <1>3, CountValue

\* As long as QueueServiceTask does not wait there is room for it: besides
\* the tasks of the program at most one waits, for the message on its way.
LEMMA RoomForService ==
  ASSUME MInv, Wired, ~Posted
  PROVE  Sched!HasRoom
  <1> DEFINE A == Places(fifo, "App")
             O == {k \in DOMAIN fifo : fifo[k] # "App"}
  <1>1. /\ fifo \in Seq(TaskNames) /\ OneJob /\ Busy
        /\ CountOf("App") <= MaxApps
    BY QTypes DEF MInv
  <1>2. /\ IsFiniteSet(A) /\ Cardinality(A) \in Nat /\ Cardinality(A) <= MaxApps
        /\ IsFiniteSet(1 .. Len(fifo)) /\ Cardinality(1 .. Len(fifo)) = Len(fifo)
        /\ Len(fifo) \in Nat /\ DOMAIN fifo = 1 .. Len(fifo)
    BY <1>1, PlacesFinite, CountValue DEF Occurrences
  <1>3. A \union O = 1 .. Len(fifo)
    BY <1>2 DEF Places
  <1>4. \A k \in O : fifo[k] \in {"sendTask"} \union Channels
    <2>1. \A k \in DOMAIN fifo : fifo[k] \in TaskNames
      BY <1>1
    <2>2. TaskNames = {"sendTask", "App", "QueueServiceTask"} \union Channels
      BY QueueAssumption DEF TaskNames
    <2> QED BY <2>1, <2>2 DEF Posted, Waits
  <1>5. \A j, k \in O : j = k
    <2>1. /\ \A t \in Channels : Once(t) /\ (Waits(t) => air[t] # NoMsg)
          /\ \A c \in Channels : air[c] # NoMsg => ~Waits("sendTask")
          /\ \A c, d \in Channels : air[c] # NoMsg /\ air[d] # NoMsg => c = d
          /\ Once("sendTask")
      BY <1>1 DEF OneJob, Busy
    <2>2. \A k \in O : k \in DOMAIN fifo /\ Waits(fifo[k])
      BY DEF Waits
    <2>3. \A j, k \in O : fifo[j] = fifo[k]
      BY <1>4, <2>1, <2>2
    <2>4. \A k \in O : Once(fifo[k])
      BY <1>4, <2>1
    <2> QED BY <2>2, <2>3, <2>4 DEF Once
  <1>6. IsFiniteSet(O) /\ Cardinality(O) <= 1 /\ Cardinality(O) \in Nat
    <2>1. CASE O = {}
      BY <2>1, FS_EmptySet
    <2>2. CASE O # {}
      <3>1. PICK k \in O : O = {k}
        BY <1>5, <2>2
      <3>2. IsFiniteSet({k}) /\ Cardinality({k}) = 1
        BY FS_Singleton
      <3> QED BY <3>1, <3>2
    <2> QED BY <2>1, <2>2
  <1> HIDE DEF A, O
  <1>7. Cardinality(A \union O) <= Cardinality(A) + Cardinality(O)
    <2>1. Cardinality(A \union O) = Cardinality(A) + Cardinality(O) - Cardinality(A \cap O)
      BY <1>2, <1>6, FS_Union
    <2>2. Cardinality(A \cap O) \in Nat
      BY <1>2, FS_Intersection, FS_CardinalityType
    <2> QED BY <1>2, <1>6, <2>1, <2>2
  <1>8. Len(fifo) <= Cardinality(A) + Cardinality(O)
    BY <1>2, <1>3, <1>7
  <1>9. MaxApps \in Nat /\ Capacity \in Nat /\ Capacity >= MaxApps + 2
    BY AMAssumption DEF Wired
  <1>10. Len(fifo) < Capacity
    BY <1>2, <1>6, <1>8, <1>9
  <1> QED BY <1>10 DEF Sched!HasRoom

\* What the invariant says of the oldest message and of the one on its way.
LEMMA MFacts ==
  ASSUME MInv
  PROVE  /\ CallsType /\ Sched!TypeOK /\ fifo \in Seq(TaskNames)
         /\ Ring /\ Shape /\ Counts /\ Busy /\ dequeue_next \in Slots
         /\ owner \in [Msgs -> {"app", "am", "queue"}] /\ state \in BOOLEAN
         /\ buffer \in Msgs \union {NoMsg} /\ air \in [Channels -> Msgs \union {NoMsg}]
         /\ fQueueIdle \in BOOLEAN
         /\ Oldest.pMsg \in Msgs \union {NoMsg}
         /\ Oldest.pMsg # NoMsg /\ ~Signalled => owner[Oldest.pMsg] = "queue"
         /\ \A m \in Msgs : Carries(m) => state /\ owner[m] # "app"
         /\ \A m, n \in Msgs : Carries(m) /\ Carries(n) => m = n
  <1>1. /\ CallsType /\ Sched!TypeOK /\ fifo \in Seq(TaskNames)
        /\ Ring /\ Shape /\ Counts /\ Busy
        /\ owner \in [Msgs -> {"app", "am", "queue"}] /\ state \in BOOLEAN
        /\ buffer \in Msgs \union {NoMsg} /\ air \in [Channels -> Msgs \union {NoMsg}]
        /\ fQueueIdle \in BOOLEAN
    BY QTypes DEF MInv
  <1>2. dequeue_next \in Slots
    BY <1>1 DEF Ring
  <1>3. Oldest.pMsg \in Msgs \union {NoMsg}
    BY <1>1, <1>2 DEF Ring, Oldest
  <1>4. Oldest.pMsg # NoMsg /\ ~Signalled => owner[Oldest.pMsg] = "queue"
    BY <1>2 DEF MInv, Owned, Unsent, Oldest
  <1>5. OneJob /\ \A m \in Msgs : m # NoMsg
    BY AMAssumption DEF MInv
  <1>6. \A m \in Msgs : Carries(m) => state /\ owner[m] # "app"
    BY <1>5 DEF OneJob, Carries
  <1>7. \A m, n \in Msgs : Carries(m) /\ Carries(n) => m = n
    BY <1>5 DEF OneJob, Carries
  <1> QED BY <1>1, <1>2, <1>3, <1>4, <1>6, <1>7

LEMMA MInit == QueueInit => MInv
  <1> SUFFICES ASSUME QueueInit PROVE MInv
    OBVIOUS
  <1>1. QInv
    BY QInit
  <1>2. fifo = << >> /\ calls = << >> /\ restarted = FALSE
    BY DEF QueueInit, Init, Sched!Init
  <1>3. \A u : ~Waits(u) /\ Once(u) /\ ~In(calls, u)
    BY <1>2 DEF Waits, Once, In
  <1>4. \A c \in Channels : air[c] = NoMsg
    BY DEF QueueInit, Init
  <1>5. \A m \in Msgs : ~Carries(m)
    BY <1>3, <1>4, AMAssumption DEF Carries
  <1>6. OneJob
    BY <1>3, <1>4 DEF OneJob
  <1>7. CountOf("App") <= MaxApps
    <2>1. Places(fifo, "App") = {}
      BY <1>2 DEF Places
    <2>2. CountOf("App") = 0
      BY <2>1, CountValue, FS_EmptySet DEF Occurrences
    <2> QED BY <2>2, AMAssumption
  <1>8. /\ \A s \in Slots : msgqueue[s].pMsg = NoMsg
        /\ dequeue_next \in Slots /\ fQueueIdle = TRUE
    BY SizeType DEF QueueInit, Slots
  <1>9. Owned
    BY <1>8 DEF Owned, Unsent
  <1>10. OnlyOldest /\ HeardFirst
    BY <1>3, <1>5 DEF OnlyOldest, HeardFirst
  <1>11. OneAtATime
    BY <1>3, <1>8 DEF OneAtATime, Posted, Serving, Signalled, Carried, Reported, Oldest
  <1> QED BY <1>1, <1>2, <1>3, <1>6, <1>7, <1>9, <1>10, <1>11 DEF MInv

\* A step that moves nothing on.
LEMMA QuietStep ==
  ASSUME MInv, QInv', OneJob', Once("QueueServiceTask")', CountOf("App")' <= MaxApps,
         UNCHANGED <<restarted, owner, queueVars>>,
         \A m \in Msgs : Carries(m)' <=> Carries(m),
         Posted' <=> Posted, Serving' <=> Serving, Signalled' <=> Signalled,
         Reported' <=> Reported, HeardFirst'
  PROVE  MInv'
  <1>1. UNCHANGED <<msgqueue, dequeue_next, fQueueIdle>> /\ Oldest' = Oldest
    BY DEF queueVars, Oldest
  <1>2. Owned' /\ ~restarted'
    BY <1>1 DEF MInv, Owned, Unsent
  <1>3. OnlyOldest'
    BY <1>1 DEF MInv, OnlyOldest
  <1>4. Carried' <=> Carried
    BY <1>1, MFacts DEF Carried
  <1>5. OneAtATime'
    BY <1>1, <1>4 DEF MInv, OneAtATime
  <1> QED BY <1>2, <1>3, <1>5 DEF MInv

\* The layer reports a message: if it is the queue's, it is the oldest, and the
\* handler of QueuedSendM is the next mover.
LEMMA MReport ==
  ASSUME MInv, Wired, QInv', OneJob', Once("QueueServiceTask")', CountOf("App")' <= MaxApps,
         UNCHANGED <<restarted, queueVars>>, calls = << >>,
         NEW m \in Msgs, Carries(m),
         NEW success \in BOOLEAN, NEW ack \in BOOLEAN, ReportSendDone(m, success, ack),
         Posted' <=> Posted
  PROVE  MInv'
  <1>1. UNCHANGED <<msgqueue, dequeue_next, fQueueIdle>> /\ Oldest' = Oldest
    BY DEF queueVars, Oldest
  <1>2. /\ state' = FALSE /\ calls' = Handlers /\ report'.msg = m
        /\ owner' = [owner EXCEPT ![m] = IF owner[m] = "am" THEN "app" ELSE owner[m]]
    BY DEF ReportSendDone
  <1>3. /\ \A u : In(calls', u) => u \in {"client", "queue"}
        /\ In(calls', "queue") /\ Head(calls') = "queue"
    BY <1>2, AMAssumption DEF Wired, In
  <1>4. ~Signalled /\ ~Signalled' /\ ~Serving /\ ~Serving' /\ ~Reported
    BY <1>3, InEmpty DEF Signalled, Serving, Reported
  <1>5. \A s \in Slots : Unsent(s)' <=> Unsent(s)
    BY <1>1, <1>4 DEF Unsent
  <1>6. \A n \in Msgs : owner[n] = "queue" => owner'[n] = "queue"
    BY <1>2, MFacts
  <1>7. \A s \in Slots : Unsent(s) => msgqueue[s].pMsg \in Msgs
    BY MFacts DEF Ring, Unsent
  <1>8. Owned'
    BY <1>1, <1>5, <1>6, <1>7 DEF MInv, Owned
  <1>9. \A n \in Msgs : ~Carries(n)'
    BY <1>2, AMAssumption DEF OneJob, Carries
  <1>10. OnlyOldest' /\ HeardFirst' /\ ~Carried'
    <2>1. Oldest.pMsg \in Msgs \union {NoMsg}
      BY MFacts
    <2> QED BY <1>1, <1>2, <1>3, <1>9, <2>1 DEF OnlyOldest, HeardFirst, Carried
  <1>11. Carried <=> m = Oldest.pMsg
    <2>1. Oldest.pMsg \in Msgs \union {NoMsg} /\ m # NoMsg
      BY MFacts, AMAssumption
    <2>2. m = Oldest.pMsg => Carried
      BY <1>4, <2>1, MFacts DEF Carried
    <2>3. Carried => m = Oldest.pMsg
      BY <2>1, MFacts DEF Carried
    <2> QED BY <2>2, <2>3
  <1>12. Reported' <=> m = Oldest.pMsg
    BY <1>1, <1>2, <1>3 DEF Reported
  <1>13. OneAtATime'
    BY <1>1, <1>4, <1>10, <1>11, <1>12 DEF MInv, OneAtATime
  <1> QED BY <1>8, <1>10, <1>13 DEF MInv

\* A client sends directly: a message of its own, while nothing is on its way.
LEMMA MClientSends ==
  ASSUME MInv, QInv', OneJob', NEW m \in Msgs, ClientSends(m), UNCHANGED <<restarted, queueVars>>
  PROVE  MInv'
  <1>0. /\ fifo \in Seq(TaskNames) /\ state \in BOOLEAN
        /\ UNCHANGED <<air, report, calls>> /\ owner[m] = "app" /\ Send(m)
        /\ owner' = [owner EXCEPT ![m] = IF CanSend THEN "am" ELSE "app"]
        /\ ClientRuns
        /\ owner \in [Msgs -> {"app", "am", "queue"}]
    BY MFacts DEF ClientSends
  <1>1. ~In(calls, "queue")
    <2>1. calls = << >> \/ Head(calls) = "client"
      BY <1>0, MFacts DEF ClientRuns, Shape
    <2> QED BY <2>1, InEmpty DEF MInv, HeardFirst
  <1>2. UNCHANGED <<msgqueue, dequeue_next, fQueueIdle>> /\ Oldest' = Oldest
    BY DEF queueVars, Oldest
  <1>3. /\ Signalled' <=> Signalled
        /\ Serving' <=> Serving
        /\ Reported' <=> Reported
        /\ HeardFirst'
    BY <1>0, <1>1, <1>2 DEF Signalled, Serving, Reported, HeardFirst
  <1>4. CASE ~CanSend
    <2>1. UNCHANGED <<state, buffer, fifo>>
      BY <1>0, <1>4, RefusedSend
    <2>2. owner' = owner
      BY <1>0, <1>4
    <2>3. /\ \A u : Waits(u)' <=> Waits(u)
          /\ Once("QueueServiceTask")' /\ CountOf("App")' <= MaxApps
      BY <2>1, SameQueue DEF MInv, CountOf
    <2>4. \A n \in Msgs : Carries(n)' <=> Carries(n)
      BY <1>0, <2>1, <2>3 DEF Carries
    <2> QED BY <1>3, <2>2, <2>3, <2>4, QuietStep DEF Posted
  <1>5. CASE CanSend
    <2>1. /\ ~state /\ Sched!HasRoom /\ state' = TRUE /\ buffer' = m
          /\ Sched!Enqueue("sendTask")
      BY <1>0, <1>5 DEF CanSend, Send, Sched!TaskPosts
    <2>2. /\ \A u : Waits(u)' <=> Waits(u) \/ u = "sendTask"
          /\ Once("QueueServiceTask")'
          /\ CountOf("App")' <= MaxApps
      BY <1>0, <2>1, PostStep, AppsPost, Names DEF MInv
    <2>3. \A n \in Msgs : ~Carries(n)
      BY <2>1, MFacts
    <2>4. \A n \in Msgs : Carries(n)' => n = m
      BY <1>0, <2>1, <2>2, <2>3 DEF Carries
    <2>5. owner'[m] = "am" /\ \A n \in Msgs : n # m => owner'[n] = owner[n]
      BY <1>0, <1>5
    <2>6. OnlyOldest' /\ ~Carried /\ ~Carried'
      <3>1. Oldest.pMsg \in Msgs \union {NoMsg}
        BY MFacts
      <3> QED BY <1>2, <2>3, <2>4, <2>5, <3>1 DEF OnlyOldest, Carried
    <2>7. Owned'
      <3>1. \A s \in Slots : Unsent(s)' <=> Unsent(s)
        BY <1>2, <1>3 DEF Unsent
      <3>2. \A s \in Slots : Unsent(s) => msgqueue[s].pMsg \in Msgs /\ msgqueue[s].pMsg # m
        BY <1>0, MFacts DEF MInv, Owned, Ring, Unsent
      <3> QED BY <1>2, <2>5, <3>1, <3>2 DEF MInv, Owned
    <2>8. OneAtATime'
      <3>1. Posted' <=> Posted
        BY <2>2 DEF Posted
      <3> QED BY <1>2, <1>3, <2>6, <3>1 DEF MInv, OneAtATime
    <2> QED BY <1>3, <2>2, <2>6, <2>7, <2>8 DEF MInv
  <1> QED BY <1>4, <1>5

\* sendTask and the channels hand the message on, or report it.
LEMMA MsendTask ==
  ASSUME MInv, Wired, QInv', OneJob', sendTask, UNCHANGED <<restarted, queueVars>>
  PROVE  MInv'
  <1>1. Sched!Dispatch /\ running' = "sendTask" /\ buffer' = buffer
    BY DEF sendTask
  <1>2. /\ Waits("sendTask") /\ Once("QueueServiceTask")'
        /\ \A u : u # "sendTask" => (Waits(u)' <=> Waits(u))
        /\ ~Waits("sendTask")'
        /\ CountOf("App")' <= MaxApps
    BY <1>1, MFacts, DispatchStep, AppsDispatch, AMAssumption DEF MInv, OneJob
  <1>3. Posted' <=> Posted
    BY <1>2 DEF Posted
  <1>4. buffer \in Msgs /\ Carries(buffer) /\ calls = << >>
    BY <1>1, <1>2, MFacts DEF Busy, Carries, Shape, Sched!Dispatch
  <1>5. CASE /\ air[Channel(buffer)] = NoMsg
             /\ air' = [air EXCEPT ![Channel(buffer)] = buffer]
             /\ UNCHANGED <<state, report, calls, owner>>
    <2>1. air'[Channel(buffer)] = buffer /\ Channel(buffer) \in Channels
      BY <1>5, MFacts, Names
    <2>2. \A c \in Channels : air[c] = NoMsg /\ air'[c] \in {NoMsg, buffer}
      BY <1>2, <1>5, MFacts DEF MInv, OneJob
    <2>3. \A m \in Msgs : Carries(m)' <=> m = buffer
      BY <1>2, <2>1, <2>2, AMAssumption DEF Carries
    <2>4. \A m \in Msgs : Carries(m) <=> m = buffer
      BY <1>4, MFacts
    <2>5. /\ Serving' <=> Serving
          /\ Signalled' <=> Signalled
          /\ Reported' <=> Reported
          /\ HeardFirst'
      BY <1>5 DEF Serving, Signalled, Reported, HeardFirst, MInv, Oldest, queueVars
    <2> QED BY <1>2, <1>3, <1>5, <2>3, <2>4, <2>5, QuietStep
  <1>6. CASE ReportSendDone(buffer, FALSE, FALSE)
    BY <1>2, <1>3, <1>4, <1>6, MReport
  <1> QED BY <1>5, <1>6 DEF sendTask

LEMMA MChannelDone ==
  ASSUME MInv, Wired, QInv', OneJob', NEW c \in Channels, ChannelDone(c),
         UNCHANGED <<restarted, queueVars>>
  PROVE  MInv'
  <1>1. Sched!Dispatch /\ running' = c /\ c # "QueueServiceTask"
    BY DEF ChannelDone, Channels
  <1>2. PICK success \in BOOLEAN, ack \in BOOLEAN : ReportSendDone(air[c], success, ack)
    BY DEF ChannelDone
  <1>3. /\ Waits(c) /\ Once("QueueServiceTask")'
        /\ \A u : u # c => (Waits(u)' <=> Waits(u))
        /\ CountOf("App")' <= MaxApps
    BY <1>1, MFacts, DispatchStep, AppsDispatch, AMAssumption DEF MInv
  <1>4. Posted' <=> Posted
    BY <1>1, <1>3 DEF Posted
  <1>5. air[c] \in Msgs /\ Carries(air[c]) /\ calls = << >>
    BY <1>1, <1>3, MFacts DEF Busy, Carries, Shape, Sched!Dispatch
  <1> QED BY <1>2, <1>3, <1>4, <1>5, MReport

\* A client's handler returns: QueuedSendM's came before it.
LEMMA MClientHandlerReturns ==
  ASSUME MInv, QInv', OneJob', ClientHandlerReturns, UNCHANGED <<restarted, queueVars>>
  PROVE  MInv'
  <1>1. /\ calls # << >> /\ Head(calls) = "client" /\ calls' = Tail(calls)
        /\ UNCHANGED <<state, buffer, air, owner, fifo>>
    BY DEF ClientHandlerReturns, HandlerReturns, tasks
  <1>2. /\ \A u : Waits(u)' <=> Waits(u)
        /\ Once("QueueServiceTask")' /\ CountOf("App")' <= MaxApps
    BY <1>1, SameQueue DEF MInv, CountOf
  <1>3. \A u : u # "client" => (In(calls', u) <=> In(calls, u))
    BY <1>1, TailIn, MFacts DEF CallsType
  <1>4. ~In(calls, "queue")
    BY <1>1 DEF MInv, HeardFirst
  <1>5. \A m \in Msgs : Carries(m)' <=> Carries(m)
    BY <1>1, <1>2 DEF Carries
  <1>6. /\ Serving' <=> Serving
        /\ Signalled' <=> Signalled
        /\ Reported' <=> Reported
        /\ HeardFirst'
    BY <1>3, <1>4 DEF Serving, Signalled, Reported, HeardFirst
  <1> QED BY <1>1, <1>2, <1>5, <1>6, QuietStep DEF Posted

\* The steps that leave the messages and their events alone.
LEMMA MOtherStep ==
  ASSUME MInv, QInv', OneJob', UNCHANGED <<restarted, queueVars>>,
         \/ TaskReturns \/ RunApp \/ AppInterrupt \/ Sleep \/ UNCHANGED amVars
         \/ \E c \in Channels : ChannelInterrupt(c)
  PROVE  MInv'
  <1>1. UNCHANGED <<state, buffer, air, owner, report, calls>>
    BY DEF TaskReturns, RunApp, AppInterrupt, Sleep, ChannelInterrupt, amVars
  <1>2. /\ Waits("sendTask")' <=> Waits("sendTask")
        /\ Posted' <=> Posted
        /\ Once("QueueServiceTask")'
        /\ CountOf("App")' <= MaxApps
    <2>1. CASE RunApp
      <3>1. Sched!Dispatch /\ running' = "App"
        BY <2>1 DEF RunApp
      <3> QED BY <3>1, MFacts, DispatchStep, AppsDispatch, AMAssumption DEF MInv, Posted
    <2>2. CASE AppInterrupt
      <3>1. CountOf("App") < MaxApps /\ Sched!Enqueue("App") /\ MaxApps \in Nat
        BY <2>2, AMAssumption DEF AppInterrupt, Sched!InterruptPosts
      <3>2. CountOf("App")' <= MaxApps
        BY <3>1, MFacts, AppsPost, Names
      <3> QED BY <3>1, <3>2, MFacts, PostStep, Names DEF MInv, Posted
    <2>3. CASE \E c \in Channels : ChannelInterrupt(c)
      <3>1. PICK c \in Channels : Sched!Enqueue(c)
        BY <2>3 DEF ChannelInterrupt, Sched!InterruptPosts
      <3>2. c \notin {"sendTask", "QueueServiceTask", "App"}
        BY DEF Channels
      <3> QED BY <3>1, <3>2, MFacts, PostStep, AppsPost, Names DEF MInv, Posted
    <2>4. CASE TaskReturns \/ Sleep \/ UNCHANGED amVars
      <3>1. fifo' = fifo
        BY <2>4 DEF TaskReturns, Sleep, amVars, tasks, Sched!Return, Sched!Sleep
      <3> QED BY <3>1, SameQueue DEF MInv, Posted, CountOf
    <2> QED BY <2>1, <2>2, <2>3, <2>4
  <1>3. \A m \in Msgs : Carries(m)' <=> Carries(m)
    BY <1>1, <1>2 DEF Carries
  <1>4. /\ Serving' <=> Serving
        /\ Signalled' <=> Signalled
        /\ Reported' <=> Reported
        /\ HeardFirst'
    BY <1>1 DEF Serving, Signalled, Reported, HeardFirst, MInv, Oldest, queueVars
  <1> QED BY <1>1, <1>2, <1>3, <1>4, QuietStep

LEMMA MAMStep ==
  ASSUME MInv, Wired, [AMNext]_amVars, UNCHANGED queueVars
  PROVE  MInv'
  <1>1. QInv'
    BY QueueAMStep DEF MInv
  <1>2. ~PowerCycle
    BY DEF Wired, PowerCycle
  <1>3. restarted' = restarted
    BY <1>2 DEF AMNext, amVars, ClientSends, sendTask, ChannelInterrupt, ChannelDone,
                ClientHandlerReturns, TaskReturns, RunApp, AppInterrupt, Sleep
  <1>4. OneJob'
    BY <1>3, BaseStep DEF MInv, QInv, Kept
  <1> QED BY <1>1, <1>2, <1>3, <1>4, MClientSends, MsendTask, MChannelDone,
             MClientHandlerReturns, MOtherStep DEF AMNext

\* A post of QueueServiceTask, which finds room.
LEMMA MPost ==
  ASSUME MInv, Wired, ~Posted, Sched!TaskPosts("QueueServiceTask")
  PROVE  /\ Posted' /\ Once("QueueServiceTask")' /\ Once("sendTask")'
         /\ Waits("sendTask")' <=> Waits("sendTask")
         /\ CountOf("App")' <= MaxApps
         /\ running' = running
  <1>1. Sched!Enqueue("QueueServiceTask") /\ Sched!HasRoom /\ running' = running
    BY RoomForService DEF Sched!TaskPosts
  <1>2. fifo \in Seq(TaskNames) /\ Once("sendTask")
    BY MFacts DEF MInv, OneJob
  <1>3. CountOf("App")' = CountOf("App")
    BY <1>1, <1>2, AppsPost, ServiceName
  <1> QED BY <1>1, <1>2, <1>3, PostStep, ServiceName DEF MInv, Posted

\* The messages on their way stay the same.
LEMMA SameJob ==
  ASSUME MInv, UNCHANGED <<state, buffer, air>>,
         Once("sendTask")', Waits("sendTask")' <=> Waits("sendTask"),
         \A m \in Msgs : Carries(m) => owner'[m] # "app"
  PROVE  OneJob' /\ \A m \in Msgs : Carries(m)' <=> Carries(m)
  <1>1. \A m \in Msgs : Carries(m)' <=> Carries(m)
    BY DEF Carries
  <1>2. Waits("sendTask") => buffer \in Msgs /\ Carries(buffer)
    BY MFacts DEF Busy, Carries
  <1>3. \A c \in Channels : air[c] # NoMsg => air[c] \in Msgs /\ Carries(air[c])
    BY MFacts DEF Carries
  <1> QED BY <1>1, <1>2, <1>3 DEF MInv, OneJob

LEMMA MQueueSend ==
  ASSUME MInv, Wired, NEW m \in Msgs, QueueSend(m)
  PROVE  MInv'
  <1>0. QInv'
    BY QueueSendStep DEF MInv
  <1>1. /\ UNCHANGED <<state, buffer, air, report, calls, dequeue_next, restarted>>
        /\ fQueueIdle' = FALSE /\ owner[m] = "app" /\ ClientRuns
        /\ msgqueue' = [msgqueue EXCEPT ![enqueue_next] = [pMsg |-> m, xmit_count |-> 0]]
        /\ owner' = [owner EXCEPT ![m] = "queue"]
    BY DEF QueueSend
  <1>2. /\ ~fQueueIdle => fifo' = fifo
        /\ fQueueIdle => Sched!TaskPosts("QueueServiceTask") /\ ~Posted
    BY DEF QueueSend, tasks, MInv, OneAtATime
  <1>3. /\ Posted' <=> Posted \/ fQueueIdle
        /\ Once("QueueServiceTask")' /\ Once("sendTask")'
        /\ Waits("sendTask")' <=> Waits("sendTask")
        /\ CountOf("App")' <= MaxApps
    <2>1. CASE ~fQueueIdle
      BY <1>2, <2>1, SameQueue DEF MInv, OneJob, Posted, CountOf
    <2>2. CASE fQueueIdle
      BY <1>2, <2>2, MPost
    <2> QED BY <2>1, <2>2
  <1>4. \A n \in Msgs : n # m => owner'[n] = owner[n]
    BY <1>1, MFacts
  <1>5. owner'[m] = "queue" /\ ~Carries(m)
    BY <1>1, MFacts
  <1>6. OneJob' /\ \A n \in Msgs : Carries(n)' <=> Carries(n)
    BY <1>1, <1>3, <1>4, <1>5, MFacts, SameJob
  <1>7. ~In(calls, "queue") /\ ~Reported /\ ~Reported'
    <2>1. calls = << >> \/ Head(calls) = "client"
      BY <1>1, MFacts DEF ClientRuns, Shape
    <2> QED BY <1>1, <2>1, InEmpty DEF MInv, HeardFirst, Reported
  <1>8. (Signalled' <=> Signalled) /\ (Serving' <=> Serving) /\ HeardFirst'
    BY <1>1, <1>7 DEF Signalled, Serving, HeardFirst
  <1>9. \A s \in Slots : msgqueue'[s] = IF s = enqueue_next THEN [pMsg |-> m, xmit_count |-> 0]
                                                           ELSE msgqueue[s]
    BY <1>1, MFacts DEF Ring
  <1>10. Owned'
    <2>1. \A s \in Slots : s # enqueue_next =>
             /\ msgqueue'[s] = msgqueue[s] /\ (Unsent(s)' <=> Unsent(s))
      BY <1>1, <1>8, <1>9 DEF Unsent
    <2>2. msgqueue'[enqueue_next].pMsg = m /\ enqueue_next \in Slots
      BY <1>9, MFacts DEF Ring
    <2>3. \A s \in Slots : Unsent(s) => msgqueue[s].pMsg \in Msgs /\ msgqueue[s].pMsg # m
      BY <1>1, MFacts DEF MInv, Owned, Ring, Unsent
    <2>4. \A s \in Slots : msgqueue'[s].pMsg = m => s = enqueue_next \/ ~Unsent(s)'
      BY <2>1, <2>3
    <2>5. \A s \in Slots : Unsent(s)' => owner'[msgqueue'[s].pMsg] = "queue"
      BY <1>4, <1>5, <2>1, <2>2, <2>3 DEF MInv, Owned
    <2>6. \A r, s \in Slots : Unsent(r)' /\ Unsent(s)' /\ msgqueue'[r].pMsg = msgqueue'[s].pMsg => r = s
      <3> TAKE r, s \in Slots
      <3> HAVE Unsent(r)' /\ Unsent(s)' /\ msgqueue'[r].pMsg = msgqueue'[s].pMsg
      <3>1. CASE r = enqueue_next \/ s = enqueue_next
        BY <2>2, <2>4, <3>1
      <3>2. CASE r # enqueue_next /\ s # enqueue_next
        BY <2>1, <3>2 DEF MInv, Owned
      <3> QED BY <3>1, <3>2
    <2> QED BY <2>5, <2>6 DEF Owned
  <1>11. Oldest.pMsg # NoMsg => Oldest' = Oldest
    <2>1. Oldest.pMsg # NoMsg => dequeue_next # enqueue_next
      <3>1. getOccupancy > 0 => dequeue_next # enqueue_next
        BY OccupancyValue, MFacts, SizeType DEF Ring, Slots
      <3> QED BY <3>1, OldestThere, MFacts
    <2> QED BY <1>1, <1>9, <2>1, MFacts DEF Oldest
  <1>12. Oldest.pMsg = NoMsg => Oldest'.pMsg \in {NoMsg, m}
    BY <1>1, <1>9, MFacts DEF Oldest
  <1>13. OnlyOldest'
    <2>1. \A n \in Msgs : Carries(n) /\ owner'[n] = "queue" => n = Oldest.pMsg /\ ~Signalled
      BY <1>4, <1>5 DEF MInv, OnlyOldest
    <2>2. \A n \in Msgs : n # NoMsg
      BY AMAssumption
    <2> QED BY <1>6, <1>8, <1>11, <2>1, <2>2 DEF OnlyOldest
  <1>14. Carried' <=> Carried
    <2>1. CASE Oldest.pMsg # NoMsg
      <3>1. Oldest' = Oldest /\ Oldest.pMsg \in Msgs
        BY <1>11, <2>1, MFacts
      <3> QED BY <1>4, <1>5, <1>6, <3>1 DEF Carried
    <2>2. CASE Oldest.pMsg = NoMsg
      BY <1>5, <1>6, <1>12, <2>2 DEF Carried
    <2> QED BY <2>1, <2>2
  <1>15. OneAtATime'
    BY <1>1, <1>3, <1>7, <1>8, <1>14 DEF MInv, OneAtATime
  <1> QED BY <1>0, <1>1, <1>3, <1>6, <1>8, <1>10, <1>13, <1>15 DEF MInv

LEMMA MRunQueueService ==
  ASSUME MInv, RunQueueService
  PROVE  MInv'
  <1>0. QInv'
    BY RunQueueServiceStep DEF MInv
  <1>1. /\ Sched!Dispatch /\ running' = "QueueServiceTask" /\ calls' = <<"service">>
        /\ UNCHANGED <<state, buffer, air, report, owner, restarted>>
        /\ UNCHANGED <<msgqueue, enqueue_next, dequeue_next, fQueueIdle>>
    BY DEF RunQueueService, queueVars
  <1>2. /\ Posted /\ ~Posted' /\ Once("QueueServiceTask")' /\ Once("sendTask")'
        /\ Waits("sendTask")' <=> Waits("sendTask")
        /\ CountOf("App")' <= MaxApps
    <2>1. Once("sendTask") /\ Once("QueueServiceTask") /\ CountOf("App") <= MaxApps
      BY DEF MInv, OneJob
    <2> QED BY <1>1, <2>1, MFacts, DispatchStep, AppsDispatch, AMAssumption DEF Posted
  <1>3. OneJob' /\ \A n \in Msgs : Carries(n)' <=> Carries(n)
    BY <1>1, <1>2, MFacts, SameJob
  <1>4. \A u : In(calls', u) <=> u = "service"
    BY <1>1 DEF In
  <1>5. Serving' /\ ~Signalled' /\ ~Reported' /\ HeardFirst'
    BY <1>4 DEF Serving, Signalled, Reported, HeardFirst
  <1>6. ~Signalled /\ ~Carried /\ Oldest' = Oldest
    BY <1>1, <1>2 DEF MInv, OneAtATime, Oldest
  <1>7. Owned' /\ OnlyOldest'
    BY <1>1, <1>3, <1>5, <1>6 DEF MInv, Owned, OnlyOldest, Unsent
  <1>8. ~Carried'
    BY <1>1, <1>3, <1>6, MFacts DEF Carried
  <1>9. OneAtATime'
    BY <1>1, <1>2, <1>5, <1>6, <1>8 DEF MInv, OneAtATime
  <1> QED BY <1>0, <1>1, <1>2, <1>3, <1>5, <1>7, <1>9 DEF MInv

LEMMA MService ==
  ASSUME MInv, Wired, Service
  PROVE  MInv'
  <1>0. QInv'
    BY ServiceStep DEF MInv
  <1>1. /\ calls # << >> /\ Head(calls) = "service" /\ calls' = Tail(calls)
        /\ UNCHANGED <<air, report, owner, msgqueue, enqueue_next, dequeue_next, restarted>>
        /\ Oldest' = Oldest
    BY DEF Service, Oldest
  <1>2. calls = <<"service">>
    BY <1>1, TailIn, MFacts DEF CallsType, Shape
  <1>3. \A u : (In(calls, u) <=> u = "service") /\ ~In(calls', u)
    BY <1>1, <1>2 DEF In
  <1>4. /\ Serving /\ ~Serving' /\ ~Signalled /\ ~Signalled'
        /\ ~Reported' /\ HeardFirst'
    BY <1>3 DEF Serving, Signalled, Reported, HeardFirst
  <1>5. ~Posted /\ ~Carried /\ ~fQueueIdle
    BY <1>4 DEF MInv, OneAtATime
  <1>6. Owned'
    BY <1>1, <1>4 DEF MInv, Owned, Unsent
  <1>7. CASE Oldest.pMsg # NoMsg /\ CanSend /\ Send(Oldest.pMsg) /\ UNCHANGED fQueueIdle
    <2>1. /\ ~state /\ Sched!HasRoom /\ state' = TRUE /\ buffer' = Oldest.pMsg
          /\ Sched!Enqueue("sendTask")
      BY <1>7 DEF CanSend, Send, Sched!TaskPosts
    <2>2. ~Waits("sendTask") /\ \A c \in Channels : air[c] = NoMsg
      BY <2>1 DEF MInv, OneJob
    <2>3. /\ \A u : Waits(u)' <=> Waits(u) \/ u = "sendTask"
          /\ Once("QueueServiceTask")' /\ Once("sendTask")'
          /\ CountOf("App")' = CountOf("App")
      BY <2>1, <2>2, MFacts, PostStep, AppsPost, Names DEF MInv, OneJob
    <2>4. Oldest.pMsg \in Msgs /\ owner[Oldest.pMsg] = "queue"
      BY <1>4, <1>7, MFacts
    <2>5. \A m \in Msgs : Carries(m)' <=> m = Oldest.pMsg
      BY <1>1, <2>1, <2>2, <2>3, AMAssumption DEF Carries
    <2>6. OneJob'
      BY <1>1, <2>1, <2>2, <2>3, <2>4 DEF OneJob
    <2>7. OnlyOldest' /\ Carried'
      BY <1>1, <1>4, <1>7, <2>4, <2>5 DEF OnlyOldest, Carried
    <2>8. ~Posted'
      BY <1>5, <2>3 DEF Posted
    <2>9. OneAtATime'
      BY <1>4, <1>5, <1>7, <2>7, <2>8 DEF OneAtATime
    <2> QED BY <1>0, <1>1, <1>4, <1>6, <2>3, <2>6, <2>7, <2>9 DEF MInv
  <1>8. ASSUME UNCHANGED <<state, buffer>>,
               Once("QueueServiceTask")', Once("sendTask")',
               Waits("sendTask")' <=> Waits("sendTask"),
               CountOf("App")' <= MaxApps,
               fQueueIdle' <=> ~Posted',
               fQueueIdle' => Oldest.pMsg = NoMsg
        PROVE  MInv'
    <2>1. OneJob' /\ \A n \in Msgs : Carries(n)' <=> Carries(n)
      BY <1>1, <1>8, MFacts, SameJob
    <2>2. OnlyOldest' /\ ~Carried'
      BY <1>1, <1>4, <1>5, <2>1, MFacts DEF MInv, OnlyOldest, Carried
    <2>3. OneAtATime'
      BY <1>1, <1>4, <1>8, <2>2 DEF OneAtATime
    <2> QED BY <1>0, <1>1, <1>4, <1>6, <1>8, <2>1, <2>2, <2>3 DEF MInv
  <1>9. CASE Sched!TaskPosts("QueueServiceTask") /\ UNCHANGED <<state, buffer, fQueueIdle>>
    BY <1>5, <1>8, <1>9, MPost
  <1>10. CASE Oldest.pMsg = NoMsg /\ fQueueIdle' = TRUE /\ UNCHANGED <<state, buffer, tasks>>
    <2>1. /\ Once("QueueServiceTask")' /\ Once("sendTask")'
          /\ Waits("sendTask")' <=> Waits("sendTask")
          /\ CountOf("App")' <= MaxApps /\ ~Posted'
      BY <1>5, <1>10, SameQueue DEF tasks, MInv, OneJob, Posted, CountOf
    <2> QED BY <1>8, <1>10, <2>1
  <1> QED BY <1>7, <1>9, <1>10 DEF Service

\* The handler of QueuedSendM: nothing is on its way.
LEMMA QueueHears ==
  ASSUME MInv, calls # << >>, Head(calls) = "queue"
  PROVE  /\ In(calls, "queue") /\ ~state /\ ~Signalled /\ ~Serving
         /\ \A m \in Msgs : ~Carries(m)
         /\ ~Carried
         /\ \A u : In(Tail(calls), u) <=> In(calls, u) /\ u # "queue"
  <1>1. calls \in Seq(Callees)
    BY MFacts DEF CallsType
  <1>2. In(calls, "queue") /\ ~state
    BY <1>1, TailIn DEF MInv, HeardFirst
  <1>3. ~Signalled
    BY <1>2, MFacts DEF Shape
  <1>4. ~Serving
    BY MFacts DEF Serving, Shape
  <1>5. \A m \in Msgs : ~Carries(m)
    BY <1>2, MFacts
  <1>6. ~Carried
    BY <1>5, MFacts DEF Carried
  <1>7. \A u : In(Tail(calls), u) <=> In(calls, u) /\ u # "queue"
    <2>1. Single(calls, "queue")
      BY MFacts DEF Shape
    <2> QED BY <1>1, <2>1, TailIn
  <1> QED BY <1>2, <1>3, <1>4, <1>5, <1>6, <1>7

LEMMA MIgnoreSendDone ==
  ASSUME MInv, IgnoreSendDone
  PROVE  MInv'
  <1>0. QInv'
    BY IgnoreSendDoneStep DEF MInv
  <1>1. /\ calls # << >> /\ Head(calls) = "queue" /\ calls' = Tail(calls)
        /\ report.msg # Oldest.pMsg
        /\ UNCHANGED <<state, buffer, air, owner, fifo, restarted>> /\ UNCHANGED queueVars
    BY DEF IgnoreSendDone, HandlerReturns, tasks
  <1>2. /\ Waits("sendTask")' <=> Waits("sendTask")
        /\ Posted' <=> Posted
        /\ Once("QueueServiceTask")' /\ Once("sendTask")' /\ CountOf("App")' <= MaxApps
    BY <1>1, SameQueue DEF MInv, OneJob, CountOf, Posted
  <1>3. OneJob' /\ \A n \in Msgs : Carries(n)' <=> Carries(n)
    BY <1>1, <1>2, MFacts, SameJob
  <1>4. /\ Serving' <=> Serving
        /\ Signalled' <=> Signalled
        /\ ~Reported /\ ~Reported' /\ HeardFirst'
    BY <1>1, QueueHears DEF Serving, Signalled, Reported, HeardFirst
  <1> QED BY <1>0, <1>1, <1>2, <1>3, <1>4, QuietStep

LEMMA MRetransmitOldest ==
  ASSUME MInv, Wired, RetransmitOldest
  PROVE  MInv'
  <1>0. QInv'
    BY RetransmitOldestStep DEF MInv
  <1>1. /\ calls # << >> /\ Head(calls) = "queue" /\ calls' = Tail(calls)
        /\ report.msg = Oldest.pMsg
        /\ msgqueue' = [msgqueue EXCEPT ![dequeue_next].xmit_count = Transmissions]
        /\ Sched!TaskPosts("QueueServiceTask")
        /\ UNCHANGED <<state, buffer, air, owner, enqueue_next, dequeue_next, fQueueIdle, restarted>>
    BY DEF RetransmitOldest, HandlerReturns
  <1>2. Reported /\ ~Posted /\ ~fQueueIdle
    BY <1>1, QueueHears DEF Reported, MInv, OneAtATime
  <1>3. /\ Posted' /\ Once("QueueServiceTask")' /\ Once("sendTask")'
        /\ Waits("sendTask")' <=> Waits("sendTask")
        /\ CountOf("App")' <= MaxApps
    BY <1>1, <1>2, MPost
  <1>4. OneJob' /\ \A n \in Msgs : ~Carries(n)'
    BY <1>1, <1>3, MFacts, SameJob, QueueHears
  <1>5. ~Signalled /\ ~Serving' /\ ~Signalled' /\ ~Reported' /\ HeardFirst'
    BY <1>1, QueueHears DEF Serving, Signalled, Reported, HeardFirst
  <1>6. Oldest'.pMsg = Oldest.pMsg /\ \A s \in Slots : msgqueue'[s].pMsg = msgqueue[s].pMsg
    BY <1>1, OldestReported, CountStep DEF MInv
  <1>7. Owned'
    BY <1>1, <1>5, <1>6 DEF MInv, Owned, Unsent
  <1>8. OnlyOldest' /\ ~Carried'
    BY <1>4, <1>6, MFacts DEF OnlyOldest, Carried
  <1>9. OneAtATime'
    BY <1>1, <1>2, <1>3, <1>5, <1>8 DEF OneAtATime
  <1> QED BY <1>0, <1>1, <1>3, <1>4, <1>5, <1>7, <1>8, <1>9 DEF MInv

LEMMA MSignalSendDone ==
  ASSUME MInv, SignalSendDone
  PROVE  MInv'
  <1>0. QInv'
    BY SignalSendDoneStep DEF MInv
  <1>1. /\ calls # << >> /\ Head(calls) = "queue" /\ report.msg = Oldest.pMsg
        /\ calls' = <<"client", "dequeue">> \o Tail(calls)
        /\ msgqueue' = [msgqueue EXCEPT ![dequeue_next].xmit_count = Transmissions]
        /\ owner' = [owner EXCEPT ![report.msg] = "app"]
        /\ UNCHANGED <<state, buffer, air, report, fifo, enqueue_next, dequeue_next, fQueueIdle, restarted>>
    BY DEF SignalSendDone, tasks
  <1>2. Reported /\ ~Posted /\ ~fQueueIdle
    BY <1>1, QueueHears DEF Reported, MInv, OneAtATime
  <1>3. /\ ~Posted' /\ Once("QueueServiceTask")' /\ Once("sendTask")'
        /\ Waits("sendTask")' <=> Waits("sendTask")
        /\ CountOf("App")' <= MaxApps
    BY <1>1, <1>2, SameQueue DEF MInv, OneJob, Posted, CountOf
  <1>4. OneJob' /\ \A n \in Msgs : ~Carries(n)'
    <2>1. \A m \in Msgs : ~Carries(m)
      BY <1>1, QueueHears
    <2>2. UNCHANGED <<state, buffer, air>>
      BY <1>1
    <2> QED BY <1>3, <2>1, <2>2, SameJob
  <1>5. \A u : In(calls', u) <=> u = "client" \/ u = "dequeue" \/ (In(calls, u) /\ u # "queue")
    <2> DEFINE t == Tail(calls)
    <2>1. t \in Seq(Callees) /\ "client" \in Callees /\ "dequeue" \in Callees
      BY <1>1, MFacts DEF CallsType, Callees
    <2>2. calls' = <<"client", "dequeue">> \o t
      BY <1>1
    <2> HIDE DEF t
    <2>3. \A u : In(calls', u) <=> u = "client" \/ u = "dequeue" \/ In(t, u)
      BY <2>1, <2>2, TwoMoreIn
    <2>4. \A u : In(t, u) <=> In(calls, u) /\ u # "queue"
      BY <1>1, QueueHears DEF t
    <2> QED BY <2>3, <2>4
  <1>6. ~Serving' /\ Signalled' /\ ~Reported' /\ HeardFirst' /\ ~Signalled
    BY <1>1, <1>5, QueueHears DEF Serving, Signalled, Reported, HeardFirst
  <1>7. /\ Oldest'.pMsg = Oldest.pMsg /\ Oldest.pMsg \in Msgs
        /\ \A s \in Slots : msgqueue'[s].pMsg = msgqueue[s].pMsg
    BY <1>1, OldestReported, CountStep DEF MInv
  <1>8. Owned'
    <2>1. \A s \in Slots : Unsent(s)' => Unsent(s) /\ s # dequeue_next
      BY <1>1, <1>6, <1>7 DEF Unsent
    <2>2. Unsent(dequeue_next) /\ dequeue_next \in Slots
      BY <1>6, <1>7, MFacts, AMAssumption DEF Unsent, Oldest
    <2>3. \A s \in Slots : Unsent(s)' => /\ msgqueue[s].pMsg # Oldest.pMsg
                                        /\ msgqueue[s].pMsg \in Msgs
      BY <2>1, <2>2, MFacts DEF MInv, Owned, Oldest, Ring, Unsent
    <2>4. \A n \in Msgs : n # Oldest.pMsg => owner'[n] = owner[n]
      BY <1>1, MFacts
    <2> QED BY <1>7, <2>1, <2>3, <2>4 DEF MInv, Owned
  <1>9. OnlyOldest' /\ ~Carried'
    BY <1>4, <1>7 DEF OnlyOldest, Carried
  <1>10. OneAtATime'
    BY <1>1, <1>2, <1>3, <1>6, <1>9 DEF OneAtATime
  <1> QED BY <1>0, <1>1, <1>3, <1>4, <1>6, <1>8, <1>9, <1>10 DEF MInv

LEMMA MDequeue ==
  ASSUME MInv, Wired, Dequeue
  PROVE  MInv'
  <1>0. QInv'
    BY DequeueActionStep DEF MInv
  <1>1. /\ calls # << >> /\ Head(calls) = "dequeue" /\ calls' = Tail(calls)
        /\ msgqueue' = [msgqueue EXCEPT ![dequeue_next].pMsg = NoMsg]
        /\ Sched!TaskPosts("QueueServiceTask")
        /\ UNCHANGED <<state, buffer, air, owner, enqueue_next, fQueueIdle, restarted>>
    BY DEF Dequeue, HandlerReturns
  <1>2. /\ \A u : In(calls', u) => In(calls, u)
        /\ Signalled /\ ~Signalled' /\ ~In(calls, "queue")
    BY <1>1, TailIn, MFacts DEF CallsType, Shape, Signalled
  <1>3. ~Posted /\ ~Serving /\ ~fQueueIdle
    BY <1>1, <1>2, MFacts DEF MInv, OneAtATime, Serving, Shape
  <1>4. /\ Posted' /\ Once("QueueServiceTask")' /\ Once("sendTask")'
        /\ Waits("sendTask")' <=> Waits("sendTask")
        /\ CountOf("App")' <= MaxApps
    BY <1>1, <1>3, MPost
  <1>5. OneJob' /\ \A n \in Msgs : Carries(n)' <=> Carries(n)
    BY <1>1, <1>4, MFacts, SameJob
  <1>6. ~Serving' /\ ~Reported' /\ HeardFirst'
    BY <1>2, <1>3 DEF Serving, Reported, HeardFirst
  <1>7. \A m \in Msgs : Carries(m) => owner[m] # "queue"
    BY <1>2 DEF MInv, OnlyOldest
  <1>8. OnlyOldest' /\ ~Carried'
    <2>1. Oldest'.pMsg \in Msgs \union {NoMsg}
      BY <1>0, QTypes DEF QInv, Ring, Oldest
    <2> QED BY <1>1, <1>5, <1>7, <2>1 DEF OnlyOldest, Carried
  <1>9. \A s \in Slots : Unsent(s)' => Unsent(s) /\ msgqueue'[s] = msgqueue[s]
    BY <1>1, MFacts DEF Unsent, Ring
  <1>10. Owned'
    <2>1. owner' = owner /\ Owned
      BY <1>1 DEF MInv
    <2>2. \A s \in Slots : Unsent(s)' => owner'[msgqueue'[s].pMsg] = "queue"
      BY ONLY <1>9, <2>1 DEF Owned
    <2>3. \A r, s \in Slots : Unsent(r)' /\ Unsent(s)' /\ msgqueue'[r].pMsg = msgqueue'[s].pMsg => r = s
      BY ONLY <1>9, <2>1 DEF Owned
    <2> QED BY ONLY <2>2, <2>3 DEF Owned
  <1>11. OneAtATime'
    BY <1>1, <1>2, <1>3, <1>4, <1>6, <1>8 DEF OneAtATime
  <1> QED BY <1>0, <1>1, <1>4, <1>5, <1>6, <1>8, <1>10, <1>11 DEF MInv

LEMMA MStep ==
  ASSUME MInv, Wired, [QueueNext]_vars
  PROVE  MInv'
  <1>1. CASE [AMNext]_amVars /\ UNCHANGED queueVars
    BY <1>1, MAMStep
  <1>2. CASE \E m \in Msgs : QueueSend(m)
    BY <1>2, MQueueSend
  <1>3. CASE RunQueueService \/ Service
    BY <1>3, MRunQueueService, MService
  <1>4. CASE IgnoreSendDone \/ RetransmitOldest
    BY <1>4, MIgnoreSendDone, MRetransmitOldest
  <1>5. CASE SignalSendDone \/ Dequeue
    BY <1>5, MSignalSendDone, MDequeue
  <1> QED BY <1>1, <1>2, <1>3, <1>4, <1>5 DEF QueueNext, vars

\* The movers, counted.
LEMMA MoversValue ==
  ASSUME MInv
  PROVE  OneMover
  <1>1. CountOf("QueueServiceTask") = IF Posted THEN 1 ELSE 0
    <2> DEFINE P == Places(fifo, "QueueServiceTask")
    <2>1. CountOf("QueueServiceTask") = Cardinality(P)
      BY DEF CountOf, Places
    <2>2. Posted <=> P # {}
      BY DEF Posted, Waits, Places
    <2>3. \A j, k \in P : j = k
      BY DEF MInv, Once, Places
    <2> HIDE DEF P
    <2>4. CASE Posted
      <3>1. PICK k \in P : P = {k}
        BY <2>2, <2>3, <2>4
      <3> QED BY <2>1, <2>4, <3>1, FS_Singleton
    <2>5. CASE ~Posted
      BY <2>1, <2>2, <2>5, FS_EmptySet
    <2> QED BY <2>4, <2>5
  <1> DEFINE H == {c \in {"service", "dequeue"} : c \in {calls[k] : k \in 1 .. Len(calls)}}
  <1>2. /\ Cardinality(H) = IF Serving \/ Signalled THEN 1 ELSE 0
        /\ ~(Serving /\ Signalled)
    <2>1. DOMAIN calls = 1 .. Len(calls)
      BY MFacts DEF CallsType
    <2>2. H = {c \in {"service", "dequeue"} : In(calls, c)}
      BY <2>1 DEF In
    <2>3. ~(Serving /\ Signalled)
      <3>1. Serving => calls = <<"service">>
        BY MFacts DEF Shape, Serving
      <3> QED BY <3>1 DEF Signalled, In
    <2>4. H = IF Serving THEN {"service"} ELSE IF Signalled THEN {"dequeue"} ELSE {}
      BY <2>2, <2>3 DEF Serving, Signalled
    <2> HIDE DEF H
    <2>5. Cardinality({"service"}) = 1 /\ Cardinality({"dequeue"}) = 1 /\ Cardinality({}) = 0
      BY FS_Singleton, FS_EmptySet
    <2> QED BY <2>3, <2>4, <2>5
  <1>3. (Oldest.pMsg \in InHand /\ owner[Oldest.pMsg] = "queue") <=> Carried
    BY DEF InHand, Carried, Carries
  <1>4. (report.msg # NoMsg /\ report.msg = Oldest.pMsg /\ calls[1] = "queue") <=> Reported
    <2>1. calls \in Seq(Callees) /\ (report # NoReport => calls # << >>)
      BY MFacts DEF CallsType
    <2>2. calls # << >> => Head(calls) = calls[1] /\ 1 \in DOMAIN calls
      BY <2>1
    <2>3. In(calls, "queue") => calls[1] = "queue" /\ report.msg # NoMsg
      <3>1. In(calls, "queue") => calls # << >> /\ Head(calls) = "queue" /\ report.msg # NoMsg
        BY InEmpty, MFacts DEF MInv, HeardFirst, Shape
      <3> QED BY <2>2, <3>1
    <2>4. report.msg # NoMsg => calls # << >>
      BY <2>1 DEF NoReport
    <2>5. report.msg # NoMsg /\ calls[1] = "queue" => In(calls, "queue")
      BY <2>2, <2>4 DEF In
    <2> QED BY <2>3, <2>5 DEF Reported
  <1> HIDE DEF H
  <1>5. Movers = (IF Posted THEN 1 ELSE 0) + (IF Serving \/ Signalled THEN 1 ELSE 0)
                   + (IF Carried THEN 1 ELSE 0) + (IF Reported THEN 1 ELSE 0)
    BY <1>1, <1>2, <1>3, <1>4 DEF Movers, H
  <1>6. /\ ~(Carried /\ Reported) /\ ~(Signalled /\ Carried) /\ ~(Signalled /\ Reported)
        /\ ~(Serving /\ Reported)
    <2>1. ~(Carried /\ Reported)
      BY MFacts DEF Carried, Reported, MInv, HeardFirst
    <2>2. ~(Signalled /\ Carried)
      BY MFacts DEF MInv, OnlyOldest, Carried
    <2>3. ~(Signalled /\ Reported)
      BY MFacts DEF Shape, Reported
    <2>4. ~(Serving /\ Reported)
      <3>1. Serving => calls = <<"service">>
        BY MFacts DEF Shape, Serving
      <3> QED BY <3>1 DEF Reported, In
    <2> QED BY <2>1, <2>2, <2>3, <2>4
  <1>7. Movers = IF fQueueIdle THEN 0 ELSE 1
    BY <1>5, <1>6 DEF MInv, OneAtATime
  <1>8. fQueueIdle => getOccupancy = 0
    <2>1. getOccupancy \in Nat
      BY MFacts, WaitingValue
    <2>2. Oldest.pMsg # NoMsg <=> getOccupancy > 0
      BY MFacts, OldestThere
    <2> QED BY <2>1, <2>2 DEF MInv, OneAtATime
  <1> QED BY <1>7, <1>8 DEF OneMover

(***************************************************************************)
(* Unless the queue is idle, and then it is empty, exactly one thing will  *)
(* make it go on: it neither stops with messages waiting nor sends one     *)
(* twice.  For any number of messages and slots; the layer is not          *)
(* restarted, the task queue has room for two tasks beside the program's,  *)
(* and QueuedSendM is the first component wired to the sendDone event      *)
(* (QueuedSendM.nc).                                                       *)
(***************************************************************************)
THEOREM QueueKeepsGoing ==
  ASSUME ~PowerCycles, Capacity >= MaxApps + 2, Handlers[1] = "queue"
  PROVE  QueueSpec => []OneMover
  <1>0. Wired
    BY DEF Wired
  <1>1. MInv /\ [QueueNext]_vars => MInv'
    BY <1>0, MStep
  <1>2. MInv => OneMover
    BY MoversValue
  <1> QED BY <1>1, <1>2, MInit, PTL DEF QueueSpec

=============================================================================
