---------------------------- MODULE SerialProofs -----------------------------
(***************************************************************************)
(* Proofs about TOSBaseM on FramerM, for any numbers of messages and       *)
(* frames and any lengths of the two queues.                               *)
(*                                                                         *)
(* Sound holds whatever the tasks do: a token belongs to a message that    *)
(* was queued.  InStep holds while PacketSent keeps up with the UART and   *)
(* the task queue has room: gTxProto then still tells what was sent, or    *)
(* else a token was reflected meanwhile and the data is pending still.     *)
(***************************************************************************)
EXTENDS TOSBaseM, TaskCounts

TaskKinds == {"PacketSent", "PacketRcvd", "UARTSendTask", "RadioSendTask"}

HostTokens == 0 .. MaxFrames

TxType ==
  [gTxState : {"IDLE", "PROTO", "FINISH", "ERROR"},
   gFlags : SUBSET {"TOKENPEND", "DATAPEND"},
   gTxProto : {"ACK", "PACKET_NOACK"},
   gpTxMsg : HeardMsgs \union {Nothing},
   gpTxBuf : HeardMsgs \union {Nothing},
   gTxTokenBuf : HostTokens \union {Nothing}]

Waits(task) == \E i \in DOMAIN tasks : tasks[i] = task

TxT ==
  /\ tx \in TxType
  /\ wire \in HeardMsgs \union HostTokens \union {Nothing}
  /\ errors \in Nat

RxT ==
  /\ gRxState \in {"NOSYNC", "PROTO", "BODY"}
  /\ gMsgRcvTbl \in [RxSlots -> Frames \union {Nothing}]
  /\ gRxHeadIndex \in RxSlots
  /\ gRxTailIndex \in RxSlots
  /\ incoming \in Frames \union {Nothing}
  /\ gRxState = "BODY" => incoming \in Frames
  /\ hostSent \in 0 .. MaxFrames
  /\ rcv \in {"idle", "message", "empty"}
  /\ odd \subseteq {"empty", "long"}
  /\ odd \subseteq Lengths
  /\ spoiled \in BOOLEAN

\* A frame has its own token, unless that was written over.
OwnToken(f) == f.token \in {f.msg, 0}

RxTokens ==
  /\ gRxState = "BODY" => OwnToken(incoming)
  /\ \A s \in RxSlots : gMsgRcvTbl[s] # Nothing => OwnToken(gMsgRcvTbl[s])

TasksT == tasks \in Seq(TaskKinds) /\ Len(tasks) <= TaskSlots

UartT ==
  /\ uartQueue \in Seq(HeardMsgs)
  /\ Len(uartQueue) <= UART_QUEUE_LEN
  /\ uartBusy \in BOOLEAN
  /\ heard \in 0 .. MaxHeard

RadioT ==
  /\ radioQueue \in Seq(HostMsgs)
  /\ Len(radioQueue) <= RADIO_QUEUE_LEN
  /\ radioBusy \in BOOLEAN
  /\ onAir \in HostMsgs \union {Nothing}
  /\ radioed \subseteq HostMsgs

Types == TxT /\ RxT /\ RxTokens /\ TasksT /\ UartT /\ RadioT

\* The messages of the host that were queued.
Taken == radioed \union Waiting(radioQueue)

Pending(flag) == flag \in tx.gFlags

\* Every token on its way, or about to be, is that of a message in Taken, or 0.
Tokens ==
  /\ tx.gTxTokenBuf \in Taken \union {0, Nothing}
  /\ Pending("TOKENPEND") => tx.gTxTokenBuf # Nothing
  /\ ~SentData(tx) /\ (tx.gTxState # "IDLE" \/ Waits("PacketSent")) => tx.gTxTokenBuf # Nothing
  /\ ~SentData(tx) /\ tx.gTxState = "FINISH" => wire \in Taken \union {0}
  /\ hostAcks \subseteq Taken \union {0}

\* What the radio sends is the oldest message.
OnAir == onAir # Nothing => radioQueue # << >> /\ onAir = Head(radioQueue)

Sound == Types /\ Tokens /\ OnAir

-----------------------------------------------------------------------------
(* While tasks keep up and the task queue has room.                        *)

\* Each queue has one mover.
UartOne ==
  /\ UartMovers = (IF uartBusy THEN 1 ELSE 0)
  /\ uartQueue # << >> => uartBusy

RadioOne ==
  /\ RadioMovers = (IF radioBusy THEN 1 ELSE 0)
  /\ radioQueue # << >> => radioBusy

\* The receive buffers and the runs of PacketRcvd that are due make a ring of two:
\* a buffer that no run comes to is not full.
IsFull(s) == gMsgRcvTbl[s] # Nothing

RxRing ==
  /\ gRxState # "NOSYNC" => HeadIsFree
  /\ gRxHeadIndex = (gRxTailIndex + ToEnd) % 2
  /\ ToEnd = 0 => ~IsFull(0) /\ ~IsFull(1)
  /\ ToEnd = 1 => ~IsFull(1 - gRxTailIndex)

\* Without an empty frame each of the runs comes to a full buffer.
RxExact ==
  "empty" \notin odd =>
    \/ ToEnd = 0
    \/ ToEnd = 1 /\ IsFull(gRxTailIndex)
    \/ ToEnd = 2 /\ IsFull(0) /\ IsFull(1)

\* odd tells what came in, and each run is for a frame that came in.
RxOdd ==
  /\ gRxState = "BODY" => {incoming.Length} \intersect {"empty", "long"} \subseteq odd
  /\ rcv = "empty" => "empty" \in odd
  /\ spoiled => odd # {}
  /\ ToEnd + (IF gRxState = "BODY" THEN 1 ELSE 0) <= hostSent

Receiver == RxRing /\ RxExact /\ RxOdd

\* A frame is on its way, or its PacketSent waits.
Sending == tx.gTxState # "IDLE" \/ Waits("PacketSent")

\* The data that is pending is the oldest message.
Data == Pending("DATAPEND") => uartQueue # << >> /\ tx.gpTxMsg = Head(uartQueue)

Transmitter ==
  /\ Data
  /\ Sending /\ SentData(tx) => Pending("DATAPEND") /\ tx.gpTxBuf = tx.gpTxMsg
  /\ Sending /\ ~SentData(tx) /\ ~Pending("TOKENPEND") => Pending("DATAPEND")
  /\ Waits("PacketSent") /\ tx.gTxState \in {"PROTO", "FINISH"} =>
       ~SentData(tx) /\ Pending("DATAPEND")
  /\ tx.gTxState = "ERROR" => Waits("PacketSent")
  /\ tx.gTxState = "FINISH" /\ SentData(tx) => wire = tx.gpTxBuf
  /\ Waits("PacketSent") /\ SentData(tx) /\ SentWell(tx) => hostGot = tx.gpTxMsg

InStep ==
  /\ Movers("PacketSent") <= 1
  /\ UartOne
  /\ RadioOne
  /\ Receiver
  /\ Transmitter

-----------------------------------------------------------------------------
(***************************************************************************)
(* The task queue: how often each task waits in it.                        *)
(***************************************************************************)

\* Counts and waiting.
LEMMA MoverFacts ==
  ASSUME tasks \in Seq(TaskKinds)
  PROVE  /\ \A u : Movers(u) \in Nat /\ (Movers(u) = 0 <=> ~Waits(u))
         /\ Len(tasks) = Movers("PacketSent") + Movers("PacketRcvd")
                           + Movers("UARTSendTask") + Movers("RadioSendTask")
  <1>1. \A u : Movers(u) = Occurrences(tasks, u)
    BY DEF Movers, Occurrences, Places
  <1>2. \A u : Occurrences(tasks, u) \in Nat /\ (Occurrences(tasks, u) = 0 <=> ~Waits(u))
    BY PlacesFinite DEF Waits
  <1>3. Len(tasks) = Occurrences(tasks, "PacketSent") + Occurrences(tasks, "PacketRcvd")
                       + Occurrences(tasks, "UARTSendTask") + Occurrences(tasks, "RadioSendTask")
    <2>1. tasks \in Seq({"PacketSent", "PacketRcvd", "UARTSendTask", "RadioSendTask"})
      BY DEF TaskKinds
    <2> QED BY <2>1, CountAll
  <1> QED BY <1>1, <1>2, <1>3

LEMMA MoverFactsPrime ==
  ASSUME tasks' \in Seq(TaskKinds)
  PROVE  \A u : Movers(u)' \in Nat /\ (Movers(u)' = 0 <=> ~Waits(u)')
  <1> DEFINE q == tasks'
  <1>1. \A u : Movers(u)' = Occurrences(q, u)
    BY DEF Movers, Occurrences, Places
  <1>2. \A u : Waits(u)' <=> ~(\A k \in DOMAIN q : q[k] # u)
    BY DEF Waits
  <1>3. q \in Seq(TaskKinds)
    OBVIOUS
  <1> HIDE DEF q
  <1>4. \A u : Occurrences(q, u) \in Nat /\ (Occurrences(q, u) = 0 <=> \A k \in DOMAIN q : q[k] # u)
    BY <1>3, PlacesFinite
  <1> QED BY <1>1, <1>2, <1>4

\* One post, with room or without.
LEMMA PostedIs ==
  ASSUME NEW q \in Seq(TaskKinds), NEW t \in TaskKinds, Len(q) <= TaskSlots
  PROVE  Posted(q, <<t>>) = IF Len(q) < TaskSlots THEN Append(q, t) ELSE q
  <1> DEFINE all == q \o <<t>>
  <1>1. Len(q) \in Nat /\ TaskSlots \in Nat
    BY FramerAssumption
  <1>2. all = Append(q, t) /\ Len(all) = Len(q) + 1 /\ all \in Seq(TaskKinds)
    OBVIOUS
  <1>3. CASE Len(q) < TaskSlots
    <2>1. (IF Len(all) < TaskSlots THEN Len(all) ELSE TaskSlots) = Len(all)
      BY <1>1, <1>2, <1>3
    <2>2. Posted(q, <<t>>) = SubSeq(all, 1, Len(all))
      BY <2>1 DEF Posted
    <2>3. SubSeq(all, 1, Len(all)) = all
      BY <1>2
    <2> QED BY <1>2, <1>3, <2>2, <2>3
  <1>4. CASE ~(Len(q) < TaskSlots)
    <2>1. (IF Len(all) < TaskSlots THEN Len(all) ELSE TaskSlots) = Len(q)
      BY <1>1, <1>2, <1>4
    <2>2. Posted(q, <<t>>) = SubSeq(all, 1, Len(q))
      BY <2>1 DEF Posted
    <2>3. SubSeq(all, 1, Len(q)) = q
      BY <1>1, <1>2
    <2> QED BY <1>4, <2>2, <2>3
  <1> QED BY <1>3, <1>4

\* A post by an interrupt.
LEMMA PostStep ==
  ASSUME tasks \in Seq(TaskKinds), Len(tasks) <= TaskSlots,
         NEW t \in TaskKinds, tasks' = Posted(tasks, <<t>>)
  PROVE  /\ tasks' \in Seq(TaskKinds) /\ Len(tasks') <= TaskSlots
         /\ \A u : Waits(u)' => Waits(u) \/ u = t
         /\ \A u : Waits(u) => Waits(u)'
         /\ Len(tasks) < TaskSlots =>
              \A u : Movers(u)' = Movers(u) + (IF u = t THEN 1 ELSE 0)
  <1> DEFINE q == tasks'
  <1>0. TaskSlots \in Nat /\ Len(tasks) \in Nat
    BY FramerAssumption
  <1>1. q = IF Len(tasks) < TaskSlots THEN Append(tasks, t) ELSE tasks
    BY PostedIs
  <1>2. q \in Seq(TaskKinds) /\ Len(q) <= TaskSlots
    <2> HIDE DEF q
    <2>1. Append(tasks, t) \in Seq(TaskKinds) /\ Len(Append(tasks, t)) = Len(tasks) + 1
      OBVIOUS
    <2> QED BY <1>0, <1>1, <2>1
  <1>3. \A u : Movers(u)' = Occurrences(q, u) /\ Movers(u) = Occurrences(tasks, u)
    BY DEF Movers, Occurrences, Places
  <1>4. \A u : Waits(u)' <=> Occurrences(q, u) # 0
    <2>1. \A u : Waits(u)' <=> ~(\A k \in DOMAIN q : q[k] # u)
      BY DEF Waits
    <2> HIDE DEF q
    <2> QED BY <1>2, <2>1, PlacesFinite
  <1>5. \A u : (Waits(u) <=> Occurrences(tasks, u) # 0) /\ Occurrences(tasks, u) \in Nat
    BY PlacesFinite DEF Waits
  <1> HIDE DEF q
  <1>6. \A u : Occurrences(Append(tasks, t), u) = Occurrences(tasks, u) + (IF u = t THEN 1 ELSE 0)
    BY CountAppend
  <1>7. Len(tasks) < TaskSlots =>
          \A u : Occurrences(q, u) = Occurrences(tasks, u) + (IF u = t THEN 1 ELSE 0)
    BY <1>1, <1>6
  <1>8. \A u : \/ Occurrences(q, u) = Occurrences(tasks, u)
              \/ Occurrences(q, u) = Occurrences(tasks, u) + (IF u = t THEN 1 ELSE 0)
    BY <1>1, <1>6
  <1>9. \A u : Waits(u)' => Waits(u) \/ u = t
    BY <1>4, <1>5, <1>8
  <1>10. \A u : Waits(u) => Waits(u)'
    BY <1>4, <1>5, <1>8
  <1> QED BY <1>2, <1>3, <1>7, <1>9, <1>10 DEF q

\* A task runs.
LEMMA RunStep ==
  ASSUME tasks \in Seq(TaskKinds), Len(tasks) <= TaskSlots,
         NEW t, Runs(t), tasks' = Tail(tasks)
  PROVE  /\ tasks' \in Seq(TaskKinds) /\ Len(tasks') <= TaskSlots
         /\ Waits(t)
         /\ \A u : Waits(u)' => Waits(u)
         /\ \A u : Movers(u) = Movers(u)' + (IF u = t THEN 1 ELSE 0)
  <1> DEFINE q == tasks'
  <1>0. TaskSlots \in Nat /\ Len(tasks) \in Nat
    BY FramerAssumption
  <1>1. q = Tail(tasks) /\ tasks # << >> /\ Head(tasks) = t
    BY DEF Runs
  <1>2. q \in Seq(TaskKinds) /\ Len(q) <= TaskSlots
    BY <1>0, <1>1
  <1>3. \A u : Movers(u)' = Occurrences(q, u) /\ Movers(u) = Occurrences(tasks, u)
    BY DEF Movers, Occurrences, Places
  <1>4. \A u : Waits(u)' <=> ~(\A k \in DOMAIN q : q[k] # u)
    BY DEF Waits
  <1>5. \A u : (Waits(u) <=> Occurrences(tasks, u) # 0) /\ Occurrences(tasks, u) \in Nat
    BY PlacesFinite DEF Waits
  <1> HIDE DEF q
  <1>6. \A u : Occurrences(q, u) \in Nat /\ (Waits(u)' <=> Occurrences(q, u) # 0)
    BY <1>2, <1>4, PlacesFinite
  <1>7. \A u : Occurrences(tasks, u) = Occurrences(q, u) + (IF u = t THEN 1 ELSE 0)
    BY <1>1, CountTail
  <1>8. \A u : Waits(u)' => Waits(u)
    BY <1>5, <1>6, <1>7
  <1>9. Waits(t)
    BY <1>5, <1>6, <1>7
  <1> QED BY <1>2, <1>3, <1>7, <1>8, <1>9 DEF q

\* A task runs and posts another one, for which it leaves room.
LEMMA RunPostStep ==
  ASSUME tasks \in Seq(TaskKinds), Len(tasks) <= TaskSlots,
         NEW t, Runs(t), NEW v \in TaskKinds, tasks' = Posted(Tail(tasks), <<v>>)
  PROVE  /\ tasks' \in Seq(TaskKinds) /\ Len(tasks') <= TaskSlots
         /\ Waits(t) /\ Waits(v)'
         /\ \A u : Waits(u)' => Waits(u) \/ u = v
         /\ \A u : Movers(u)' + (IF u = t THEN 1 ELSE 0) = Movers(u) + (IF u = v THEN 1 ELSE 0)
         /\ CanPost(Tail(tasks))
  <1> DEFINE q == tasks'
             r == Tail(tasks)
  <1>0. TaskSlots \in Nat /\ Len(tasks) \in Nat
    BY FramerAssumption
  <1>1. tasks # << >> /\ Head(tasks) = t
    BY DEF Runs
  <1>2. r \in Seq(TaskKinds) /\ Len(r) < TaskSlots /\ Len(r) \in Nat
    BY <1>0, <1>1
  <1>3. \A u : Movers(u)' = Occurrences(q, u) /\ Movers(u) = Occurrences(tasks, u)
    BY DEF Movers, Occurrences, Places
  <1>4. \A u : Waits(u)' <=> ~(\A k \in DOMAIN q : q[k] # u)
    BY DEF Waits
  <1>5. \A u : (Waits(u) <=> Occurrences(tasks, u) # 0) /\ Occurrences(tasks, u) \in Nat
    BY PlacesFinite DEF Waits
  <1>6. \A u : Occurrences(tasks, u) = Occurrences(r, u) + (IF u = t THEN 1 ELSE 0)
    BY <1>1, CountTail
  <1>7. q = Posted(r, <<v>>) /\ CanPost(r)
    BY <1>2 DEF CanPost
  <1> HIDE DEF q, r
  <1>8. q = Append(r, v)
    BY <1>0, <1>2, <1>7, PostedIs
  <1>9. q \in Seq(TaskKinds) /\ Len(q) <= TaskSlots
    BY <1>0, <1>2, <1>8
  <1>10. \A u : Occurrences(q, u) \in Nat /\ (Waits(u)' <=> Occurrences(q, u) # 0)
    BY <1>4, <1>9, PlacesFinite
  <1>11. \A u : Occurrences(q, u) = Occurrences(r, u) + (IF u = v THEN 1 ELSE 0) /\ Occurrences(r, u) \in Nat
    BY <1>2, <1>8, CountAppend, PlacesFinite
  <1>12. \A u : Waits(u)' => Waits(u) \/ u = v
    BY <1>5, <1>6, <1>10, <1>11
  <1>13. Waits(t) /\ Waits(v)'
    BY <1>5, <1>6, <1>10, <1>11
  <1>14. \A u : Occurrences(q, u) + (IF u = t THEN 1 ELSE 0)
                  = Occurrences(tasks, u) + (IF u = v THEN 1 ELSE 0)
    BY <1>6, <1>11
  <1> QED BY <1>3, <1>7, <1>9, <1>12, <1>13, <1>14 DEF q, r

LEMMA RunsWaits ==
  ASSUME tasks \in Seq(TaskKinds), NEW t, Runs(t)
  PROVE  Waits(t)
  BY DEF Runs, Waits

LEMMA TailHasRoom ==
  ASSUME tasks \in Seq(TaskKinds), Len(tasks) <= TaskSlots, NEW t, Runs(t)
  PROVE  CanPost(Tail(tasks)) = TRUE
  BY FramerAssumption DEF Runs, CanPost

\* The queue is left alone.
LEMMA SameTasks ==
  ASSUME tasks' = tasks
  PROVE  \A u : (Waits(u)' <=> Waits(u)) /\ Movers(u)' = Movers(u)
  BY DEF Waits, Movers

-----------------------------------------------------------------------------
(***************************************************************************)
(* The transmitter.                                                        *)
(***************************************************************************)

\* The frame under way in u is the one of t.
SameFrame(t, u) ==
  /\ u.gTxState = t.gTxState
  /\ u.gTxProto = t.gTxProto
  /\ u.gpTxBuf = t.gpTxBuf

\* u begins the frame of what is pending.
Begins(u) ==
  /\ u.gTxState = "PROTO"
  /\ \/ /\ "TOKENPEND" \in u.gFlags
        /\ u.gTxProto = "ACK"
     \/ /\ "TOKENPEND" \notin u.gFlags
        /\ "DATAPEND" \in u.gFlags
        /\ u.gTxProto = "PACKET_NOACK"
        /\ u.gpTxBuf = u.gpTxMsg

LEMMA StartTxIs ==
  ASSUME NEW t \in TxType
  PROVE  /\ StartTx(t) \in TxType
         /\ StartTx(t).gFlags = t.gFlags
         /\ StartTx(t).gpTxMsg = t.gpTxMsg
         /\ StartTx(t).gTxTokenBuf = t.gTxTokenBuf
         /\ IF t.gTxState = "IDLE" /\ t.gFlags # {} THEN Begins(StartTx(t))
            ELSE SameFrame(t, StartTx(t))
  <1>1. CASE t.gTxState # "IDLE" \/ t.gFlags = {}
    <2>1. StartTx(t) = t
      BY <1>1 DEF StartTx
    <2> QED BY <1>1, <2>1 DEF SameFrame
  <1>2. CASE t.gTxState = "IDLE" /\ "TOKENPEND" \in t.gFlags
    <2>1. StartTx(t) = [t EXCEPT !.gTxState = "PROTO", !.gTxProto = "ACK", !.gpTxBuf = Nothing]
      BY <1>2 DEF StartTx, Begin
    <2> QED BY <1>2, <2>1 DEF TxType, Begins
  <1>3. CASE t.gTxState = "IDLE" /\ "TOKENPEND" \notin t.gFlags /\ t.gFlags # {}
    <2>1. StartTx(t) = [t EXCEPT !.gTxState = "PROTO", !.gTxProto = "PACKET_NOACK",
                                 !.gpTxBuf = t.gpTxMsg]
      BY <1>3 DEF StartTx, Begin
    <2>2. "DATAPEND" \in t.gFlags
      BY <1>3 DEF TxType
    <2> QED BY <1>3, <2>1, <2>2 DEF TxType, Begins
  <1> QED BY <1>1, <1>2, <1>3

LEMMA SendIs ==
  ASSUME NEW t \in TxType, NEW m \in HeardMsgs
  PROVE  /\ Send(t, m) \in TxType
         /\ ~SendAccepts(t) => Send(t, m) = t
         /\ SendAccepts(t) =>
              /\ Send(t, m).gFlags = t.gFlags \union {"DATAPEND"}
              /\ Send(t, m).gpTxMsg = m
              /\ Send(t, m).gTxTokenBuf = t.gTxTokenBuf
              /\ IF t.gTxState = "IDLE" THEN Begins(Send(t, m)) ELSE SameFrame(t, Send(t, m))
  <1>1. CASE ~SendAccepts(t)
    BY <1>1 DEF Send
  <1>2. CASE SendAccepts(t)
    <2> DEFINE s == [t EXCEPT !.gFlags = @ \union {"DATAPEND"}, !.gpTxMsg = m]
    <2>1. Send(t, m) = StartTx(s)
      BY <1>2 DEF Send
    <2>2. /\ s \in TxType
          /\ s.gFlags = t.gFlags \union {"DATAPEND"} /\ s.gpTxMsg = m
          /\ s.gTxTokenBuf = t.gTxTokenBuf /\ SameFrame(t, s)
      BY DEF TxType, SameFrame
    <2> HIDE DEF s
    <2>3. /\ StartTx(s) \in TxType
          /\ StartTx(s).gFlags = s.gFlags
          /\ StartTx(s).gpTxMsg = s.gpTxMsg
          /\ StartTx(s).gTxTokenBuf = s.gTxTokenBuf
          /\ IF s.gTxState = "IDLE" /\ s.gFlags # {} THEN Begins(StartTx(s))
             ELSE SameFrame(s, StartTx(s))
      BY <2>2, StartTxIs
    <2>4. s.gFlags # {} /\ (s.gTxState = "IDLE" <=> t.gTxState = "IDLE")
      BY <2>2 DEF SameFrame
    <2>5. IF t.gTxState = "IDLE" THEN Begins(StartTx(s)) ELSE SameFrame(t, StartTx(s))
      BY <2>2, <2>3, <2>4 DEF SameFrame
    <2> QED BY <1>2, <2>1, <2>2, <2>3, <2>5
  <1> QED BY <1>1, <1>2

LEMMA ReflectIs ==
  ASSUME NEW t \in TxType, NEW m \in HostTokens
  PROVE  /\ ReflectToken(t, m) \in TxType
         /\ "TOKENPEND" \in t.gFlags => ReflectToken(t, m) = t
         /\ "TOKENPEND" \notin t.gFlags =>
              /\ ReflectToken(t, m).gFlags = t.gFlags \union {"TOKENPEND"}
              /\ ReflectToken(t, m).gpTxMsg = t.gpTxMsg
              /\ ReflectToken(t, m).gTxTokenBuf = m
              /\ IF t.gTxState = "IDLE" THEN Begins(ReflectToken(t, m))
                 ELSE SameFrame(t, ReflectToken(t, m))
  <1>1. CASE "TOKENPEND" \in t.gFlags
    BY <1>1 DEF ReflectToken
  <1>2. CASE "TOKENPEND" \notin t.gFlags
    <2> DEFINE s == [t EXCEPT !.gFlags = @ \union {"TOKENPEND"}, !.gTxTokenBuf = m]
    <2>1. ReflectToken(t, m) = StartTx(s)
      BY <1>2 DEF ReflectToken
    <2>2. /\ s \in TxType
          /\ s.gFlags = t.gFlags \union {"TOKENPEND"} /\ s.gpTxMsg = t.gpTxMsg
          /\ s.gTxTokenBuf = m /\ SameFrame(t, s)
      BY DEF TxType, SameFrame
    <2> HIDE DEF s
    <2>3. /\ StartTx(s) \in TxType
          /\ StartTx(s).gFlags = s.gFlags
          /\ StartTx(s).gpTxMsg = s.gpTxMsg
          /\ StartTx(s).gTxTokenBuf = s.gTxTokenBuf
          /\ IF s.gTxState = "IDLE" /\ s.gFlags # {} THEN Begins(StartTx(s))
             ELSE SameFrame(s, StartTx(s))
      BY <2>2, StartTxIs
    <2>4. s.gFlags # {} /\ (s.gTxState = "IDLE" <=> t.gTxState = "IDLE")
      BY <2>2 DEF SameFrame
    <2>5. IF t.gTxState = "IDLE" THEN Begins(StartTx(s)) ELSE SameFrame(t, StartTx(s))
      BY <2>2, <2>3, <2>4 DEF SameFrame
    <2> QED BY <1>2, <2>1, <2>2, <2>3, <2>5
  <1> QED BY <1>1, <1>2

\* PacketSent: the flag that gTxProto names is toggled, and an idle transmitter
\* begins the next frame, if a flag is set then.
LEMMA AfterSentIs ==
  ASSUME NEW t \in TxType
  PROVE  LET u == StartTx(AfterSent(t)) IN
         /\ u \in TxType
         /\ u.gFlags = Toggled(t.gFlags, IF SentData(t) THEN "DATAPEND" ELSE "TOKENPEND")
         /\ u.gpTxMsg = IF SentData(t) THEN Nothing ELSE t.gpTxMsg
         /\ u.gTxTokenBuf = t.gTxTokenBuf
         /\ t.gTxState \in {"PROTO", "FINISH"} => SameFrame(t, u)
         /\ t.gTxState \in {"IDLE", "ERROR"} =>
              \/ u.gFlags # {} /\ Begins(u)
              \/ /\ u.gFlags = {} /\ u.gTxState = "IDLE"
                 /\ u.gTxProto = t.gTxProto
  <1> DEFINE s == AfterSent(t)
  <1>1. /\ s \in TxType
        /\ s.gFlags = Toggled(t.gFlags, IF SentData(t) THEN "DATAPEND" ELSE "TOKENPEND")
        /\ s.gpTxMsg = IF SentData(t) THEN Nothing ELSE t.gpTxMsg
        /\ s.gTxTokenBuf = t.gTxTokenBuf
        /\ s.gTxState = IF t.gTxState = "ERROR" THEN "IDLE" ELSE t.gTxState
        /\ s.gTxProto = t.gTxProto
        /\ s.gpTxBuf = t.gpTxBuf
    <2>1. CASE SentData(t)
      <3>1. s = [t EXCEPT !.gTxState = IF @ = "ERROR" THEN "IDLE" ELSE @,
                          !.gFlags = Toggled(@, "DATAPEND"), !.gpTxMsg = Nothing]
        BY <2>1 DEF AfterSent, TxType
      <3>2. Toggled(t.gFlags, "DATAPEND") \subseteq {"TOKENPEND", "DATAPEND"}
        BY DEF Toggled, TxType
      <3> QED BY <2>1, <3>1, <3>2 DEF TxType
    <2>2. CASE ~SentData(t)
      <3>1. s = [t EXCEPT !.gTxState = IF @ = "ERROR" THEN "IDLE" ELSE @,
                          !.gFlags = Toggled(@, "TOKENPEND")]
        BY <2>2 DEF AfterSent, TxType
      <3>2. Toggled(t.gFlags, "TOKENPEND") \subseteq {"TOKENPEND", "DATAPEND"}
        BY DEF Toggled, TxType
      <3> QED BY <2>2, <3>1, <3>2 DEF TxType
    <2> QED BY <2>1, <2>2
  <1> HIDE DEF s
  <1>2. /\ StartTx(s) \in TxType
        /\ StartTx(s).gFlags = s.gFlags
        /\ StartTx(s).gpTxMsg = s.gpTxMsg
        /\ StartTx(s).gTxTokenBuf = s.gTxTokenBuf
        /\ IF s.gTxState = "IDLE" /\ s.gFlags # {} THEN Begins(StartTx(s))
           ELSE SameFrame(s, StartTx(s))
    BY <1>1, StartTxIs
  <1>3. t.gTxState \in {"PROTO", "FINISH"} => SameFrame(t, StartTx(s))
    BY <1>1, <1>2 DEF SameFrame
  <1>4. t.gTxState \in {"IDLE", "ERROR"} =>
          \/ StartTx(s).gFlags # {} /\ Begins(StartTx(s))
          \/ /\ StartTx(s).gFlags = {} /\ StartTx(s).gTxState = "IDLE"
             /\ StartTx(s).gTxProto = t.gTxProto
    BY <1>1, <1>2 DEF SameFrame
  <1> QED BY <1>1, <1>2, <1>3, <1>4 DEF s

-----------------------------------------------------------------------------
(***************************************************************************)
(* Sound.                                                                  *)
(***************************************************************************)

LEMMA AppendFacts ==
  ASSUME NEW S, NEW q \in Seq(S), NEW x \in S
  PROVE  /\ Append(q, x) \in Seq(S) /\ Len(Append(q, x)) = Len(q) + 1
         /\ Append(q, x) # << >>
         /\ Waiting(Append(q, x)) = Waiting(q) \union {x}
         /\ q # << >> => Head(Append(q, x)) = Head(q)
  <1>0. Len(q) \in Nat /\ DOMAIN q = 1 .. Len(q)
    OBVIOUS
  <1> DEFINE a == Append(q, x)
  <1>1. /\ a \in Seq(S) /\ Len(a) = Len(q) + 1 /\ a # << >> /\ DOMAIN a = 1 .. Len(q) + 1
        /\ \A k \in DOMAIN q : a[k] = q[k]
        /\ a[Len(q) + 1] = x
        /\ q # << >> => Head(a) = Head(q)
    OBVIOUS
  <1> HIDE DEF a
  <1>2. Waiting(a) = Waiting(q) \union {x}
    <2>1. ASSUME NEW y \in Waiting(a) PROVE y \in Waiting(q) \union {x}
      <3>1. PICK k \in DOMAIN a : y = a[k]
        BY DEF Waiting
      <3>2. k \in DOMAIN q \/ k = Len(q) + 1
        BY <1>0, <1>1
      <3> QED BY <1>1, <3>1, <3>2 DEF Waiting
    <2>2. ASSUME NEW y \in Waiting(q) PROVE y \in Waiting(a)
      <3>1. PICK k \in DOMAIN q : y = q[k]
        BY DEF Waiting
      <3>2. k \in DOMAIN a
        BY <1>0, <1>1
      <3> QED BY <1>1, <3>1, <3>2 DEF Waiting
    <2>3. x \in Waiting(a)
      BY <1>0, <1>1 DEF Waiting
    <2> QED BY <2>1, <2>2, <2>3
  <1> QED BY <1>1, <1>2 DEF a

LEMMA QueueFacts ==
  ASSUME NEW S, NEW q \in Seq(S)
  PROVE  /\ WithoutOldest(q) \in Seq(S) /\ Len(WithoutOldest(q)) <= Len(q)
         /\ q # << >> => /\ WithoutOldest(q) = Tail(q)
                         /\ Head(q) \in S
                         /\ Waiting(q) = Waiting(Tail(q)) \union {Head(q)}
         /\ Waiting(q) \subseteq S
         /\ Len(q) \in Nat
  <1>1. Len(q) \in Nat /\ DOMAIN q = 1 .. Len(q) /\ \A i \in DOMAIN q : q[i] \in S
    OBVIOUS
  <1>5. Waiting(q) \subseteq S
    BY <1>1 DEF Waiting
  <1> DEFINE Rest == /\ WithoutOldest(q) \in Seq(S) /\ Len(WithoutOldest(q)) <= Len(q)
                     /\ q # << >> => /\ WithoutOldest(q) = Tail(q)
                                     /\ Head(q) \in S
                                     /\ Waiting(q) = Waiting(Tail(q)) \union {Head(q)}
  <1>3. ASSUME q = << >> PROVE Rest
    <2>1. WithoutOldest(q) = << >>
      BY <1>3 DEF WithoutOldest
    <2>2. WithoutOldest(q) = q
      BY ONLY <1>3, <2>1
    <2>3. q \in Seq(S) /\ Len(q) <= Len(q)
      BY <1>1
    <2> QED BY ONLY <1>3, <2>2, <2>3
  <1>4. ASSUME q # << >> PROVE Rest
    <2> DEFINE r == Tail(q)
    <2>1. /\ r \in Seq(S) /\ Len(r) = Len(q) - 1 /\ DOMAIN r = 1 .. Len(q) - 1
          /\ \A k \in DOMAIN r : r[k] = q[k + 1]
          /\ Head(q) = q[1] /\ Head(q) \in S /\ 1 \in DOMAIN q
      BY <1>4
    <2>2. WithoutOldest(q) = r
      BY <1>1, <1>4 DEF WithoutOldest
    <2> HIDE DEF r
    <2>3. Waiting(q) = Waiting(r) \union {Head(q)}
      <3>1. ASSUME NEW y \in Waiting(q) PROVE y \in Waiting(r) \union {Head(q)}
        <4>1. PICK k \in DOMAIN q : y = q[k]
          BY DEF Waiting
        <4>2. k = 1 \/ (k - 1 \in DOMAIN r /\ r[k - 1] = q[k])
          BY <1>1, <2>1
        <4> QED BY <2>1, <4>1, <4>2 DEF Waiting
      <3>2. ASSUME NEW y \in Waiting(r) PROVE y \in Waiting(q)
        <4>1. PICK k \in DOMAIN r : y = r[k]
          BY DEF Waiting
        <4>2. k + 1 \in DOMAIN q
          BY <1>1, <2>1
        <4> QED BY <2>1, <4>1, <4>2 DEF Waiting
      <3>3. Head(q) \in Waiting(q)
        BY <2>1 DEF Waiting
      <3> QED BY <3>1, <3>2, <3>3
    <2>4. Len(r) <= Len(q)
      BY <1>1, <2>1
    <2> QED BY <1>4, <2>1, <2>2, <2>3, <2>4 DEF r
  <1>6. Rest
    BY <1>3, <1>4
  <1> QED BY <1>1, <1>5, <1>6

\* What the numbers mean: Nothing is none of them.
LEMMA NothingElse ==
  /\ Nothing \notin Frames /\ Nothing \notin HostTokens /\ Nothing \notin HeardMsgs
  /\ Nothing \notin HostMsgs /\ HostMsgs \subseteq HostTokens /\ 0 \in HostTokens
  /\ \A f \in Frames : f.msg \in HostMsgs /\ f.token \in HostTokens
  BY BaseAssumption, FramerAssumption DEF HeardMsgs, HostMsgs, HostTokens, Frames

LEMMA TypesFacts ==
  ASSUME Types
  PROVE  /\ Taken \subseteq HostMsgs
         /\ Nothing \notin Taken
  BY QueueFacts, NothingElse DEF Types, RadioT, Taken

LEMMA SoundIsTyped ==
  ASSUME Sound PROVE BaseTypeOK /\ AckedOnlyIfQueued
  <1>1. Types /\ hostAcks \subseteq Taken \union {0}
    BY DEF Sound, Tokens
  <1>2. Taken \subseteq HostMsgs
    BY <1>1, TypesFacts
  <1>3. BaseTypeOK
    BY <1>1, <1>2, NothingElse
       DEF Types, TxT, TxType, RxT, TasksT, UartT, RadioT, HostTokens, BaseTypeOK
  <1> QED BY <1>1, <1>3 DEF AckedOnlyIfQueued, Taken

LEMMA SoundInit == Init => Sound
  <1> SUFFICES ASSUME Init PROVE Sound
    OBVIOUS
  <1> USE DEF Init, FramerInit
  <1>1. TxT /\ TasksT
    BY FramerAssumption DEF TxT, TxType, TasksT
  <1>2. RxT /\ RxTokens
    <2>3. /\ gRxState = "NOSYNC" /\ gMsgRcvTbl = [s \in RxSlots |-> Nothing]
          /\ gRxHeadIndex = 0 /\ gRxTailIndex = 0 /\ incoming = Nothing /\ hostSent = 0
          /\ rcv = "idle" /\ odd = {} /\ spoiled = FALSE
      OBVIOUS
    <2>4. MaxFrames \in Nat /\ 0 \in RxSlots
      BY FramerAssumption DEF RxSlots, HDLC_QUEUESIZE
    <2>1. RxT
      <3>1. gMsgRcvTbl \in [RxSlots -> Frames \union {Nothing}]
        BY ONLY <2>3
      <3>2. hostSent \in 0 .. MaxFrames
        BY ONLY <2>3, <2>4
      <3>3. {} \subseteq Lengths /\ {} \subseteq {"empty", "long"}
        OBVIOUS
      <3> QED BY ONLY <2>3, <2>4, <3>1, <3>2, <3>3 DEF RxT
    <2>2. RxTokens
      BY DEF RxTokens
    <2> QED BY <2>1, <2>2
  <1>0. /\ Len(<< >>) = 0 /\ << >> \in Seq(HeardMsgs) /\ << >> \in Seq(HostMsgs)
        /\ 0 <= UART_QUEUE_LEN /\ 0 <= RADIO_QUEUE_LEN /\ 0 \in 0 .. MaxHeard
    BY BaseAssumption
  <1>3. UartT
    BY <1>0 DEF UartT
  <1>4. RadioT
    BY <1>0 DEF RadioT
  <1>5. ~Waits("PacketSent")
    BY DEF Waits
  <1>6. Tokens
    BY <1>5 DEF Tokens, Pending, SentData
  <1>7. OnAir
    BY DEF OnAir
  <1> QED BY <1>1, <1>2, <1>3, <1>4, <1>6, <1>7 DEF Sound, Types

\* The transmitter and what the host knows are left alone.
LEMMA TokensKept ==
  ASSUME Tokens, UNCHANGED <<tx, wire, hostAcks>>, Taken \subseteq Taken',
         Waits("PacketSent")' => Waits("PacketSent")
  PROVE  Tokens'
  BY DEF Tokens, Pending, SentData

LEMMA RadioKept ==
  ASSUME UNCHANGED radioVars
  PROVE  /\ Taken' = Taken
         /\ RadioT => RadioT'
         /\ OnAir => OnAir'
  BY DEF radioVars, Taken, Waiting, RadioT, OnAir

LEMMA UartKept ==
  ASSUME UNCHANGED uartVars, UartT PROVE UartT'
  BY DEF uartVars, UartT

LEMMA RxKept ==
  ASSUME UNCHANGED rxVars PROVE (RxT => RxT') /\ (RxTokens => RxTokens')
  BY DEF rxVars, RxT, RxTokens

\* A step that leaves the rest of the base station alone.
LEMMA SoundParts ==
  ASSUME Sound, UNCHANGED <<uartVars, radioVars>>, TxT', RxT', RxTokens', TasksT', Tokens'
  PROVE  Sound'
  BY UartKept, RadioKept DEF Sound, Types

LEMMA SoundTransmits ==
  ASSUME Sound, UNCHANGED <<uartVars, radioVars>>, TxPayload \/ TxDone \/ TxByteFails
  PROVE  Sound'
  <1>1. TxT /\ RxT /\ RxTokens /\ TasksT /\ Tokens /\ Taken' = Taken /\ Nothing \notin Taken
    BY TypesFacts, RadioKept DEF Sound, Types
  <1>2. UNCHANGED rxVars /\ RxT' /\ RxTokens'
    BY <1>1, RxKept DEF TxPayload, TxDone, TxByteFails
  <1>3. CASE TxPayload
    <2>1. /\ tx.gTxState = "PROTO"
          /\ tx' = [tx EXCEPT !.gTxState = "FINISH"]
          /\ wire' = IF SentData(tx) THEN tx.gpTxBuf ELSE tx.gTxTokenBuf
          /\ UNCHANGED <<tasks, hostAcks, errors>>
      BY <1>3 DEF TxPayload, hostVars
    <2>2. TasksT' /\ (Waits("PacketSent")' <=> Waits("PacketSent"))
      BY <1>1, <2>1, SameTasks DEF TasksT
    <2>3. TxT'
      BY <1>1, <2>1 DEF TxT, TxType
    <2>4. /\ tx'.gTxState = "FINISH" /\ tx'.gTxTokenBuf = tx.gTxTokenBuf
          /\ tx'.gFlags = tx.gFlags /\ (SentData(tx)' <=> SentData(tx))
      BY <1>1, <2>1 DEF TxT, TxType, SentData
    <2>5. Tokens'
      BY <1>1, <2>1, <2>2, <2>4 DEF Tokens, Pending
    <2> QED BY <1>2, <2>2, <2>3, <2>5, SoundParts
  <1>4. CASE TxDone \/ TxByteFails
    <2>1. /\ tx.gTxState \in {"PROTO", "FINISH"}
          /\ \E s \in {"IDLE", "ERROR"} : tx' = [tx EXCEPT !.gTxState = s]
          /\ tasks' = Posted(tasks, <<"PacketSent">>)
          /\ wire' = Nothing
          /\ errors' \in {errors, errors + 1}
          /\ \/ hostAcks' = hostAcks
             \/ tx.gTxState = "FINISH" /\ ~SentData(tx) /\ hostAcks' = hostAcks \union {wire}
      BY <1>4 DEF TxDone, TxByteFails, hostVars
    <2>2. TasksT'
      BY <1>1, <2>1, PostStep DEF TasksT, TaskKinds
    <2>3. TxT'
      BY <1>1, <2>1 DEF TxT, TxType
    <2>4. /\ tx'.gTxState \in {"IDLE", "ERROR"} /\ tx'.gTxTokenBuf = tx.gTxTokenBuf
          /\ tx'.gFlags = tx.gFlags /\ (SentData(tx)' <=> SentData(tx))
      BY <1>1, <2>1 DEF TxT, TxType, SentData
    <2>5. tx.gTxState # "IDLE" /\ tx'.gTxState # "FINISH"
      BY <2>1, <2>4
    <2>6. Tokens'
      BY <1>1, <2>1, <2>4, <2>5 DEF Tokens, Pending
    <2> QED BY <1>2, <2>2, <2>3, <2>6, SoundParts
  <1> QED BY <1>3, <1>4

LEMMA Slots == RxSlots = {0, 1} /\ After(0) = 1 /\ After(1) = 0
  BY DEF RxSlots, HDLC_QUEUESIZE, After

\* A frame of the host is a frame, with its own token.
LEMMA HostFrame ==
  ASSUME NEW m \in HostMsgs, NEW f \in HostFrames(m)
  PROVE  f \in Frames /\ OwnToken(f) /\ f.Length \in Lengths
  <1>1. f \in [Proto : Protos, Length : Lengths, msg : {m}, token : {m}]
    BY DEF HostFrames
  <1>2. Lengths \subseteq {"whole", "short", "empty", "long"} /\ m \in 0 .. MaxFrames
    BY FramerAssumption DEF HostMsgs
  <1>3. /\ f = [Proto |-> f.Proto, Length |-> f.Length, msg |-> f.msg, token |-> f.token]
        /\ f.Proto \in Protos /\ f.Length \in Lengths /\ f.msg = m /\ f.token = m
    BY <1>1
  <1>4. f \in Frames
    BY <1>2, <1>3 DEF Frames
  <1> QED BY <1>3, <1>4 DEF OwnToken

LEMMA SoundReceives ==
  ASSUME Sound, UNCHANGED <<uartVars, radioVars>>,
         RxSync \/ RxProto \/ RxNotAPacket \/ RxGoodFrame \/ RxBadFrame \/ RxLongFrame
  PROVE  Sound'
  <1>1. TxT /\ RxT /\ RxTokens /\ TasksT /\ Tokens /\ Taken' = Taken
    BY RadioKept DEF Sound, Types
  <1>2. UNCHANGED <<tx, wire, hostVars, errors>>
    BY DEF RxSync, RxProto, RxNotAPacket, RxGoodFrame, RxBadFrame, RxLongFrame
  <1>3. TxT'
    BY <1>1, <1>2 DEF TxT
  <1>4. \/ tasks' = tasks
        \/ tasks' = Posted(tasks, <<"PacketRcvd">>)
    BY DEF RxSync, RxProto, RxNotAPacket, RxGoodFrame, RxBadFrame, RxLongFrame
  <1>5. TasksT' /\ (Waits("PacketSent")' => Waits("PacketSent"))
    BY <1>1, <1>4, PostStep, SameTasks DEF TasksT, TaskKinds
  <1>6. Tokens'
    BY <1>1, <1>2, <1>5, TokensKept DEF hostVars
  <1>7. RxT' /\ RxTokens'
    <2>1. CASE RxSync
      BY <1>1, <2>1 DEF RxSync, RxT, RxTokens
    <2>2. CASE RxProto
      <3>1. hostSent' \in 0 .. MaxFrames /\ hostSent' \in HostMsgs
        BY <1>1, <2>2, FramerAssumption DEF RxProto, RxT, HostMsgs
      <3>2. incoming' \in Frames /\ OwnToken(incoming)' /\ incoming'.Length \in Lengths
        <4> DEFINE f == incoming'
                   m == hostSent'
        <4>1. m \in HostMsgs /\ f \in HostFrames(m)
          BY <2>2, <3>1 DEF RxProto
        <4> HIDE DEF f, m
        <4>2. f \in Frames /\ OwnToken(f) /\ f.Length \in Lengths
          BY <4>1, HostFrame
        <4> QED BY <4>2 DEF f, OwnToken
      <3>3. odd' \subseteq {"empty", "long"} /\ odd' \subseteq Lengths
        BY <1>1, <2>2, <3>2 DEF RxProto, RxT
      <3>4. UNCHANGED <<gMsgRcvTbl, gRxHeadIndex, gRxTailIndex, rcv, spoiled>> /\ gRxState' = "BODY"
        BY <2>2 DEF RxProto
      <3> QED BY <1>1, <3>1, <3>2, <3>3, <3>4 DEF RxT, RxTokens
    <2>3. CASE RxNotAPacket
      BY <1>1, <2>3 DEF RxNotAPacket, RxT, RxTokens
    <2>4. CASE RxGoodFrame
      <3> DEFINE e == IF incoming.Length = "empty" THEN Nothing ELSE incoming
      <3>1. /\ gMsgRcvTbl' = [gMsgRcvTbl EXCEPT ![gRxHeadIndex] = e]
            /\ e \in Frames \union {Nothing} /\ (e # Nothing => OwnToken(e))
        BY <1>1, <2>4 DEF RxGoodFrame, RxT, RxTokens
      <3> HIDE DEF e
      <3>2. /\ gMsgRcvTbl' \in [RxSlots -> Frames \union {Nothing}]
            /\ \A s \in RxSlots : gMsgRcvTbl'[s] # Nothing => OwnToken(gMsgRcvTbl'[s])
        BY <1>1, <3>1 DEF RxT, RxTokens
      <3>3. gRxHeadIndex' \in RxSlots
        BY <1>1, <2>4, Slots DEF RxGoodFrame, RxT
      <3>4. gRxState' \in {"NOSYNC", "PROTO"}
        BY <2>4 DEF RxGoodFrame, SyncState
      <3>5. UNCHANGED <<gRxTailIndex, hostSent, rcv, odd, spoiled>> /\ incoming' = Nothing
        BY <2>4 DEF RxGoodFrame
      <3> QED BY <1>1, <3>2, <3>3, <3>4, <3>5 DEF RxT, RxTokens, OwnToken
    <2>5. CASE RxBadFrame \/ RxLongFrame
      <3>1. /\ gMsgRcvTbl' = [gMsgRcvTbl EXCEPT ![gRxHeadIndex] = Nothing]
            /\ UNCHANGED <<gRxHeadIndex, gRxTailIndex, hostSent, rcv, odd>>
            /\ incoming' = Nothing /\ gRxState' \in {"PROTO", "NOSYNC"}
        BY <2>5 DEF RxBadFrame, RxLongFrame
      <3>2. spoiled' \in BOOLEAN
        BY <1>1, <2>5 DEF RxBadFrame, RxLongFrame, RxT
      <3>3. /\ gMsgRcvTbl' \in [RxSlots -> Frames \union {Nothing}]
            /\ \A s \in RxSlots : gMsgRcvTbl'[s] # Nothing => OwnToken(gMsgRcvTbl'[s])
        BY <1>1, <3>1 DEF RxT, RxTokens
      <3> QED BY <1>1, <3>1, <3>2, <3>3 DEF RxT, RxTokens, OwnToken
    <2> QED BY <2>1, <2>2, <2>3, <2>4, <2>5
  <1> QED BY <1>3, <1>5, <1>6, <1>7, SoundParts

LEMMA SoundRadioReceive ==
  ASSUME Sound, RadioReceive PROVE Sound'
  <1>1. TxT /\ RxT /\ RxTokens /\ TasksT /\ UartT /\ RadioT /\ Tokens /\ OnAir
    BY DEF Sound, Types
  <1>2. UNCHANGED <<tx, wire, rxVars, hostVars, errors, radioVars>>
    BY DEF RadioReceive
  <1>3. TxT' /\ RxT' /\ RxTokens' /\ RadioT' /\ OnAir' /\ Taken' = Taken
    BY <1>1, <1>2, RxKept, RadioKept DEF TxT
  <1>4. /\ heard' \in 0 .. MaxHeard /\ heard' \in HeardMsgs
        /\ tasks' = tasks \/ tasks' = Posted(tasks, <<"UARTSendTask">>)
    BY <1>1, BaseAssumption DEF RadioReceive, UartT, HeardMsgs
  <1>5. TasksT' /\ (Waits("PacketSent")' => Waits("PacketSent"))
    BY <1>1, <1>4, PostStep, SameTasks DEF TasksT, TaskKinds
  <1>6. Tokens'
    BY <1>1, <1>2, <1>3, <1>5, TokensKept DEF hostVars
  <1>7. UartT'
    <2>1. CASE Len(uartQueue) < UART_QUEUE_LEN
      <3>1. uartQueue' = Append(uartQueue, heard') /\ uartBusy' \in BOOLEAN
        BY <1>1, <2>1 DEF RadioReceive, UartT, CanPost
      <3>2. uartQueue' \in Seq(HeardMsgs) /\ Len(uartQueue') = Len(uartQueue) + 1
        <4> DEFINE x == heard'
        <4>1. x \in HeardMsgs
          BY <1>4
        <4> HIDE DEF x
        <4>2. Append(uartQueue, x) \in Seq(HeardMsgs) /\ Len(Append(uartQueue, x)) = Len(uartQueue) + 1
          BY <1>1, <4>1, AppendFacts DEF UartT
        <4> QED BY <3>1, <4>2 DEF x
      <3>3. Len(uartQueue) \in Nat /\ UART_QUEUE_LEN \in Nat
        BY <1>1, BaseAssumption DEF UartT
      <3> QED BY <1>4, <2>1, <3>1, <3>2, <3>3 DEF UartT
    <2>2. CASE ~(Len(uartQueue) < UART_QUEUE_LEN)
      <3>1. uartQueue' = uartQueue /\ uartBusy' = uartBusy
        BY <2>2 DEF RadioReceive
      <3> QED BY <1>1, <1>4, <3>1 DEF UartT
    <2> QED BY <2>1, <2>2
  <1> QED BY <1>3, <1>5, <1>6, <1>7 DEF Sound, Types

LEMMA SoundUARTSendTask ==
  ASSUME Sound, UARTSendTask PROVE Sound'
  <1>1. TxT /\ RxT /\ RxTokens /\ TasksT /\ UartT /\ RadioT /\ Tokens /\ OnAir
    BY DEF Sound, Types
  <1>2. UNCHANGED <<wire, rxVars, hostVars, errors, uartQueue, heard, radioVars>>
    BY DEF UARTSendTask
  <1>3. RxT' /\ RxTokens' /\ RadioT' /\ OnAir' /\ Taken' = Taken
    BY <1>1, <1>2, RxKept, RadioKept
  <1>4. /\ Runs("UARTSendTask")
        /\ tasks' = Tail(tasks) \/ tasks' = Posted(Tail(tasks), <<"UARTSendTask">>)
    BY DEF UARTSendTask
  <1>5. TasksT' /\ (Waits("PacketSent")' => Waits("PacketSent"))
    BY <1>1, <1>4, RunStep, RunPostStep DEF TasksT, TaskKinds
  <1>6. CASE uartQueue = << >>
    <2>1. uartBusy' = FALSE /\ tx' = tx
      BY <1>6 DEF UARTSendTask
    <2>2. Tokens'
      BY <1>1, <1>2, <1>3, <1>5, <2>1, TokensKept DEF hostVars
    <2>3. TxT' /\ UartT'
      BY <1>1, <1>2, <2>1 DEF TxT, UartT
    <2> QED BY <1>3, <1>5, <2>2, <2>3 DEF Sound, Types
  <1>7. CASE uartQueue # << >>
    <2> DEFINE m == Head(uartQueue)
    <2>1. uartBusy' = uartBusy /\ tx' = Send(tx, m) /\ m \in HeardMsgs
      BY <1>1, <1>7, QueueFacts DEF UARTSendTask, UartT
    <2> HIDE DEF m
    <2>2. /\ tx' \in TxType
          /\ \/ tx' = tx
             \/ /\ tx'.gFlags = tx.gFlags \union {"DATAPEND"}
                /\ tx'.gTxTokenBuf = tx.gTxTokenBuf
                /\ Begins(tx') \/ SameFrame(tx, tx')
      BY <1>1, <2>1, SendIs DEF TxT
    <2>3. TxT' /\ UartT'
      BY <1>1, <1>2, <2>1, <2>2 DEF TxT, UartT
    <2>4. Tokens'
      <3>1. CASE tx' = tx
        BY <1>1, <1>2, <1>3, <1>5, <3>1, TokensKept DEF hostVars
      <3>2. CASE /\ tx'.gFlags = tx.gFlags \union {"DATAPEND"}
                 /\ tx'.gTxTokenBuf = tx.gTxTokenBuf
                 /\ Begins(tx')
        BY <1>1, <1>2, <1>3, <1>5, <3>2 DEF Tokens, Pending, SentData, Begins, hostVars
      <3>3. CASE /\ tx'.gFlags = tx.gFlags \union {"DATAPEND"}
                 /\ tx'.gTxTokenBuf = tx.gTxTokenBuf
                 /\ SameFrame(tx, tx')
        BY <1>1, <1>2, <1>3, <1>5, <3>3 DEF Tokens, Pending, SentData, SameFrame, hostVars
      <3> QED BY <2>2, <3>1, <3>2, <3>3
    <2> QED BY <1>3, <1>5, <2>3, <2>4 DEF Sound, Types
  <1> QED BY <1>6, <1>7

LEMMA SoundPacketSent ==
  ASSUME Sound, PacketSent PROVE Sound'
  <1>1. TxT /\ RxT /\ RxTokens /\ TasksT /\ UartT /\ RadioT /\ Tokens /\ OnAir
    BY DEF Sound, Types
  <1>2. UNCHANGED <<wire, rxVars, hostVars, errors, uartBusy, heard, radioVars>>
    BY DEF PacketSent
  <1>3. RxT' /\ RxTokens' /\ RadioT' /\ OnAir' /\ Taken' = Taken
    BY <1>1, <1>2, RxKept, RadioKept
  <1>4. /\ Runs("PacketSent")
        /\ tx' = StartTx(AfterSent(tx))
        /\ tasks' = Tail(tasks) \/ tasks' = Posted(Tail(tasks), <<"UARTSendTask">>)
        /\ uartQueue' = uartQueue \/ uartQueue' = WithoutOldest(uartQueue)
    BY DEF PacketSent, UARTSendDone
  <1>5. /\ TasksT' /\ (Waits("PacketSent")' => Waits("PacketSent"))
        /\ Waits("PacketSent")
    BY <1>1, <1>4, RunStep, RunPostStep DEF TasksT, TaskKinds
  <1>6. UartT'
    <2>1. /\ WithoutOldest(uartQueue) \in Seq(HeardMsgs)
          /\ Len(WithoutOldest(uartQueue)) <= Len(uartQueue)
          /\ Len(uartQueue) \in Nat /\ Len(WithoutOldest(uartQueue)) \in Nat
      BY <1>1, QueueFacts DEF UartT
    <2>2. UART_QUEUE_LEN \in Nat
      BY BaseAssumption
    <2> QED BY <1>1, <1>2, <1>4, <2>1, <2>2 DEF UartT
  <1>7. /\ tx' \in TxType
        /\ tx'.gFlags = Toggled(tx.gFlags, IF SentData(tx) THEN "DATAPEND" ELSE "TOKENPEND")
        /\ tx'.gTxTokenBuf = tx.gTxTokenBuf
        /\ tx.gTxState \in {"PROTO", "FINISH"} => SameFrame(tx, tx')
        /\ tx.gTxState \in {"IDLE", "ERROR"} =>
              \/ Begins(tx')
              \/ /\ tx'.gFlags = {} /\ tx'.gTxState = "IDLE"
                 /\ tx'.gTxProto = tx.gTxProto
    BY <1>1, <1>4, AfterSentIs DEF TxT
  <1>8. TxT'
    BY <1>1, <1>2, <1>7 DEF TxT
  <1>9. Pending("TOKENPEND")' => Pending("TOKENPEND") \/ ~SentData(tx)
    BY <1>7 DEF Pending, Toggled
  <1>10. Pending("TOKENPEND")' => tx'.gTxTokenBuf # Nothing
    BY <1>1, <1>5, <1>7, <1>9 DEF Tokens
  <1>11. /\ ~SentData(tx)' /\ (tx'.gTxState # "IDLE" \/ Waits("PacketSent")') =>
              tx'.gTxTokenBuf # Nothing
         /\ ~SentData(tx)' /\ tx'.gTxState = "FINISH" => wire' \in Taken' \union {0}
    <2>1. CASE tx.gTxState \in {"PROTO", "FINISH"}
      BY <1>1, <1>2, <1>3, <1>5, <1>7, <2>1 DEF Tokens, SentData, SameFrame
    <2>2. CASE tx.gTxState \in {"IDLE", "ERROR"} /\ Begins(tx')
      BY <1>10, <2>2 DEF Pending, SentData, Begins
    <2>3. CASE tx'.gTxState = "IDLE" /\ tx'.gTxProto = tx.gTxProto
      BY <1>1, <1>5, <1>7, <2>3 DEF Tokens, SentData
    <2> QED BY <1>1, <1>7, <2>1, <2>2, <2>3 DEF TxT, TxType
  <1>12. Tokens'
    BY <1>1, <1>2, <1>3, <1>7, <1>10, <1>11 DEF Tokens, hostVars
  <1> QED BY <1>3, <1>5, <1>6, <1>8, <1>12 DEF Sound, Types

LEMMA SoundPacketRcvd ==
  ASSUME Sound, PacketRcvd PROVE Sound'
  <1>1. TxT /\ RxT /\ RxTokens /\ TasksT /\ UartT /\ RadioT /\ Tokens /\ OnAir
    BY DEF Sound, Types
  <1>2. UNCHANGED <<wire, hostVars, errors, uartVars, onAir, radioed>>
    BY DEF PacketRcvd
  <1>3. UartT'
    BY <1>1, <1>2, UartKept
  <1>4. RxT' /\ RxTokens'
    <2>1. /\ rcv' \in {"idle", "message", "empty"}
          /\ UNCHANGED <<gRxState, gMsgRcvTbl, gRxHeadIndex, gRxTailIndex, incoming, hostSent,
                         odd, spoiled>>
      BY DEF PacketRcvd, LookAtTail
    <2> QED BY <1>1, <2>1 DEF RxT, RxTokens
  <1>5. /\ Runs("PacketRcvd")
        /\ tasks' = Tail(tasks) \/ tasks' = Posted(Tail(tasks), <<"RadioSendTask">>)
    BY DEF PacketRcvd
  <1>6. TasksT' /\ (Waits("PacketSent")' => Waits("PacketSent"))
    BY <1>1, <1>5, RunStep, RunPostStep DEF TasksT, TaskKinds
  <1>7. Received \in Frames \union {Nothing}
    BY <1>1 DEF RxT, Received
  <1>8. CASE tx' = tx /\ UNCHANGED <<radioQueue, radioBusy>>
    <2>1. RadioT' /\ OnAir' /\ Taken' = Taken
      BY <1>1, <1>2, <1>8, RadioKept DEF radioVars
    <2>2. Tokens'
      BY <1>1, <1>2, <1>6, <1>8, <2>1, TokensKept DEF hostVars
    <2>3. TxT'
      BY <1>1, <1>2, <1>8 DEF TxT
    <2> QED BY <1>3, <1>4, <1>6, <2>1, <2>2, <2>3 DEF Sound, Types
  <1>9. CASE HasRadioRoom /\ Received # Nothing /\ Received.Length = "whole"
    <2> DEFINE m == Received.msg
               k == Received.token
    <2>1. /\ radioQueue' = Append(radioQueue, m) /\ radioBusy' \in BOOLEAN
          /\ tx' = tx \/ tx' = ReflectToken(tx, k)
      BY <1>1, <1>9 DEF PacketRcvd, RadioT, CanPost
    <2>2. m \in HostMsgs /\ k \in HostTokens /\ k \in {m, 0}
      BY <1>1, <1>7, <1>9, NothingElse DEF RxT, RxTokens, Received, OwnToken
    <2> HIDE DEF m, k
    <2>3. /\ radioQueue' \in Seq(HostMsgs) /\ Len(radioQueue') = Len(radioQueue) + 1
          /\ radioQueue' # << >>
          /\ Waiting(radioQueue') = Waiting(radioQueue) \union {m}
          /\ radioQueue # << >> => Head(radioQueue') = Head(radioQueue)
      <3> DEFINE q == radioQueue
                 a == Append(q, m)
      <3>1. q \in Seq(HostMsgs)
        BY <1>1 DEF RadioT
      <3> HIDE DEF q
      <3>2. /\ a \in Seq(HostMsgs) /\ Len(a) = Len(q) + 1 /\ a # << >>
            /\ Waiting(a) = Waiting(q) \union {m}
            /\ q # << >> => Head(a) = Head(q)
        BY <2>2, <3>1, AppendFacts
      <3>3. radioQueue' = a
        BY <2>1 DEF q
      <3> HIDE DEF a
      <3> QED BY <3>2, <3>3 DEF q
    <2>4. Len(radioQueue) \in Nat /\ RADIO_QUEUE_LEN \in Nat /\ Len(radioQueue) < RADIO_QUEUE_LEN
      BY <1>1, <1>9, BaseAssumption DEF RadioT, HasRadioRoom
    <2>5. RadioT' /\ OnAir'
      BY <1>1, <1>2, <2>1, <2>3, <2>4 DEF RadioT, OnAir
    <2>6. Taken' = Taken \union {m} /\ m # Nothing /\ k # Nothing
      BY <1>2, <2>2, <2>3, NothingElse DEF Taken, Waiting
    <2>7. CASE tx' = tx
      <3>1. Tokens'
        BY <1>1, <1>2, <1>6, <2>6, <2>7, TokensKept DEF hostVars
      <3>2. TxT'
        BY <1>1, <1>2, <2>7 DEF TxT
      <3> QED BY <1>3, <1>4, <1>6, <2>5, <3>1, <3>2 DEF Sound, Types
    <2>8. CASE tx' # tx
      <3>1. /\ tx' \in TxType
            /\ tx'.gTxTokenBuf = k
            /\ Begins(tx') \/ SameFrame(tx, tx')
        BY <1>1, <2>1, <2>2, <2>8, ReflectIs DEF TxT
      <3>2. TxT'
        BY <1>1, <1>2, <3>1 DEF TxT
      <3>3. ~SentData(tx)' /\ tx'.gTxState = "FINISH" => wire' \in Taken' \union {0}
        BY <1>1, <1>2, <2>6, <3>1 DEF Tokens, SentData, SameFrame, Begins
      <3>4. Tokens'
        BY <1>1, <1>2, <2>2, <2>6, <3>1, <3>3 DEF Tokens, hostVars
      <3> QED BY <1>3, <1>4, <1>6, <2>5, <3>2, <3>4 DEF Sound, Types
    <2> QED BY <2>7, <2>8
  <1> QED BY <1>8, <1>9 DEF PacketRcvd, Acknowledged

LEMMA SoundPacketRcvdEnds ==
  ASSUME Sound, PacketRcvdEnds PROVE Sound'
  <1>1. TxT /\ RxT /\ RxTokens /\ TasksT /\ UartT /\ RadioT /\ Tokens /\ OnAir
    BY DEF Sound, Types
  <1>2. UNCHANGED <<tx, wire, tasks, hostVars, errors, uartVars, radioVars>>
    BY DEF PacketRcvdEnds
  <1>3. TxT' /\ TasksT' /\ Tokens'
    <2>1. Taken' = Taken /\ (Waits("PacketSent")' <=> Waits("PacketSent"))
      BY <1>2, RadioKept, SameTasks
    <2> QED BY <1>1, <1>2, <2>1, TokensKept DEF TxT, TasksT, hostVars
  <1>4. /\ gMsgRcvTbl' = [gMsgRcvTbl EXCEPT ![gRxTailIndex] = Nothing]
        /\ gRxTailIndex' = After(gRxTailIndex)
        /\ UNCHANGED <<gRxState, gRxHeadIndex, hostSent, odd>>
        /\ rcv' = "idle" /\ spoiled' \in BOOLEAN
        /\ \/ incoming' = incoming
           \/ gRxState = "BODY" /\ incoming' = [incoming EXCEPT !.token = 0]
    BY <1>1 DEF PacketRcvdEnds, EmptyTail, RxT
  <1>5. /\ gRxTailIndex' \in RxSlots
        /\ gMsgRcvTbl' \in [RxSlots -> Frames \union {Nothing}]
        /\ \A s \in RxSlots : gMsgRcvTbl'[s] # Nothing => OwnToken(gMsgRcvTbl'[s])
    BY <1>1, <1>4, Slots DEF RxT, RxTokens
  <1>6. /\ incoming' \in Frames \union {Nothing}
        /\ gRxState' = "BODY" => incoming' \in Frames /\ OwnToken(incoming')
    <2>1. CASE incoming' = incoming
      BY <1>1, <1>4, <2>1 DEF RxT, RxTokens
    <2>2. CASE gRxState = "BODY" /\ incoming' = [incoming EXCEPT !.token = 0]
      <3>1. incoming \in Frames /\ 0 \in HostTokens
        BY <1>1, <2>2, NothingElse DEF RxT
      <3> QED BY <2>2, <3>1 DEF Frames, HostTokens, OwnToken
    <2> QED BY <1>4, <2>1, <2>2
  <1>7. RxT' /\ RxTokens'
    BY <1>1, <1>4, <1>5, <1>6 DEF RxT, RxTokens, OwnToken
  <1> QED BY <1>2, <1>3, <1>7, SoundParts

LEMMA SoundRadioSendTask ==
  ASSUME Sound, NEW accepted \in BOOLEAN, RadioSendTask(accepted) PROVE Sound'
  <1>1. TxT /\ RxT /\ RxTokens /\ TasksT /\ UartT /\ RadioT /\ Tokens /\ OnAir
    BY DEF Sound, Types
  <1>2. UNCHANGED <<tx, wire, rxVars, hostVars, errors, uartVars, radioQueue, radioed>>
    BY DEF RadioSendTask
  <1>3. TxT' /\ RxT' /\ RxTokens' /\ UartT'
    BY <1>1, <1>2, RxKept, UartKept DEF TxT
  <1>4. /\ Runs("RadioSendTask")
        /\ tasks' = Tail(tasks) \/ tasks' = Posted(Tail(tasks), <<"RadioSendTask">>)
        /\ onAir' = onAir \/ (radioQueue # << >> /\ onAir' = Head(radioQueue))
        /\ radioBusy' \in {radioBusy, FALSE}
    BY DEF RadioSendTask
  <1>5. TasksT' /\ (Waits("PacketSent")' => Waits("PacketSent"))
    BY <1>1, <1>4, RunStep, RunPostStep DEF TasksT, TaskKinds
  <1>6. Taken' = Taken
    BY <1>2 DEF Taken, Waiting
  <1>7. Tokens'
    BY <1>1, <1>2, <1>5, <1>6, TokensKept DEF hostVars
  <1>8. radioQueue # << >> => Head(radioQueue) \in HostMsgs
    BY <1>1, QueueFacts DEF RadioT
  <1>9. RadioT' /\ OnAir'
    BY <1>1, <1>2, <1>4, <1>8 DEF RadioT, OnAir
  <1> QED BY <1>3, <1>5, <1>7, <1>9 DEF Sound, Types

LEMMA SoundRadioSendDone ==
  ASSUME Sound, NEW success \in BOOLEAN, RadioSendDone(success) PROVE Sound'
  <1>1. TxT /\ RxT /\ RxTokens /\ TasksT /\ UartT /\ RadioT /\ Tokens /\ OnAir
    BY DEF Sound, Types
  <1>2. /\ UNCHANGED <<tx, wire, rxVars, hostVars, errors, uartVars, radioBusy>>
        /\ onAir # Nothing /\ onAir' = Nothing
        /\ tasks' = Posted(tasks, <<"RadioSendTask">>)
        /\ radioed' = IF success THEN radioed \union {onAir} ELSE radioed
        /\ radioQueue' = IF success THEN WithoutOldest(radioQueue) ELSE radioQueue
    BY DEF RadioSendDone
  <1>3. TxT' /\ RxT' /\ RxTokens' /\ UartT'
    BY <1>1, <1>2, RxKept, UartKept DEF TxT
  <1>4. TasksT' /\ (Waits("PacketSent")' => Waits("PacketSent"))
    BY <1>1, <1>2, PostStep DEF TasksT, TaskKinds
  <1>5. radioQueue # << >> /\ onAir = Head(radioQueue) /\ onAir \in HostMsgs
    BY <1>1, <1>2 DEF OnAir, RadioT
  <1>6. /\ WithoutOldest(radioQueue) \in Seq(HostMsgs)
        /\ Len(WithoutOldest(radioQueue)) <= Len(radioQueue)
        /\ Len(radioQueue) \in Nat /\ Len(WithoutOldest(radioQueue)) \in Nat
        /\ Waiting(radioQueue) = Waiting(WithoutOldest(radioQueue)) \union {onAir}
    BY <1>1, <1>5, QueueFacts DEF RadioT
  <1>7. RADIO_QUEUE_LEN \in Nat
    BY BaseAssumption
  <1>8. RadioT' /\ OnAir'
    BY <1>1, <1>2, <1>5, <1>6, <1>7 DEF RadioT, OnAir
  <1>9. Taken' = Taken
    <2>1. CASE success
      <3>1. Waiting(radioQueue)' = Waiting(WithoutOldest(radioQueue))
        BY <1>2, <2>1 DEF Waiting
      <3> QED BY <1>2, <1>6, <2>1, <3>1 DEF Taken
    <2>2. CASE ~success
      BY <1>2, <2>2 DEF Taken, Waiting
    <2> QED BY <2>1, <2>2
  <1>10. Tokens'
    BY <1>1, <1>2, <1>4, <1>9, TokensKept DEF hostVars
  <1> QED BY <1>3, <1>4, <1>8, <1>10 DEF Sound, Types

LEMMA SoundStep == Sound /\ [Next]_vars => Sound'
  <1> SUFFICES ASSUME Sound, [Next]_vars PROVE Sound'
    OBVIOUS
  <1>1. CASE FramerInterrupt /\ UNCHANGED <<uartVars, radioVars>>
    BY <1>1, SoundTransmits, SoundReceives DEF FramerInterrupt
  <1>2. CASE RunTask
    BY <1>2, SoundUARTSendTask, SoundPacketSent, SoundPacketRcvd, SoundPacketRcvdEnds,
              SoundRadioSendTask DEF RunTask
  <1>3. CASE RadioReceive
    BY <1>3, SoundRadioReceive
  <1>4. CASE \E success \in BOOLEAN : RadioSendDone(success)
    BY <1>4, SoundRadioSendDone
  <1>5. CASE UNCHANGED vars
    <2>1. UNCHANGED <<tx, wire, rxVars, tasks, hostVars, errors, uartVars, radioVars>>
      BY <1>5 DEF vars, framerVars
    <2>2. TxT' /\ RxT' /\ RxTokens' /\ TasksT'
      BY <2>1, RxKept DEF Sound, Types, TxT, TasksT
    <2>3. Tokens'
      BY <2>1, SameTasks, RadioKept, TokensKept DEF Sound, hostVars
    <2> QED BY <2>1, <2>2, <2>3, SoundParts
  <1> QED BY <1>1, <1>2, <1>3, <1>4, <1>5 DEF Next

-----------------------------------------------------------------------------

\* The type invariant of the base station, whatever posts fail and however late
\* tasks run (TOSBaseM and FramerM).
THEOREM BaseTypeCorrect == Spec => []BaseTypeOK
  <1>1. Sound => BaseTypeOK
    BY SoundIsTyped
  <1> QED BY <1>1, SoundInit, SoundStep, PTL DEF Spec

\* "A message is acknowledged only if it was queued": also when tasks are late,
\* posts fail, and the token waits while gTxProto is overwritten
\* (processUartPacket, ReflectToken, PacketSent).
THEOREM NeverAckedUnqueued == Spec => []AckedOnlyIfQueued
  <1>1. Sound => AckedOnlyIfQueued
    BY SoundIsTyped
  <1> QED BY <1>1, SoundInit, SoundStep, PTL DEF Spec

-----------------------------------------------------------------------------
(***************************************************************************)
(* InStep.                                                                 *)
(***************************************************************************)

\* Tasks keep up, and there is room for each of them: one of each other kind, and
\* two PacketRcvd, or as many as frames if some of them are empty.
KeepsUp == ~SlowTasks /\ TaskSlots >= 3 + (IF "empty" \in Lengths THEN MaxFrames ELSE 2)

LEMMA ToEndIs ==
  /\ ToEnd = Movers("PacketRcvd") + (IF rcv = "idle" THEN 0 ELSE 1)
  /\ ToEnd' = Movers("PacketRcvd")' + (IF rcv' = "idle" THEN 0 ELSE 1)
  BY DEF ToEnd, NoTaskRuns

LEMMA OneOrNone ==
  ASSUME NEW x, NEW F
  PROVE  /\ Cardinality(F \intersect {"DATAPEND"}) = IF "DATAPEND" \in F THEN 1 ELSE 0
         /\ Cardinality({x} \ {Nothing}) = IF x # Nothing THEN 1 ELSE 0
  <1>1. F \intersect {"DATAPEND"} = IF "DATAPEND" \in F THEN {"DATAPEND"} ELSE {}
    OBVIOUS
  <1>2. {x} \ {Nothing} = IF x # Nothing THEN {x} ELSE {}
    OBVIOUS
  <1> QED BY <1>1, <1>2, FS_EmptySet, FS_Singleton

LEMMA MoversAre ==
  /\ UartMovers = Movers("UARTSendTask") + (IF Pending("DATAPEND") THEN 1 ELSE 0)
  /\ RadioMovers = Movers("RadioSendTask") + (IF onAir # Nothing THEN 1 ELSE 0)
  BY OneOrNone DEF UartMovers, RadioMovers, Pending

LEMMA MoversArePrime ==
  /\ UartMovers' = Movers("UARTSendTask")' + (IF Pending("DATAPEND")' THEN 1 ELSE 0)
  /\ RadioMovers' = Movers("RadioSendTask")' + (IF onAir' # Nothing THEN 1 ELSE 0)
  <1> DEFINE x == onAir'
             F == tx'.gFlags
  <1>1. /\ UartMovers' = Movers("UARTSendTask")' + Cardinality(F \intersect {"DATAPEND"})
        /\ RadioMovers' = Movers("RadioSendTask")' + Cardinality({x} \ {Nothing})
        /\ Pending("DATAPEND")' <=> "DATAPEND" \in F
    BY DEF UartMovers, RadioMovers, Pending
  <1> HIDE DEF x, F
  <1>2. /\ Cardinality(F \intersect {"DATAPEND"}) = IF "DATAPEND" \in F THEN 1 ELSE 0
        /\ Cardinality({x} \ {Nothing}) = IF x # Nothing THEN 1 ELSE 0
    BY OneOrNone
  <1> QED BY <1>1, <1>2 DEF x

\* When the next post finds room.
LEMMA Room ==
  ASSUME KeepsUp, Sound, InStep
  PROVE  /\ ~Waits("PacketSent") => Len(tasks) < TaskSlots
         /\ gRxState = "BODY" => Len(tasks) < TaskSlots
         /\ onAir # Nothing \/ ~radioBusy => Len(tasks) < TaskSlots
         /\ ~uartBusy => Len(tasks) < TaskSlots
         /\ Waits("PacketRcvd") <=> Movers("PacketRcvd") # 0
         /\ Waits("UARTSendTask") => uartBusy /\ ~Pending("DATAPEND") /\ Movers("UARTSendTask") = 1
         /\ Waits("RadioSendTask") => radioBusy /\ onAir = Nothing /\ Movers("RadioSendTask") = 1
  <1>1. /\ \A u : Movers(u) \in Nat /\ (Movers(u) = 0 <=> ~Waits(u))
        /\ Len(tasks) = Movers("PacketSent") + Movers("PacketRcvd")
                          + Movers("UARTSendTask") + Movers("RadioSendTask")
    BY MoverFacts DEF Sound, Types, TasksT
  <1>2. /\ Movers("PacketSent") <= 1
        /\ Movers("UARTSendTask") + (IF Pending("DATAPEND") THEN 1 ELSE 0)
             = (IF uartBusy THEN 1 ELSE 0)
        /\ Movers("RadioSendTask") + (IF onAir # Nothing THEN 1 ELSE 0)
             = (IF radioBusy THEN 1 ELSE 0)
    BY MoversAre DEF InStep, UartOne, RadioOne
  <1> DEFINE most == IF "empty" \in Lengths THEN MaxFrames ELSE 2
  <1>3. TaskSlots \in Nat /\ most \in Nat /\ TaskSlots >= 3 + most
    BY FramerAssumption DEF KeepsUp
  <1>4. Movers("PacketRcvd") + (IF gRxState = "BODY" THEN 1 ELSE 0) <= most
    <2>1. /\ RxT /\ RxRing /\ RxExact /\ RxOdd /\ Movers("PacketRcvd") \in Nat
          /\ ToEnd \in {Movers("PacketRcvd"), Movers("PacketRcvd") + 1}
      BY <1>1, ToEndIs DEF Sound, Types, InStep, Receiver
    <2>2. CASE "empty" \in Lengths
      <3>1. ToEnd + (IF gRxState = "BODY" THEN 1 ELSE 0) <= hostSent /\ hostSent \in 0 .. MaxFrames
        BY <2>1 DEF RxOdd, RxT
      <3> QED BY <2>1, <2>2, <3>1, FramerAssumption
    <2>3. CASE "empty" \notin Lengths
      <3>1. "empty" \notin odd
        BY <2>1, <2>3 DEF RxT
      <3>2. gRxState = "BODY" => ~(IsFull(0) /\ IsFull(1))
        BY <2>1, Slots DEF RxRing, RxT, HeadIsFree, IsFull
      <3>3. ToEnd + (IF gRxState = "BODY" THEN 1 ELSE 0) <= 2
        BY <2>1, <3>1, <3>2 DEF RxExact
      <3> QED BY <2>1, <2>3, <3>3
    <2> QED BY <2>2, <2>3
  <1>5. uartBusy \in BOOLEAN /\ radioBusy \in BOOLEAN
    BY DEF Sound, Types, UartT, RadioT
  <1>6. /\ Movers("PacketSent") \in Nat /\ Movers("UARTSendTask") \in Nat
        /\ Movers("RadioSendTask") \in Nat /\ Movers("PacketRcvd") \in Nat
    BY <1>1
  <1> DEFINE ps == Movers("PacketSent")
             pr == Movers("PacketRcvd")
             us == Movers("UARTSendTask")
             rs == Movers("RadioSendTask")
             n == Len(tasks)
             body == gRxState = "BODY"
  <1>7. pr <= most /\ (body => pr < most)
    <2>1. pr + (IF body THEN 1 ELSE 0) <= most /\ pr \in Nat /\ most \in Nat
      BY <1>3, <1>6, <1>4
    <2> HIDE DEF pr, most, body
    <2> QED BY <2>1
  <1>8. n = ps + pr + us + rs /\ ps <= 1 /\ (ps = 0 <=> ~Waits("PacketSent"))
    BY <1>1, <1>2
  <1>9. /\ us + (IF Pending("DATAPEND") THEN 1 ELSE 0) = (IF uartBusy THEN 1 ELSE 0)
        /\ rs + (IF onAir # Nothing THEN 1 ELSE 0) = (IF radioBusy THEN 1 ELSE 0)
    BY <1>2
  <1> HIDE DEF ps, pr, us, rs, n, most, body
  <1>10. /\ ps \in Nat /\ pr \in Nat /\ us \in Nat /\ rs \in Nat
         /\ most \in Nat /\ TaskSlots \in Nat /\ TaskSlots >= 3 + most
    BY <1>3, <1>6 DEF ps, pr, us, rs
  <1>11. us <= 1 /\ rs <= 1
    BY <1>9, <1>10
  <1>12. /\ ps = 0 => n < TaskSlots
         /\ body => n < TaskSlots
         /\ us = 0 => n < TaskSlots
         /\ rs = 0 => n < TaskSlots
    BY <1>7, <1>8, <1>10, <1>11
  <1>13. onAir # Nothing \/ ~radioBusy => rs = 0
    BY <1>9, <1>10
  <1>14. ~uartBusy => us = 0
    BY <1>9, <1>10
  <1>15. /\ ~Waits("PacketSent") => Len(tasks) < TaskSlots
         /\ gRxState = "BODY" => Len(tasks) < TaskSlots
         /\ onAir # Nothing \/ ~radioBusy => Len(tasks) < TaskSlots
         /\ ~uartBusy => Len(tasks) < TaskSlots
    <2>1. /\ ~Waits("PacketSent") => n < TaskSlots
          /\ body => n < TaskSlots
          /\ onAir # Nothing \/ ~radioBusy => n < TaskSlots
          /\ ~uartBusy => n < TaskSlots
      BY <1>8, <1>12, <1>13, <1>14
    <2> QED BY <2>1 DEF n, body
  <1>16. Waits("UARTSendTask") => uartBusy /\ ~Pending("DATAPEND") /\ Movers("UARTSendTask") = 1
    <2>1. Waits("UARTSendTask") => Movers("UARTSendTask") # 0
      BY <1>1
    <2> QED BY <1>2, <1>6, <2>1
  <1>17. Waits("RadioSendTask") => radioBusy /\ onAir = Nothing /\ Movers("RadioSendTask") = 1
    <2>1. Waits("RadioSendTask") => Movers("RadioSendTask") # 0
      BY <1>1
    <2> QED BY <1>2, <1>6, <2>1
  <1> QED BY <1>1, <1>2, <1>15, <1>16, <1>17

\* Parts that a step leaves alone.
LEMMA UartOneKept ==
  ASSUME UartOne, UNCHANGED uartVars, Movers("UARTSendTask")' = Movers("UARTSendTask"),
         Pending("DATAPEND")' <=> Pending("DATAPEND")
  PROVE  UartOne'
  <1>1. UartMovers' = UartMovers
    BY MoversAre, MoversArePrime
  <1> QED BY <1>1 DEF UartOne, uartVars

LEMMA RadioOneKept ==
  ASSUME RadioOne, UNCHANGED radioVars, Movers("RadioSendTask")' = Movers("RadioSendTask")
  PROVE  RadioOne'
  <1>1. RadioMovers' = RadioMovers
    BY MoversAre, MoversArePrime DEF radioVars
  <1> QED BY <1>1 DEF RadioOne, radioVars

LEMMA ReceiverKept ==
  ASSUME Receiver, UNCHANGED rxVars, Movers("PacketRcvd")' = Movers("PacketRcvd")
  PROVE  Receiver'
  <1>1. ToEnd' = ToEnd
    BY ToEndIs DEF rxVars
  <1> QED BY <1>1 DEF Receiver, RxRing, RxExact, RxOdd, IsFull, HeadIsFree, rxVars

LEMMA TransmitterKept ==
  ASSUME Transmitter, UNCHANGED <<tx, wire, hostGot>>,
         Waits("PacketSent")' <=> Waits("PacketSent"), Data'
  PROVE  Transmitter'
  BY DEF Transmitter, Sending, SentData, SentWell, Pending

LEMMA InStepInit == Init => InStep
  <1> SUFFICES ASSUME Init PROVE InStep
    OBVIOUS
  <1>1. tasks = << >> /\ tasks \in Seq(TaskKinds) /\ \A u : ~Waits(u)
    BY DEF Init, FramerInit, Waits
  <1>2. \A u : Movers(u) = 0
    BY <1>1, MoverFacts
  <1>3. UartOne /\ RadioOne
    BY <1>2, MoversAre DEF Init, FramerInit, UartOne, RadioOne, Pending
  <1>4. Receiver
    <2>1. ToEnd = 0
      BY <1>2, ToEndIs DEF Init, FramerInit
    <2> QED BY <2>1, Slots DEF Init, FramerInit, Receiver, RxRing, RxExact, RxOdd, IsFull
  <1>5. Transmitter
    BY <1>1 DEF Init, FramerInit, Transmitter, Data, Sending, Pending
  <1> QED BY <1>2, <1>3, <1>4, <1>5 DEF InStep

LEMMA InStepTransmits ==
  ASSUME KeepsUp, Sound, InStep, UNCHANGED <<uartVars, radioVars>>,
         TxPayload \/ TxDone \/ TxByteFails
  PROVE  InStep'
  <1>1. /\ tx \in TxType /\ tasks \in Seq(TaskKinds) /\ Len(tasks) <= TaskSlots
        /\ Movers("PacketSent") <= 1 /\ UartOne /\ RadioOne /\ Receiver /\ Transmitter
    BY DEF Sound, Types, TxT, TasksT, InStep
  <1>2. UNCHANGED rxVars /\ UNCHANGED uartQueue
    BY DEF TxPayload, TxDone, TxByteFails, uartVars
  <1>3. \A u : Movers(u) \in Nat /\ (Movers(u) = 0 <=> ~Waits(u))
    BY <1>1, MoverFacts
  <1>4. CASE TxPayload
    <2>1. /\ tx.gTxState = "PROTO"
          /\ tx' = [tx EXCEPT !.gTxState = "FINISH"]
          /\ wire' = IF SentData(tx) THEN tx.gpTxBuf ELSE tx.gTxTokenBuf
          /\ UNCHANGED <<tasks, hostGot>>
      BY <1>4 DEF TxPayload, hostVars
    <2>2. \A u : (Waits(u)' <=> Waits(u)) /\ Movers(u)' = Movers(u)
      BY <2>1, SameTasks
    <2>3. /\ tx'.gTxState = "FINISH" /\ tx'.gFlags = tx.gFlags
          /\ tx'.gTxProto = tx.gTxProto /\ tx'.gpTxBuf = tx.gpTxBuf /\ tx'.gpTxMsg = tx.gpTxMsg
      BY <1>1, <2>1 DEF TxType
    <2>4. UartOne' /\ RadioOne' /\ Receiver'
      BY <1>1, <1>2, <2>2, <2>3, UartOneKept, RadioOneKept, ReceiverKept DEF Pending
    <2>5. Transmitter'
      BY <1>1, <1>2, <2>1, <2>2, <2>3
         DEF Transmitter, Data, Sending, SentData, SentWell, Pending
    <2> QED BY <1>1, <2>2, <2>4, <2>5 DEF InStep
  <1>5. CASE TxDone \/ TxByteFails
    <2>1. ~Waits("PacketSent")
      BY <1>5 DEF TxDone, TxByteFails, InTime, KeepsUp, Waits
    <2>2. /\ \E s \in {"IDLE", "ERROR"} : tx' = [tx EXCEPT !.gTxState = s]
          /\ tasks' = Posted(tasks, <<"PacketSent">>)
      BY <1>5 DEF TxDone, TxByteFails
    <2>3. Len(tasks) < TaskSlots
      BY <2>1, Room
    <2>4. \A u : Movers(u)' = Movers(u) + (IF u = "PacketSent" THEN 1 ELSE 0)
      BY <1>1, <2>2, <2>3, PostStep DEF TaskKinds
    <2>5. Movers("PacketSent")' = 1
      BY <1>3, <2>1, <2>4
    <2>6. Waits("PacketSent")'
      <3>1. tasks' \in Seq(TaskKinds)
        BY <1>1, <2>2, PostStep DEF TaskKinds
      <3> QED BY <2>5, <3>1, MoverFactsPrime
    <2>7. /\ Movers("UARTSendTask")' = Movers("UARTSendTask")
          /\ Movers("RadioSendTask")' = Movers("RadioSendTask")
          /\ Movers("PacketRcvd")' = Movers("PacketRcvd")
      BY <1>3, <2>4
    <2>8. /\ tx'.gTxState \in {"IDLE", "ERROR"} /\ tx'.gFlags = tx.gFlags
          /\ tx'.gTxProto = tx.gTxProto /\ tx'.gpTxBuf = tx.gpTxBuf /\ tx'.gpTxMsg = tx.gpTxMsg
      BY <1>1, <2>2 DEF TxType
    <2>9. UartOne' /\ RadioOne' /\ Receiver'
      BY <1>1, <1>2, <2>7, <2>8, UartOneKept, RadioOneKept, ReceiverKept DEF Pending
    <2>10. tx.gTxState \in {"PROTO", "FINISH"}
      BY <1>5 DEF TxDone, TxByteFails
    <2>11. SentData(tx) /\ tx'.gTxState = "IDLE" => hostGot' = tx.gpTxMsg
      <3>1. CASE TxDone
        BY <1>1, <3>1 DEF TxDone, Transmitter, Sending
      <3>2. CASE TxByteFails
        BY <1>1, <3>2 DEF TxByteFails, TxType
      <3> QED BY <1>5, <3>1, <3>2
    <2>12. Transmitter'
      BY <1>1, <1>2, <2>6, <2>8, <2>10, <2>11
         DEF Transmitter, Data, Sending, SentData, SentWell, Pending
    <2> QED BY <2>5, <2>9, <2>12 DEF InStep
  <1> QED BY <1>4, <1>5

\* A frame with a good CRC: one more run of PacketRcvd is due.
LEMMA ReceiverGood ==
  ASSUME RxT, Receiver, RxGoodFrame, ToEnd \in Nat, ToEnd' = ToEnd + 1
  PROVE  Receiver'
  <1> DEFINE e == IF incoming.Length = "empty" THEN Nothing ELSE incoming
  <1>1. /\ gRxState = "BODY" /\ HeadIsFree /\ incoming # Nothing
        /\ gMsgRcvTbl' = [gMsgRcvTbl EXCEPT ![gRxHeadIndex] = e]
        /\ gRxState' = IF gMsgRcvTbl'[gRxHeadIndex'] = Nothing THEN "PROTO" ELSE "NOSYNC"
        /\ UNCHANGED <<gRxTailIndex, hostSent, rcv, odd, spoiled>>
    BY NothingElse DEF Receiver, RxRing, RxGoodFrame, SyncState, RxT
  <1>2. /\ gRxHeadIndex \in {0, 1} /\ gRxTailIndex \in {0, 1}
        /\ gRxHeadIndex' = 1 - gRxHeadIndex
        /\ gMsgRcvTbl \in [{0, 1} -> Frames \union {Nothing}]
    BY Slots DEF RxT, RxGoodFrame
  <1>3. /\ \A s \in {0, 1} : s # gRxHeadIndex => (IsFull(s)' <=> IsFull(s))
        /\ ~IsFull(gRxHeadIndex)
        /\ gMsgRcvTbl'[gRxHeadIndex] = e
    BY <1>1, <1>2 DEF IsFull, HeadIsFree
  <1>4. "empty" \notin odd => e # Nothing
    BY <1>1 DEF Receiver, RxOdd
  <1> HIDE DEF e
  <1>5. gRxHeadIndex = (gRxTailIndex + ToEnd) % 2
    BY DEF Receiver, RxRing
  <1>6. RxRing'
    <2>1. gRxState' # "NOSYNC" => HeadIsFree'
      BY <1>1 DEF HeadIsFree
    <2>2. gRxHeadIndex' = (gRxTailIndex' + ToEnd') % 2
      BY <1>1, <1>2, <1>5
    <2>3. ToEnd' = 1 => ~IsFull(1 - gRxTailIndex)'
      <3>1. SUFFICES ASSUME ToEnd = 0 PROVE gMsgRcvTbl'[1 - gRxTailIndex] = Nothing
        BY <1>1 DEF IsFull
      <3>2. gRxHeadIndex = gRxTailIndex /\ ~IsFull(1 - gRxTailIndex)
        BY <1>2, <1>5, <3>1 DEF Receiver, RxRing
      <3> QED BY <1>2, <1>3, <3>2 DEF IsFull
    <2> QED BY <2>1, <2>2, <2>3 DEF RxRing
  <1>7. RxExact'
    <2> SUFFICES ASSUME "empty" \notin odd
                 PROVE  \/ ToEnd' = 1 /\ IsFull(gRxTailIndex)'
                        \/ ToEnd' = 2 /\ IsFull(0)' /\ IsFull(1)'
      BY <1>1 DEF RxExact
    <2>1. gMsgRcvTbl'[gRxHeadIndex] # Nothing
      BY <1>3, <1>4
    <2>2. CASE ToEnd = 0
      <3>1. gRxHeadIndex = gRxTailIndex
        BY <1>2, <1>5, <2>2
      <3> QED BY <1>1, <2>1, <2>2, <3>1 DEF IsFull
    <2>3. CASE ToEnd = 1 /\ IsFull(gRxTailIndex)
      BY <1>2, <1>3, <2>1, <2>3 DEF IsFull
    <2>4. CASE IsFull(0) /\ IsFull(1)
      BY <1>2, <1>3, <2>4
    <2> QED BY <2>2, <2>3, <2>4 DEF Receiver, RxExact
  <1>8. RxOdd'
    <2>1. gRxState' # "BODY" /\ gRxState = "BODY"
      BY <1>1
    <2>2. hostSent \in Nat
      BY DEF RxT
    <2> QED BY <1>1, <2>1, <2>2 DEF Receiver, RxOdd
  <1> QED BY <1>6, <1>7, <1>8 DEF Receiver

\* Nothing that is received before the closing flag disturbs the buffers.
LEMMA ReceiverOther ==
  ASSUME RxT, Receiver, RxSync \/ RxProto \/ RxNotAPacket \/ RxBadFrame \/ RxLongFrame,
         ToEnd \in Nat, ToEnd' = ToEnd
  PROVE  Receiver'
  <1>1. /\ gMsgRcvTbl' = gMsgRcvTbl
        /\ UNCHANGED <<gRxHeadIndex, gRxTailIndex, rcv>>
        /\ gRxState' # "NOSYNC" => HeadIsFree
    <2>1. CASE RxBadFrame \/ RxLongFrame
      <3>1. HeadIsFree
        BY <2>1 DEF RxBadFrame, RxLongFrame, Receiver, RxRing
      <3> QED BY <2>1, <3>1 DEF RxBadFrame, RxLongFrame, HeadIsFree, RxT
    <2>2. CASE RxSync \/ RxProto \/ RxNotAPacket
      BY <2>2 DEF RxSync, RxProto, RxNotAPacket, Receiver, RxRing
    <2> QED BY <2>1, <2>2
  <1>2. RxRing'
    BY <1>1 DEF Receiver, RxRing, HeadIsFree, IsFull
  <1>3. odd \subseteq odd' /\ hostSent \in Nat /\ hostSent' \in {hostSent, hostSent + 1}
    BY DEF RxSync, RxProto, RxNotAPacket, RxBadFrame, RxLongFrame, RxT
  <1>4. RxExact'
    BY <1>1, <1>3 DEF Receiver, RxExact, IsFull
  <1>5. RxOdd'
    <2>1. /\ rcv' = "empty" => "empty" \in odd'
          /\ gRxState' = "BODY" => {incoming'.Length} \intersect {"empty", "long"} \subseteq odd'
      BY <1>1, <1>3 DEF RxSync, RxProto, RxNotAPacket, RxBadFrame, RxLongFrame, Receiver, RxOdd
    <2>2. spoiled' => odd' # {}
      BY <1>3 DEF RxSync, RxProto, RxNotAPacket, RxBadFrame, RxLongFrame, Receiver, RxOdd
    <2>3. ToEnd' + (IF gRxState' = "BODY" THEN 1 ELSE 0) <= hostSent'
      <3>1. ToEnd <= hostSent
        BY <1>3 DEF Receiver, RxOdd
      <3>2. gRxState' = "BODY" => hostSent' = hostSent + 1
        BY DEF RxSync, RxProto, RxNotAPacket, RxBadFrame, RxLongFrame
      <3> QED BY <1>3, <3>1, <3>2
    <2> QED BY <2>1, <2>2, <2>3 DEF RxOdd
  <1> QED BY <1>2, <1>4, <1>5 DEF Receiver

LEMMA InStepReceives ==
  ASSUME KeepsUp, Sound, InStep, UNCHANGED <<uartVars, radioVars>>,
         RxSync \/ RxProto \/ RxNotAPacket \/ RxGoodFrame \/ RxBadFrame \/ RxLongFrame
  PROVE  InStep'
  <1>1. /\ RxT /\ tasks \in Seq(TaskKinds) /\ Len(tasks) <= TaskSlots
        /\ Movers("PacketSent") <= 1 /\ UartOne /\ RadioOne /\ Receiver /\ Transmitter
    BY DEF Sound, Types, TasksT, InStep
  <1>2. UNCHANGED <<tx, wire, hostGot, uartQueue, gRxTailIndex, rcv>>
    BY DEF RxSync, RxProto, RxNotAPacket, RxGoodFrame, RxBadFrame, RxLongFrame, hostVars, uartVars
  <1>3. \A u : Movers(u) \in Nat /\ (Movers(u) = 0 <=> ~Waits(u))
    BY <1>1, MoverFacts
  <1>4. ToEnd \in Nat
    BY <1>3, ToEndIs
  <1>5. CASE RxGoodFrame
    <2>1. tasks' = Posted(tasks, <<"PacketRcvd">>) /\ gRxState = "BODY"
      BY <1>5 DEF RxGoodFrame
    <2>2. Len(tasks) < TaskSlots
      BY <2>1, Room
    <2>3. \A u : Movers(u)' = Movers(u) + (IF u = "PacketRcvd" THEN 1 ELSE 0)
      BY <1>1, <2>1, <2>2, PostStep DEF TaskKinds
    <2>4. /\ Movers("PacketRcvd")' = Movers("PacketRcvd") + 1
          /\ \A u : u # "PacketRcvd" => Movers(u)' = Movers(u)
      BY <1>3, <2>3
    <2>5. Waits("PacketSent")' <=> Waits("PacketSent")
      <3>1. tasks' \in Seq(TaskKinds)
        BY <1>1, <2>1, PostStep DEF TaskKinds
      <3> QED BY <1>3, <2>4, <3>1, MoverFactsPrime
    <2>6. Receiver'
      <3>1. ToEnd' = ToEnd + 1
        BY <1>2, <1>3, <2>4, ToEndIs
      <3> QED BY <1>1, <1>4, <1>5, <3>1, ReceiverGood
    <2>7. UartOne' /\ RadioOne'
      BY <1>1, <1>2, <2>4, UartOneKept, RadioOneKept DEF Pending
    <2>8. Transmitter'
      BY <1>1, <1>2, <2>5, TransmitterKept DEF Transmitter, Data, Pending
    <2> QED BY <1>1, <2>4, <2>6, <2>7, <2>8 DEF InStep
  <1>6. CASE RxSync \/ RxProto \/ RxNotAPacket \/ RxBadFrame \/ RxLongFrame
    <2>1. tasks' = tasks
      BY <1>6 DEF RxSync, RxProto, RxNotAPacket, RxBadFrame, RxLongFrame
    <2>2. \A u : (Waits(u)' <=> Waits(u)) /\ Movers(u)' = Movers(u)
      BY <2>1, SameTasks
    <2>3. Receiver'
      <3>1. ToEnd' = ToEnd
        BY <1>2, <2>2, ToEndIs
      <3> QED BY <1>1, <1>4, <1>6, <3>1, ReceiverOther
    <2>4. UartOne' /\ RadioOne'
      BY <1>1, <1>2, <2>2, UartOneKept, RadioOneKept DEF Pending
    <2>5. Transmitter'
      BY <1>1, <1>2, <2>2, TransmitterKept DEF Transmitter, Data, Pending
    <2> QED BY <1>1, <2>2, <2>3, <2>4, <2>5 DEF InStep
  <1> QED BY <1>5, <1>6

LEMMA InStepRadioReceive ==
  ASSUME KeepsUp, Sound, InStep, RadioReceive PROVE InStep'
  <1>1. /\ UartT /\ heard \in 0 .. MaxHeard /\ tasks \in Seq(TaskKinds) /\ Len(tasks) <= TaskSlots
        /\ Movers("PacketSent") <= 1 /\ UartOne /\ RadioOne /\ Receiver /\ Transmitter
    BY DEF Sound, Types, UartT, TasksT, InStep
  <1>2. UNCHANGED <<tx, wire, rxVars, hostGot, radioVars>>
    BY DEF RadioReceive, hostVars
  <1>3. \A u : Movers(u) \in Nat /\ (Movers(u) = 0 <=> ~Waits(u))
    BY <1>1, MoverFacts
  <1>4. CASE ~(Len(uartQueue) < UART_QUEUE_LEN)
    <2>1. UNCHANGED <<uartQueue, uartBusy, tasks>>
      BY <1>4 DEF RadioReceive
    <2>2. \A u : (Waits(u)' <=> Waits(u)) /\ Movers(u)' = Movers(u)
      BY <2>1, SameTasks
    <2>3. RadioOne' /\ Receiver'
      BY <1>1, <1>2, <2>2, RadioOneKept, ReceiverKept
    <2>4. UartMovers' = UartMovers
      BY <1>2, <2>2, MoversAre, MoversArePrime DEF Pending
    <2>5. UartOne'
      BY <1>1, <2>1, <2>4 DEF UartOne
    <2>6. Transmitter'
      BY <1>1, <1>2, <2>1, <2>2, TransmitterKept DEF Transmitter, Data, Pending
    <2> QED BY <1>1, <2>2, <2>3, <2>5, <2>6 DEF InStep
  <1>5. CASE Len(uartQueue) < UART_QUEUE_LEN
    <2> DEFINE x == heard'
    <2>1. /\ uartQueue' = Append(uartQueue, x)
          /\ uartBusy' = (uartBusy \/ CanPost(tasks))
          /\ tasks' = IF uartBusy THEN tasks ELSE Posted(tasks, <<"UARTSendTask">>)
      BY <1>5 DEF RadioReceive
    <2>2. x \in HeardMsgs
      BY <1>1, BaseAssumption DEF RadioReceive, HeardMsgs
    <2> HIDE DEF x
    <2>3. uartQueue' # << >> /\ (uartQueue # << >> => Head(uartQueue') = Head(uartQueue))
      <3> DEFINE q == uartQueue
                 a == Append(q, x)
      <3>1. q \in Seq(HeardMsgs)
        BY <1>1 DEF UartT
      <3> HIDE DEF q
      <3>2. a # << >> /\ (q # << >> => Head(a) = Head(q))
        BY <2>2, <3>1, AppendFacts
      <3>3. uartQueue' = a
        BY <2>1 DEF q
      <3> HIDE DEF a
      <3> QED BY <3>2, <3>3 DEF q
    <2>4. ~uartBusy => Len(tasks) < TaskSlots
      BY Room
    <2>5. uartBusy' = TRUE
      BY <1>1, <2>1, <2>4 DEF CanPost, UartT
    <2>6. /\ ~uartBusy => Movers("UARTSendTask")' = Movers("UARTSendTask") + 1
          /\ uartBusy => Movers("UARTSendTask")' = Movers("UARTSendTask")
          /\ \A u : u # "UARTSendTask" => Movers(u)' = Movers(u)
          /\ tasks' \in Seq(TaskKinds)
      <3>1. CASE uartBusy
        BY <1>1, <2>1, <3>1, SameTasks
      <3>2. CASE ~uartBusy
        <4>1. tasks' = Posted(tasks, <<"UARTSendTask">>)
          BY <2>1, <3>2
        <4>2. /\ \A u : Movers(u)' = Movers(u) + (IF u = "UARTSendTask" THEN 1 ELSE 0)
              /\ tasks' \in Seq(TaskKinds)
          BY <1>1, <2>4, <3>2, <4>1, PostStep DEF TaskKinds
        <4> QED BY <1>3, <3>2, <4>2
      <3> QED BY <3>1, <3>2
    <2>7. Waits("PacketSent")' <=> Waits("PacketSent")
      BY <1>3, <2>6, MoverFactsPrime
    <2>8. UartOne'
      <3>1. Pending("DATAPEND")' <=> Pending("DATAPEND")
        BY <1>2 DEF Pending
      <3>2. /\ UartMovers = Movers("UARTSendTask") + (IF Pending("DATAPEND") THEN 1 ELSE 0)
            /\ UartMovers' = Movers("UARTSendTask")' + (IF Pending("DATAPEND") THEN 1 ELSE 0)
            /\ UartMovers = IF uartBusy THEN 1 ELSE 0
            /\ Movers("UARTSendTask") \in Nat
        BY <1>1, <1>3, <3>1, MoversAre, MoversArePrime DEF UartOne
      <3>3. UartMovers' = 1
        BY <1>1, <2>6, <3>2 DEF UartT
      <3> QED BY <2>5, <3>3 DEF UartOne
    <2>9. RadioOne' /\ Receiver'
      BY <1>1, <1>2, <2>6, RadioOneKept, ReceiverKept
    <2>10. Data'
      BY <1>1, <1>2, <2>3 DEF Transmitter, Data, Pending
    <2>11. Transmitter'
      BY <1>1, <1>2, <2>7, <2>10, TransmitterKept
    <2> QED BY <1>1, <2>6, <2>8, <2>9, <2>11 DEF InStep
  <1> QED BY <1>4, <1>5

\* A transmitter that began the frame of what is pending, with no PacketSent left.
LEMMA TransmitterBegins ==
  ASSUME Begins(tx'), Data', ~Waits("PacketSent")'
  PROVE  Transmitter'
  BY DEF Begins, Transmitter, Sending, SentData, SentWell, Pending

LEMMA TransmitterRests ==
  ASSUME tx'.gTxState = "IDLE", Data', ~Waits("PacketSent")'
  PROVE  Transmitter'
  BY DEF Transmitter, Sending, SentData, SentWell, Pending

LEMMA InStepUARTSendTask ==
  ASSUME KeepsUp, Sound, InStep, UARTSendTask PROVE InStep'
  <1>1. /\ tx \in TxType /\ UartT /\ tasks \in Seq(TaskKinds) /\ Len(tasks) <= TaskSlots
        /\ Movers("PacketSent") <= 1 /\ UartOne /\ RadioOne /\ Receiver /\ Transmitter
    BY DEF Sound, Types, TxT, UartT, TasksT, InStep
  <1>2. Runs("UARTSendTask") /\ UNCHANGED <<wire, rxVars, hostGot, uartQueue, radioVars>>
    BY DEF UARTSendTask, hostVars
  <1>3. \A u : Movers(u) \in Nat /\ (Movers(u) = 0 <=> ~Waits(u))
    BY <1>1, MoverFacts
  <1>4. Waits("UARTSendTask")
    BY <1>1, <1>2, RunsWaits
  <1>5. uartBusy /\ ~Pending("DATAPEND") /\ Movers("UARTSendTask") = 1
    BY <1>4, Room
  <1>6. tasks' = Tail(tasks)
    BY <1>5 DEF UARTSendTask, SendAccepts, Pending
  <1>7. /\ tasks' \in Seq(TaskKinds)
        /\ \A u : Movers(u) = Movers(u)' + (IF u = "UARTSendTask" THEN 1 ELSE 0)
    BY <1>1, <1>2, <1>6, RunStep
  <1>8. \A u : Movers(u)' \in Nat /\ (Movers(u)' = 0 <=> ~Waits(u)')
    BY <1>7, MoverFactsPrime
  <1>9. /\ Movers("UARTSendTask")' = 0
        /\ \A u : u # "UARTSendTask" => Movers(u)' = Movers(u)
    BY <1>3, <1>5, <1>7, <1>8
  <1>10. Waits("PacketSent")' <=> Waits("PacketSent")
    BY <1>3, <1>8, <1>9
  <1>11. RadioOne' /\ Receiver'
    BY <1>1, <1>2, <1>9, RadioOneKept, ReceiverKept
  <1>12. CASE uartQueue = << >>
    <2>1. uartBusy' = FALSE /\ tx' = tx
      BY <1>12 DEF UARTSendTask
    <2>2. ~Pending("DATAPEND")'
      BY <1>5, <2>1 DEF Pending
    <2>3. UartOne'
      BY <1>2, <1>9, <1>12, <2>1, <2>2, MoversArePrime DEF UartOne
    <2>4. Data'
      BY <2>2 DEF Data
    <2>5. Transmitter'
      BY <1>1, <1>2, <1>10, <2>1, <2>4, TransmitterKept
    <2> QED BY <1>1, <1>9, <1>11, <2>3, <2>5 DEF InStep
  <1>13. CASE uartQueue # << >>
    <2> DEFINE m == Head(uartQueue)
    <2>1. uartBusy' = uartBusy /\ tx' = Send(tx, m) /\ m \in HeardMsgs
      BY <1>1, <1>13, QueueFacts DEF UARTSendTask, UartT
    <2>2. Head(uartQueue') = m
      BY <1>2
    <2> HIDE DEF m
    <2>3. /\ tx'.gFlags = tx.gFlags \union {"DATAPEND"}
          /\ tx'.gpTxMsg = m
          /\ IF tx.gTxState = "IDLE" THEN Begins(tx') ELSE SameFrame(tx, tx')
      BY <1>1, <1>5, <2>1, SendIs DEF SendAccepts, Pending
    <2>4. Pending("DATAPEND")'
      BY <2>3 DEF Pending
    <2>5. UartOne'
      BY <1>5, <1>9, <2>1, <2>4, MoversArePrime DEF UartOne
    <2>6. Data'
      BY <1>2, <1>13, <2>2, <2>3 DEF Data
    <2>7. Sending => ~SentData(tx) /\ Pending("TOKENPEND")
      BY <1>1, <1>5 DEF Transmitter
    <2>8. Waits("PacketSent") => tx.gTxState \notin {"PROTO", "FINISH"}
      BY <1>1, <1>5 DEF Transmitter
    <2>9. Transmitter'
      <3>1. CASE tx.gTxState = "IDLE"
        <4>1. CASE ~Waits("PacketSent")
          BY <1>10, <2>3, <2>6, <3>1, <4>1, TransmitterBegins
        <4>2. CASE Waits("PacketSent")
          <5>1. ~SentData(tx)' /\ tx'.gTxState = "PROTO"
            BY <2>3, <2>7, <3>1, <4>2 DEF Begins, SentData, Sending, Pending
          <5> QED BY <2>4, <2>6, <5>1 DEF Transmitter
        <4> QED BY <4>1, <4>2
      <3>2. CASE tx.gTxState # "IDLE"
        <4>1. SameFrame(tx, tx') /\ Sending
          BY <2>3, <3>2 DEF Sending
        <4>2. ~SentData(tx)' /\ tx'.gTxState = tx.gTxState
          BY <2>7, <4>1 DEF SameFrame, SentData
        <4>3. tx'.gTxState = "ERROR" => Waits("PacketSent")'
          BY <1>1, <1>10, <4>2 DEF Transmitter
        <4> QED BY <2>4, <2>6, <4>2, <4>3 DEF Transmitter
      <3> QED BY <3>1, <3>2
    <2> QED BY <1>1, <1>9, <1>11, <2>5, <2>9 DEF InStep
  <1> QED BY <1>12, <1>13

LEMMA InStepPacketSent ==
  ASSUME KeepsUp, Sound, InStep, PacketSent PROVE InStep'
  <1>1. /\ tx \in TxType /\ UartT /\ tasks \in Seq(TaskKinds) /\ Len(tasks) <= TaskSlots
        /\ Movers("PacketSent") <= 1 /\ UartOne /\ RadioOne /\ Receiver /\ Transmitter
    BY DEF Sound, Types, TxT, UartT, TasksT, InStep
  <1>2. /\ Runs("PacketSent") /\ UNCHANGED <<wire, rxVars, hostGot, uartBusy, heard, radioVars>>
        /\ tx' = StartTx(AfterSent(tx))
    BY DEF PacketSent, hostVars
  <1>3. \A u : Movers(u) \in Nat /\ (Movers(u) = 0 <=> ~Waits(u))
    BY <1>1, MoverFacts
  <1>4. Waits("PacketSent") /\ Movers("PacketSent") = 1
    <2>1. Waits("PacketSent")
      BY <1>1, <1>2, RunsWaits
    <2> QED BY <1>1, <1>3, <2>1
  <1>5. /\ tx'.gFlags = Toggled(tx.gFlags, IF SentData(tx) THEN "DATAPEND" ELSE "TOKENPEND")
        /\ tx'.gpTxMsg = IF SentData(tx) THEN Nothing ELSE tx.gpTxMsg
        /\ tx.gTxState \in {"PROTO", "FINISH"} => SameFrame(tx, tx')
        /\ tx.gTxState \in {"IDLE", "ERROR"} => Begins(tx') \/ tx'.gTxState = "IDLE"
    BY <1>1, <1>2, AfterSentIs
  <1>6. tx.gTxState \in {"PROTO", "FINISH"} => ~SentData(tx) /\ Pending("DATAPEND")
    BY <1>1, <1>4 DEF Transmitter
  <1>7. CASE SentData(tx)
    <2>1. tasks' = Posted(Tail(tasks), <<"UARTSendTask">>)
      BY <1>7 DEF PacketSent, UARTSendDone
    <2>2. /\ tasks' \in Seq(TaskKinds)
          /\ \A u : Movers(u)' + (IF u = "PacketSent" THEN 1 ELSE 0)
                      = Movers(u) + (IF u = "UARTSendTask" THEN 1 ELSE 0)
      BY <1>1, <1>2, <2>1, RunPostStep DEF TaskKinds
    <2>3. \A u : Movers(u)' \in Nat /\ (Movers(u)' = 0 <=> ~Waits(u)')
      BY <2>2, MoverFactsPrime
    <2>4. /\ Movers("PacketSent")' = 0
          /\ Movers("UARTSendTask")' = Movers("UARTSendTask") + 1
          /\ \A u : u # "PacketSent" /\ u # "UARTSendTask" => Movers(u)' = Movers(u)
      BY <1>3, <1>4, <2>2, <2>3
    <2>5. ~Waits("PacketSent")'
      BY <2>3, <2>4
    <2>6. Pending("DATAPEND") /\ ~Pending("DATAPEND")'
      BY <1>1, <1>4, <1>5, <1>7 DEF Transmitter, Sending, Pending, Toggled
    <2>7. uartBusy /\ Movers("UARTSendTask") = 0
      BY <1>1, <1>3, <2>6, MoversAre DEF UartOne
    <2>8. UartOne'
      BY <1>2, <2>4, <2>6, <2>7, MoversArePrime DEF UartOne
    <2>9. RadioOne' /\ Receiver'
      BY <1>1, <1>2, <2>4, RadioOneKept, ReceiverKept
    <2>10. Data'
      BY <2>6 DEF Data
    <2>11. Transmitter'
      BY <1>1, <1>5, <1>6, <1>7, <2>5, <2>10, TransmitterBegins, TransmitterRests DEF TxType
    <2> QED BY <2>4, <2>8, <2>9, <2>11 DEF InStep
  <1>8. CASE ~SentData(tx)
    <2>1. tasks' = Tail(tasks) /\ uartQueue' = uartQueue
      BY <1>8 DEF PacketSent
    <2>2. /\ tasks' \in Seq(TaskKinds)
          /\ \A u : Movers(u) = Movers(u)' + (IF u = "PacketSent" THEN 1 ELSE 0)
      BY <1>1, <1>2, <2>1, RunStep
    <2>3. \A u : Movers(u)' \in Nat /\ (Movers(u)' = 0 <=> ~Waits(u)')
      BY <2>2, MoverFactsPrime
    <2>4. /\ Movers("PacketSent")' = 0
          /\ \A u : u # "PacketSent" => Movers(u)' = Movers(u)
      BY <1>3, <1>4, <2>2, <2>3
    <2>5. ~Waits("PacketSent")'
      BY <2>3, <2>4
    <2>6. /\ Pending("DATAPEND")' <=> Pending("DATAPEND")
          /\ tx'.gpTxMsg = tx.gpTxMsg
      BY <1>5, <1>8 DEF Pending, Toggled
    <2>7. UartOne'
      BY <1>1, <1>2, <2>1, <2>4, <2>6, UartOneKept DEF uartVars
    <2>8. RadioOne' /\ Receiver'
      BY <1>1, <1>2, <2>4, RadioOneKept, ReceiverKept
    <2>9. Data'
      BY <1>1, <2>1, <2>6 DEF Transmitter, Data
    <2>10. Transmitter'
      <3>1. CASE tx.gTxState \in {"IDLE", "ERROR"}
        BY <1>5, <2>5, <2>9, <3>1, TransmitterBegins, TransmitterRests
      <3>2. CASE tx.gTxState \in {"PROTO", "FINISH"}
        <4>1. /\ tx'.gTxState = tx.gTxState /\ ~SentData(tx)' /\ Pending("DATAPEND")'
          BY <1>5, <1>6, <2>6, <3>2 DEF SameFrame, SentData
        <4>2. tx'.gTxState # "ERROR"
          BY <3>2, <4>1
        <4> QED BY <2>5, <2>9, <4>1, <4>2 DEF Transmitter
      <3> QED BY <1>1, <3>1, <3>2 DEF TxType
    <2> QED BY <2>4, <2>7, <2>8, <2>10 DEF InStep
  <1> QED BY <1>7, <1>8

\* PacketRcvd looks at a buffer: the run is due until it ends.
LEMMA RingLookedAt ==
  ASSUME RxT, Receiver, PacketRcvd, ToEnd \in Nat, ToEnd # 0, ToEnd' = ToEnd
  PROVE  Receiver'
  <1>1. /\ UNCHANGED <<gRxState, gMsgRcvTbl, gRxHeadIndex, gRxTailIndex, incoming, hostSent,
                       odd, spoiled>>
        /\ rcv' = IF Received = Nothing THEN "empty" ELSE "message"
    BY DEF PacketRcvd, LookAtTail
  <1>2. RxRing' /\ RxExact'
    BY <1>1 DEF Receiver, RxRing, RxExact, HeadIsFree, IsFull
  <1>3. rcv' = "empty" => "empty" \in odd
    <2>1. gRxTailIndex \in {0, 1}
      BY Slots DEF RxT
    <2> QED BY <1>1, <2>1 DEF Receiver, RxExact, IsFull, Received
  <1>4. RxOdd'
    BY <1>1, <1>3 DEF Receiver, RxOdd
  <1> QED BY <1>2, <1>4 DEF Receiver

\* The end of PacketRcvd takes one buffer out of the ring.
LEMMA RingEmptied ==
  ASSUME RxT, Receiver, EmptyTail, ToEnd \in Nat, ToEnd # 0, ToEnd' = ToEnd - 1
  PROVE  Receiver'
  <1>1. /\ gRxHeadIndex \in {0, 1} /\ gRxTailIndex \in {0, 1}
        /\ gMsgRcvTbl \in [{0, 1} -> Frames \union {Nothing}]
        /\ gMsgRcvTbl' = [gMsgRcvTbl EXCEPT ![gRxTailIndex] = Nothing]
        /\ gRxTailIndex' = 1 - gRxTailIndex
        /\ UNCHANGED <<gRxHeadIndex, gRxState, hostSent, odd>>
        /\ rcv' = "idle"
    BY Slots DEF RxT, EmptyTail
  <1>2. \A s \in {0, 1} : IsFull(s)' <=> IsFull(s) /\ s # gRxTailIndex
    BY <1>1 DEF IsFull
  <1>3. ToEnd = 1 \/ ToEnd = 2 \/ ToEnd > 2
    OBVIOUS
  <1>4. gRxHeadIndex = (gRxTailIndex + ToEnd) % 2
    BY DEF Receiver, RxRing
  <1>5. RxRing'
    <2>1. gRxState' # "NOSYNC" => HeadIsFree'
      BY <1>1 DEF Receiver, RxRing, HeadIsFree
    <2>2. gRxHeadIndex' = (gRxTailIndex' + ToEnd') % 2
      BY <1>1, <1>4
    <2>3. ToEnd' = 0 => ~IsFull(0)' /\ ~IsFull(1)'
      <3>1. ToEnd = 1 => ~IsFull(1 - gRxTailIndex)
        BY DEF Receiver, RxRing
      <3> QED BY <1>1, <1>2, <3>1
    <2>4. ~IsFull(1 - gRxTailIndex)'
      BY <1>1 DEF IsFull
    <2> QED BY <2>1, <2>2, <2>3, <2>4 DEF RxRing
  <1>6. RxExact'
    <2> SUFFICES ASSUME "empty" \notin odd
                 PROVE  \/ ToEnd' = 0
                        \/ ToEnd' = 1 /\ IsFull(gRxTailIndex)'
      BY <1>1 DEF RxExact
    <2>1. CASE ToEnd = 1
      BY <2>1
    <2>2. CASE ToEnd = 2 /\ IsFull(0) /\ IsFull(1)
      <3>1. gMsgRcvTbl'[gRxTailIndex'] # Nothing
        BY <1>1, <2>2 DEF IsFull
      <3> QED BY <2>2, <3>1 DEF IsFull
    <2> QED BY <2>1, <2>2 DEF Receiver, RxExact
  <1>7. incoming' # incoming => "empty" \in odd
    <2> SUFFICES ASSUME gRxState = "BODY", gRxHeadIndex = gRxTailIndex, "empty" \notin odd
                 PROVE  FALSE
      BY DEF EmptyTail
    <2>1. ~IsFull(gRxHeadIndex)
      BY DEF Receiver, RxRing, HeadIsFree, IsFull
    <2>2. ToEnd = 1
      BY <1>1, <2>1 DEF Receiver, RxExact
    <2> QED BY <1>1, <1>4, <2>2
  <1>8. RxOdd'
    <2>1. spoiled' => odd' # {}
      BY <1>1, <1>7 DEF EmptyTail, Receiver, RxOdd
    <2>2. gRxState' = "BODY" => {incoming'.Length} \intersect {"empty", "long"} \subseteq odd'
      <3>1. gRxState = "BODY" => incoming'.Length = incoming.Length
        BY DEF EmptyTail, RxT, Frames
      <3> QED BY <1>1, <3>1 DEF Receiver, RxOdd
    <2>3. ToEnd' + (IF gRxState' = "BODY" THEN 1 ELSE 0) <= hostSent'
      <3>1. hostSent \in Nat
        BY DEF RxT
      <3> QED BY <1>1, <3>1 DEF Receiver, RxOdd
    <2> QED BY <1>1, <2>1, <2>2, <2>3 DEF RxOdd
  <1> QED BY <1>5, <1>6, <1>8 DEF Receiver

\* An acknowledgement that is asked for does not disturb what is under way.
LEMMA TransmitterReflects ==
  ASSUME tx \in TxType, Transmitter, NEW m \in HostTokens,
         tx' = tx \/ tx' = ReflectToken(tx, m),
         UNCHANGED <<wire, hostGot, uartQueue>>,
         Waits("PacketSent")' <=> Waits("PacketSent")
  PROVE  Transmitter' /\ (Pending("DATAPEND")' <=> Pending("DATAPEND"))
  <1>1. CASE tx' = tx
    BY <1>1, TransmitterKept DEF Transmitter, Data, Pending
  <1>2. CASE tx' # tx
    <2>1. /\ ~Pending("TOKENPEND")
          /\ tx'.gFlags = tx.gFlags \union {"TOKENPEND"}
          /\ tx'.gpTxMsg = tx.gpTxMsg
          /\ IF tx.gTxState = "IDLE" THEN Begins(tx') ELSE SameFrame(tx, tx')
      BY <1>2, ReflectIs DEF Pending
    <2>2. (Pending("DATAPEND")' <=> Pending("DATAPEND")) /\ Pending("TOKENPEND")'
      BY <2>1 DEF Pending
    <2>3. Data'
      BY <2>1, <2>2 DEF Transmitter, Data
    <2>4. Transmitter'
      <3>1. CASE tx.gTxState = "IDLE"
        <4>1. tx'.gTxState = "PROTO" /\ ~SentData(tx)'
          BY <2>1, <2>2, <3>1 DEF Begins, SentData, Pending
        <4>2. Waits("PacketSent") => Pending("DATAPEND")
          BY <2>1 DEF Transmitter, Sending
        <4> QED BY <2>2, <2>3, <4>1, <4>2 DEF Transmitter
      <3>2. CASE tx.gTxState # "IDLE"
        <4>1. /\ tx'.gTxState = tx.gTxState /\ (SentData(tx)' <=> SentData(tx))
              /\ tx'.gpTxBuf = tx.gpTxBuf
          BY <2>1, <3>2 DEF SameFrame, SentData
        <4>2. (Sending' <=> Sending) /\ (SentWell(tx)' <=> SentWell(tx))
          BY <4>1 DEF Sending, SentWell
        <4> QED BY <2>1, <2>2, <2>3, <4>1, <4>2 DEF Transmitter
      <3> QED BY <3>1, <3>2
    <2> QED BY <2>2, <2>4
  <1> QED BY <1>1, <1>2

LEMMA InStepPacketRcvd ==
  ASSUME KeepsUp, Sound, InStep, PacketRcvd PROVE InStep'
  <1>1. /\ tx \in TxType /\ RxT /\ RadioT /\ tasks \in Seq(TaskKinds) /\ Len(tasks) <= TaskSlots
        /\ Movers("PacketSent") <= 1 /\ UartOne /\ RadioOne /\ Receiver /\ Transmitter
    BY DEF Sound, Types, TxT, TasksT, InStep
  <1>2. Runs("PacketRcvd") /\ UNCHANGED <<wire, hostGot, uartVars, onAir, radioed>>
    BY DEF PacketRcvd, hostVars
  <1>3. \A u : Movers(u) \in Nat /\ (Movers(u) = 0 <=> ~Waits(u))
    BY <1>1, MoverFacts
  <1>4. Waits("PacketRcvd") /\ Movers("PacketRcvd") # 0
    BY <1>1, <1>2, <1>3, RunsWaits
  <1> DEFINE takes == Received # Nothing /\ Received.Length = "whole"
             posts == HasRadioRoom /\ takes /\ ~radioBusy
  <1>5. tasks' = IF posts THEN Posted(Tail(tasks), <<"RadioSendTask">>) ELSE Tail(tasks)
    BY DEF PacketRcvd
  <1>6. /\ tasks' \in Seq(TaskKinds)
        /\ \A u : Movers(u) + (IF posts /\ u = "RadioSendTask" THEN 1 ELSE 0)
                    = Movers(u)' + (IF u = "PacketRcvd" THEN 1 ELSE 0)
    <2> HIDE DEF posts
    <2>1. CASE posts
      <3>1. /\ tasks' \in Seq(TaskKinds)
            /\ \A u : Movers(u)' + (IF u = "PacketRcvd" THEN 1 ELSE 0)
                        = Movers(u) + (IF u = "RadioSendTask" THEN 1 ELSE 0)
        BY <1>1, <1>2, <1>5, <2>1, RunPostStep DEF TaskKinds
      <3> QED BY <2>1, <3>1
    <2>2. CASE ~posts
      <3>1. /\ tasks' \in Seq(TaskKinds)
            /\ \A u : Movers(u) = Movers(u)' + (IF u = "PacketRcvd" THEN 1 ELSE 0)
        BY <1>1, <1>2, <1>5, <2>2, RunStep
      <3>2. \A u : Movers(u) + 0 = Movers(u)
        BY <1>3
      <3> QED BY <2>2, <3>1, <3>2
    <2> QED BY <2>1, <2>2
  <1>7. \A u : Movers(u)' \in Nat /\ (Movers(u)' = 0 <=> ~Waits(u)')
    BY <1>6, MoverFactsPrime
  <1>8. /\ Movers("PacketRcvd")' = Movers("PacketRcvd") - 1
        /\ Movers("PacketSent")' = Movers("PacketSent")
        /\ Movers("UARTSendTask")' = Movers("UARTSendTask")
        /\ posts => Movers("RadioSendTask")' = Movers("RadioSendTask") + 1
        /\ ~posts => Movers("RadioSendTask")' = Movers("RadioSendTask")
    <2> HIDE DEF posts
    <2> QED BY <1>3, <1>6, <1>7
  <1>9. Waits("PacketSent")' <=> Waits("PacketSent")
    BY <1>3, <1>7, <1>8
  <1>10. Receiver'
    <2>1. rcv = "idle" /\ rcv' # "idle"
      BY <1>2 DEF PacketRcvd, LookAtTail, Runs, NoTaskRuns
    <2>2. /\ ToEnd = Movers("PacketRcvd") /\ ToEnd' = Movers("PacketRcvd")' + 1
          /\ Movers("PacketRcvd") \in Nat
      BY <1>3, <2>1, ToEndIs
    <2>3. ToEnd \in Nat /\ ToEnd # 0 /\ ToEnd' = ToEnd
      BY <1>4, <1>8, <2>2
    <2> QED BY <1>1, <2>3, RingLookedAt
  <1>11. takes => Received.token \in HostTokens
    BY <1>1, NothingElse, Slots DEF RxT, Received, Frames, HostTokens
  <1>12. Transmitter' /\ (Pending("DATAPEND")' <=> Pending("DATAPEND"))
    <2>1. \/ tx' = tx
          \/ takes /\ tx' = ReflectToken(tx, Received.token)
      BY DEF PacketRcvd
    <2>2. PICK m \in HostTokens : tx' = tx \/ tx' = ReflectToken(tx, m)
      <3>1. 0 \in HostTokens
        BY FramerAssumption DEF HostTokens
      <3> HIDE DEF takes
      <3> QED BY <1>11, <2>1, <3>1
    <2> QED BY <1>1, <1>2, <1>9, <2>2, TransmitterReflects DEF uartVars
  <1>13. UartOne'
    BY <1>1, <1>2, <1>8, <1>12, UartOneKept
  <1>14. RadioOne'
    <2>1. /\ RadioMovers = Movers("RadioSendTask") + (IF onAir # Nothing THEN 1 ELSE 0)
          /\ RadioMovers' = Movers("RadioSendTask")' + (IF onAir # Nothing THEN 1 ELSE 0)
          /\ Movers("RadioSendTask") \in Nat
      BY <1>2, <1>3, MoversAre, MoversArePrime
    <2>2. CASE posts
      <3>1. radioBusy' = TRUE
        BY <1>1, <1>2, <2>2, TailHasRoom DEF PacketRcvd, RadioT
      <3>2. RadioMovers = 0
        BY <1>1, <2>2 DEF RadioOne
      <3>3. RadioMovers' = 1
        <4> HIDE DEF posts
        <4> QED BY <1>8, <2>1, <2>2, <3>2
      <3> QED BY <3>1, <3>3 DEF RadioOne
    <2>3. CASE ~posts
      <3>1. RadioMovers' = RadioMovers
        <4> HIDE DEF posts
        <4> QED BY <1>8, <2>1, <2>3
      <3>2. radioBusy' = radioBusy /\ (radioBusy \/ radioQueue' = radioQueue)
        BY <1>1, <2>3 DEF PacketRcvd, RadioT
      <3> QED BY <1>1, <3>1, <3>2 DEF RadioOne
    <2> QED BY <2>2, <2>3
  <1> QED BY <1>1, <1>8, <1>10, <1>12, <1>13, <1>14 DEF InStep

LEMMA InStepPacketRcvdEnds ==
  ASSUME KeepsUp, Sound, InStep, PacketRcvdEnds PROVE InStep'
  <1>1. /\ RxT /\ tasks \in Seq(TaskKinds)
        /\ Movers("PacketSent") <= 1 /\ UartOne /\ RadioOne /\ Receiver /\ Transmitter
    BY DEF Sound, Types, TasksT, InStep
  <1>2. EmptyTail /\ UNCHANGED <<tx, wire, tasks, hostGot, uartVars, radioVars>>
    BY DEF PacketRcvdEnds, hostVars
  <1>3. \A u : (Waits(u)' <=> Waits(u)) /\ Movers(u)' = Movers(u)
    BY <1>2, SameTasks
  <1>4. Receiver'
    <2>1. rcv # "idle" /\ rcv' = "idle"
      BY <1>2 DEF EmptyTail
    <2>2. /\ ToEnd = Movers("PacketRcvd") + 1 /\ ToEnd' = Movers("PacketRcvd")
          /\ Movers("PacketRcvd") \in Nat
      BY <1>1, <1>3, <2>1, ToEndIs, MoverFacts
    <2>3. ToEnd \in Nat /\ ToEnd # 0 /\ ToEnd' = ToEnd - 1
      BY <2>2
    <2> QED BY <1>1, <1>2, <2>3, RingEmptied
  <1>5. UartOne' /\ RadioOne'
    BY <1>1, <1>2, <1>3, UartOneKept, RadioOneKept DEF Pending
  <1>6. Transmitter'
    BY <1>1, <1>2, <1>3, TransmitterKept DEF Transmitter, Data, Pending, uartVars
  <1> QED BY <1>1, <1>3, <1>4, <1>5, <1>6 DEF InStep

LEMMA InStepRadioSendTask ==
  ASSUME KeepsUp, Sound, InStep, NEW accepted \in BOOLEAN, RadioSendTask(accepted)
  PROVE  InStep'
  <1>1. /\ RadioT /\ tasks \in Seq(TaskKinds) /\ Len(tasks) <= TaskSlots
        /\ Movers("PacketSent") <= 1 /\ UartOne /\ RadioOne /\ Receiver /\ Transmitter
    BY DEF Sound, Types, TasksT, InStep
  <1>2. /\ Runs("RadioSendTask")
        /\ UNCHANGED <<tx, wire, rxVars, hostGot, uartVars, radioQueue, radioed>>
    BY DEF RadioSendTask, hostVars
  <1>3. \A u : Movers(u) \in Nat /\ (Movers(u) = 0 <=> ~Waits(u))
    BY <1>1, MoverFacts
  <1>4. radioBusy /\ onAir = Nothing /\ Movers("RadioSendTask") = 1
    BY <1>1, <1>2, RunsWaits, Room
  <1> DEFINE again == radioQueue # << >> /\ ~accepted
  <1>5. /\ tasks' = IF again THEN Posted(Tail(tasks), <<"RadioSendTask">>) ELSE Tail(tasks)
        /\ again => onAir' = onAir /\ radioBusy' = radioBusy
        /\ ~again => IF radioQueue = << >> THEN radioBusy' = FALSE /\ onAir' = onAir
                     ELSE radioBusy' = radioBusy /\ onAir' = Head(radioQueue)
    BY DEF RadioSendTask
  <1>6. radioQueue # << >> => Head(radioQueue) # Nothing
    BY <1>1, QueueFacts, NothingElse DEF RadioT
  <1>7. /\ tasks' \in Seq(TaskKinds)
        /\ \A u : u # "RadioSendTask" => Movers(u)' = Movers(u)
        /\ Movers("RadioSendTask")' = IF again THEN 1 ELSE 0
    <2> HIDE DEF again
    <2>1. CASE again
      <3>1. /\ tasks' \in Seq(TaskKinds)
            /\ \A u : Movers(u)' + (IF u = "RadioSendTask" THEN 1 ELSE 0)
                        = Movers(u) + (IF u = "RadioSendTask" THEN 1 ELSE 0)
        BY <1>1, <1>2, <1>5, <2>1, RunPostStep DEF TaskKinds
      <3>2. \A u : Movers(u)' \in Nat
        BY <3>1, MoverFactsPrime
      <3> QED BY <1>3, <1>4, <2>1, <3>1, <3>2
    <2>2. CASE ~again
      <3>1. /\ tasks' \in Seq(TaskKinds)
            /\ \A u : Movers(u) = Movers(u)' + (IF u = "RadioSendTask" THEN 1 ELSE 0)
        BY <1>1, <1>2, <1>5, <2>2, RunStep
      <3>2. \A u : Movers(u)' \in Nat
        BY <3>1, MoverFactsPrime
      <3> QED BY <1>3, <1>4, <2>2, <3>1, <3>2
    <2> QED BY <2>1, <2>2
  <1>8. Waits("PacketSent")' <=> Waits("PacketSent")
    BY <1>3, <1>7, MoverFactsPrime
  <1>9. UartOne' /\ Receiver'
    BY <1>1, <1>2, <1>7, UartOneKept, ReceiverKept DEF Pending
  <1>10. Transmitter'
    BY <1>1, <1>2, <1>8, TransmitterKept DEF Transmitter, Data, Pending, uartVars
  <1>11. RadioOne'
    <2>1. RadioMovers' = Movers("RadioSendTask")' + (IF onAir' # Nothing THEN 1 ELSE 0)
      BY MoversArePrime
    <2>2. RadioMovers' = (IF radioBusy' THEN 1 ELSE 0)
      <3> DEFINE n == Movers("RadioSendTask")'
      <3>1. CASE again
        <4>1. n = 1 /\ onAir' = Nothing /\ radioBusy'
          BY <1>4, <1>5, <1>7, <3>1
        <4> HIDE DEF n
        <4> QED BY <2>1, <4>1 DEF n
      <3>2. CASE ~again /\ radioQueue = << >>
        <4>1. n = 0 /\ onAir' = Nothing /\ ~radioBusy'
          BY <1>4, <1>5, <1>7, <3>2
        <4> HIDE DEF n
        <4> QED BY <2>1, <4>1 DEF n
      <3>3. CASE ~again /\ radioQueue # << >>
        <4>1. n = 0 /\ onAir' # Nothing /\ radioBusy'
          BY <1>4, <1>5, <1>6, <1>7, <3>3
        <4> HIDE DEF n
        <4> QED BY <2>1, <4>1 DEF n
      <3> QED BY <3>1, <3>2, <3>3
    <2>3. radioQueue' # << >> => radioBusy'
      BY <1>2, <1>4, <1>5
    <2> QED BY <2>2, <2>3 DEF RadioOne
  <1> QED BY <1>1, <1>7, <1>9, <1>10, <1>11 DEF InStep

LEMMA InStepRadioSendDone ==
  ASSUME KeepsUp, Sound, InStep, NEW success \in BOOLEAN, RadioSendDone(success)
  PROVE  InStep'
  <1>1. /\ RadioT /\ OnAir /\ tasks \in Seq(TaskKinds) /\ Len(tasks) <= TaskSlots
        /\ Movers("PacketSent") <= 1 /\ UartOne /\ RadioOne /\ Receiver /\ Transmitter
    BY DEF Sound, Types, TasksT, InStep
  <1>2. /\ onAir # Nothing /\ onAir' = Nothing /\ radioBusy' = radioBusy
        /\ tasks' = Posted(tasks, <<"RadioSendTask">>)
        /\ UNCHANGED <<tx, wire, rxVars, hostGot, uartVars>>
    BY DEF RadioSendDone, hostVars
  <1>3. \A u : Movers(u) \in Nat /\ (Movers(u) = 0 <=> ~Waits(u))
    BY <1>1, MoverFacts
  <1>4. Len(tasks) < TaskSlots
    BY <1>2, Room
  <1>5. /\ tasks' \in Seq(TaskKinds)
        /\ \A u : Movers(u)' = Movers(u) + (IF u = "RadioSendTask" THEN 1 ELSE 0)
    BY <1>1, <1>2, <1>4, PostStep DEF TaskKinds
  <1>6. /\ \A u : u # "RadioSendTask" => Movers(u)' = Movers(u)
        /\ Movers("RadioSendTask")' = Movers("RadioSendTask") + 1
    BY <1>3, <1>5
  <1>7. Waits("PacketSent")' <=> Waits("PacketSent")
    BY <1>3, <1>5, <1>6, MoverFactsPrime
  <1>8. UartOne' /\ Receiver'
    BY <1>1, <1>2, <1>6, UartOneKept, ReceiverKept DEF Pending
  <1>9. Transmitter'
    BY <1>1, <1>2, <1>7, TransmitterKept DEF Transmitter, Data, Pending, uartVars
  <1>10. RadioOne'
    <2>1. /\ RadioMovers = Movers("RadioSendTask") + 1
          /\ RadioMovers' = Movers("RadioSendTask")' + 0
      BY <1>2, MoversAre, MoversArePrime
    <2>2. radioBusy
      BY <1>1, <1>3, <2>1 DEF RadioOne
    <2> QED BY <1>1, <1>2, <1>3, <1>6, <2>1, <2>2 DEF RadioOne
  <1> QED BY <1>1, <1>6, <1>8, <1>9, <1>10 DEF InStep

LEMMA InStepStep ==
  ASSUME KeepsUp PROVE Sound /\ InStep /\ [Next]_vars => InStep'
  <1> SUFFICES ASSUME Sound, InStep, [Next]_vars PROVE InStep'
    OBVIOUS
  <1>1. CASE FramerInterrupt /\ UNCHANGED <<uartVars, radioVars>>
    BY <1>1, InStepTransmits, InStepReceives DEF FramerInterrupt
  <1>2. CASE RunTask
    BY <1>2, InStepUARTSendTask, InStepPacketSent, InStepPacketRcvd, InStepPacketRcvdEnds,
       InStepRadioSendTask DEF RunTask
  <1>3. CASE RadioReceive
    BY <1>3, InStepRadioReceive
  <1>4. CASE \E success \in BOOLEAN : RadioSendDone(success)
    BY <1>4, InStepRadioSendDone
  <1>5. CASE UNCHANGED vars
    <2>1. UNCHANGED <<tx, wire, rxVars, tasks, hostGot, uartVars, radioVars>>
      BY <1>5 DEF vars, framerVars, hostVars
    <2>2. \A u : (Waits(u)' <=> Waits(u)) /\ Movers(u)' = Movers(u)
      BY <2>1, SameTasks
    <2>3. UartOne' /\ RadioOne' /\ Receiver'
      BY <2>1, <2>2, UartOneKept, RadioOneKept, ReceiverKept DEF InStep, Pending
    <2>4. Transmitter'
      BY <2>1, <2>2, TransmitterKept DEF InStep, Transmitter, Data, Pending, uartVars
    <2> QED BY <2>2, <2>3, <2>4 DEF InStep
  <1> QED BY <1>1, <1>2, <1>3, <1>4, <1>5 DEF Next

-----------------------------------------------------------------------------
(***************************************************************************)
(* What follows while the tasks keep up.  KeepsUp is what the code relies  *)
(* on: a frame takes far longer than a task waits, and the task queue has  *)
(* room.  Five places do, unless empty frames come in: they do not take a  *)
(* buffer, so that the runs of PacketRcvd are as many as the frames.       *)
(***************************************************************************)

LEMMA TwoIsTwo == Cardinality({0, 1}) = 2
  <1> DEFINE low == 0
             high == 1
  <1>1. 0 .. 1 = {0, 1}
    OBVIOUS
  <1>2. IsFiniteSet(low .. high) /\ Cardinality(low .. high) = high - low + 1
    <2>1. low \in Int /\ high \in Int /\ ~(low > high)
      OBVIOUS
    <2> HIDE DEF low, high
    <2> QED BY <2>1, FS_Interval
  <1> QED BY <1>1, <1>2

LEMMA InStepBuffers ==
  ASSUME Sound, InStep PROVE BuffersMatchTasks
  <1> DEFINE Full == {s \in RxSlots : gMsgRcvTbl[s] # Nothing}
  <1>1. /\ gRxHeadIndex \in {0, 1} /\ gRxTailIndex \in {0, 1}
        /\ RxSlots = {0, 1} /\ HDLC_QUEUESIZE = 2
    BY Slots DEF Sound, Types, RxT, HDLC_QUEUESIZE
  <1>2. RxRing /\ RxExact /\ RxOdd
    BY DEF InStep, Receiver
  <1>3. ToEnd \in Nat
    BY ToEndIs, MoverFacts DEF Sound, Types, TasksT
  <1>4. \A s \in RxSlots : gMsgRcvTbl[s] # Nothing =>
          \E i \in 0 .. ToEnd - 1 : s = (gRxTailIndex + i) % HDLC_QUEUESIZE
    <2> SUFFICES ASSUME NEW s \in {0, 1}, gMsgRcvTbl[s] # Nothing
                 PROVE  \E i \in 0 .. ToEnd - 1 : s = (gRxTailIndex + i) % 2
      BY <1>1
    <2>1. ToEnd # 0 /\ (ToEnd = 1 => s = gRxTailIndex)
      BY <1>1, <1>2 DEF RxRing, IsFull
    <2>2. CASE s = gRxTailIndex
      <3>1. 0 \in 0 .. ToEnd - 1 /\ s = (gRxTailIndex + 0) % 2
        BY <1>1, <1>3, <2>1, <2>2
      <3> QED BY <3>1
    <2>3. CASE s # gRxTailIndex
      <3>1. 1 \in 0 .. ToEnd - 1 /\ s = (gRxTailIndex + 1) % 2
        BY <1>1, <1>3, <2>1, <2>3
      <3> QED BY <3>1
    <2> QED BY <2>2, <2>3
  <1>5. "empty" \notin odd => Cardinality(Full) = ToEnd
    <2> SUFFICES ASSUME "empty" \notin odd PROVE Cardinality(Full) = ToEnd
      OBVIOUS
    <2>1. CASE ToEnd = 0
      <3>1. Full = {}
        BY <1>1, <1>2, <2>1 DEF RxRing, IsFull
      <3> QED BY <2>1, <3>1, FS_EmptySet
    <2>2. CASE ToEnd = 1 /\ IsFull(gRxTailIndex)
      <3>1. Full = {gRxTailIndex}
        BY <1>1, <1>2, <2>2 DEF RxRing, IsFull
      <3> QED BY <2>2, <3>1, FS_Singleton
    <2>3. CASE ToEnd = 2 /\ IsFull(0) /\ IsFull(1)
      <3>1. Full = {0, 1}
        BY <1>1, <2>3 DEF IsFull
      <3> QED BY <2>3, <3>1, TwoIsTwo
    <2> QED BY <1>2, <2>1, <2>2, <2>3 DEF RxExact
  <1>6. gRxHeadIndex = (gRxTailIndex + ToEnd) % HDLC_QUEUESIZE
    BY <1>1, <1>2 DEF RxRing
  <1> QED BY <1>2, <1>4, <1>5, <1>6 DEF BuffersMatchTasks, RxRing, RxOdd

\* Whatever frames come in, a received one is not forgotten: each full buffer is
\* one that a run of PacketRcvd comes to, head and tail agree with the runs that
\* are due, and a frame comes in only where none is.  Nothing received is written
\* over unless an empty or an overlong frame came in (rxByteReady, PacketRcvd of
\* FramerM).
THEOREM BuffersCorrect ==
  ASSUME KeepsUp PROVE Spec => []BuffersMatchTasks
  <1>1. Init => Sound /\ InStep
    BY SoundInit, InStepInit
  <1>2. Sound /\ InStep /\ [Next]_vars => Sound' /\ InStep'
    BY SoundStep, InStepStep
  <1>3. Sound /\ InStep => BuffersMatchTasks
    BY InStepBuffers
  <1> QED BY <1>1, <1>2, <1>3, PTL DEF Spec

\* A queue that holds messages has exactly one mover: neither do two tasks feed
\* the same interface, nor does a queue stand still with nobody to empty it
\* (uartBusy, radioBusy and the tasks of TOSBaseM).
THEOREM QueuesCorrect ==
  ASSUME KeepsUp PROVE Spec => []QueuesHaveOneMover
  <1>1. Init => Sound /\ InStep
    BY SoundInit, InStepInit
  <1>2. Sound /\ InStep /\ [Next]_vars => Sound' /\ InStep'
    BY SoundStep, InStepStep
  <1>3. Sound /\ InStep => QueuesHaveOneMover
    BY DEF InStep, UartOne, RadioOne, QueuesHaveOneMover
  <1> QED BY <1>1, <1>2, <1>3, PTL DEF Spec

-----------------------------------------------------------------------------
(* The refinement of the bridge, action by action.                         *)

\* PacketSent takes a message from the queue only after the host received it.
LEMMA LeavesWell ==
  ASSUME KeepsUp, Sound, InStep, PacketSent
  PROVE  \/ UNCHANGED <<uartQueue, hostGot>>
         \/ SB!Leave
  <1>1. /\ UartT /\ Transmitter /\ hostGot' = hostGot
        /\ tasks \in Seq(TaskKinds) /\ Runs("PacketSent")
    BY DEF Sound, Types, TasksT, UartT, InStep, PacketSent, hostVars
  <1>2. Waits("PacketSent")
    BY <1>1, RunsWaits
  <1>3. CASE SentData(tx) /\ SentWell(tx)
    <2>1. Pending("DATAPEND") /\ hostGot = tx.gpTxMsg
      BY <1>1, <1>2, <1>3 DEF Transmitter, Sending
    <2>2. uartQueue # << >> /\ hostGot = Head(uartQueue)
      BY <1>1, <2>1 DEF Transmitter, Data
    <2>3. uartQueue' = WithoutOldest(uartQueue)
      BY <1>3 DEF PacketSent, UARTSendDone
    <2>4. WithoutOldest(uartQueue) = Tail(uartQueue)
      BY <1>1, <2>2, QueueFacts DEF UartT
    <2> QED BY <1>1, <2>2, <2>3, <2>4 DEF SB!Leave
  <1>4. CASE ~(SentData(tx) /\ SentWell(tx))
    BY <1>1, <1>4 DEF PacketSent, UARTSendDone
  <1> QED BY <1>3, <1>4

\* What the host receives is the oldest message.
LEMMA GoesOutWell ==
  ASSUME KeepsUp, Sound, InStep, TxDone, UNCHANGED uartVars
  PROVE  \/ UNCHANGED <<uartQueue, hostGot>>
         \/ SB!GoOut
  <1>1. CASE SentData(tx)
    <2>1. Pending("DATAPEND") /\ wire = tx.gpTxMsg
      BY <1>1 DEF InStep, Transmitter, Sending, TxDone
    <2>2. uartQueue # << >> /\ wire = Head(uartQueue)
      BY <2>1 DEF InStep, Transmitter, Data
    <2> QED BY <1>1, <2>2 DEF TxDone, uartVars, SB!GoOut
  <1>2. CASE ~SentData(tx)
    BY <1>2 DEF TxDone, uartVars
  <1> QED BY <1>1, <1>2

\* A message that the radio hears enters the queue while it has room.
LEMMA EntersWell ==
  ASSUME Sound, RadioReceive
  PROVE  \/ UNCHANGED <<uartQueue, hostGot>>
         \/ \E m \in HeardMsgs : SB!Enter(m)
  <1>1. heard' \in HeardMsgs
    BY BaseAssumption DEF Sound, Types, UartT, RadioReceive, HeardMsgs
  <1>2. CASE Len(uartQueue) < UART_QUEUE_LEN
    <2>1. SB!Enter(heard')
      BY <1>2 DEF RadioReceive, hostVars, SB!Enter
    <2> QED BY <1>1, <2>1
  <1>3. CASE ~(Len(uartQueue) < UART_QUEUE_LEN)
    BY <1>3 DEF RadioReceive, hostVars
  <1> QED BY <1>2, <1>3

LEMMA BridgeStep ==
  ASSUME KeepsUp
  PROVE  Sound /\ InStep /\ [Next]_vars => [SB!Next]_(SB!bridgeVars)
  <1> SUFFICES ASSUME Sound, InStep, [Next]_vars
               PROVE  UNCHANGED <<uartQueue, hostGot>> \/ SB!Next
    BY DEF SB!bridgeVars
  <1>1. CASE FramerInterrupt /\ UNCHANGED <<uartVars, radioVars>>
    <2>1. CASE TxDone
      BY <1>1, <2>1, GoesOutWell DEF SB!Next
    <2>2. CASE ~TxDone
      BY <1>1, <2>2 DEF FramerInterrupt, TxPayload, TxByteFails, RxSync, RxProto, RxNotAPacket,
                        RxGoodFrame, RxBadFrame, RxLongFrame, hostVars, uartVars
    <2> QED BY <2>1, <2>2
  <1>2. CASE RunTask
    <2>1. CASE PacketSent
      BY <2>1, LeavesWell DEF SB!Next
    <2>2. CASE ~PacketSent
      BY <1>2, <2>2 DEF RunTask, UARTSendTask, PacketRcvd, PacketRcvdEnds, RadioSendTask,
                        hostVars, uartVars
    <2> QED BY <2>1, <2>2
  <1>3. CASE RadioReceive
    BY <1>3, EntersWell DEF SB!Next
  <1>4. CASE \E success \in BOOLEAN : RadioSendDone(success)
    BY <1>4 DEF RadioSendDone, hostVars, uartVars
  <1>5. CASE UNCHANGED vars
    BY <1>5 DEF vars, framerVars, hostVars, uartVars
  <1> QED BY <1>1, <1>2, <1>3, <1>4, <1>5 DEF Next

\* The way from the radio to the serial line is the bridge: every message that
\* enters goes out in order, and its buffer is given up only then, whatever
\* bytes fail and however tokens come in between (TOSBaseM, FramerM).
THEOREM BridgeImplemented ==
  ASSUME KeepsUp PROVE Spec => ImplementsBridge
  <1>1. Init => Sound /\ InStep /\ SB!Init
    BY SoundInit, InStepInit DEF Init, FramerInit, SB!Init
  <1>2. Sound /\ InStep /\ [Next]_vars => Sound' /\ InStep'
    BY SoundStep, InStepStep
  <1>3. Sound /\ InStep /\ [Next]_vars => [SB!Next]_(SB!bridgeVars)
    BY BridgeStep
  <1> QED BY <1>1, <1>2, <1>3, PTL DEF Spec, ImplementsBridge, SB!Spec

\* A message leaves the queue of the serial line when the host has it: what
\* fails when PacketSent is late (the run framer_slow) holds while it is not.
THEOREM LeavesCorrectly ==
  ASSUME KeepsUp PROVE Spec => LeavesOnTheOtherInterface
  <1> DEFINE Leaves(m) == hostGot >= m \/ GoingOut(m)
             A == \A m \in Waiting(uartQueue) \ Waiting(uartQueue)' : Leaves(m)
  <1>1. Init => Sound /\ InStep
    BY SoundInit, InStepInit
  <1>2. Sound /\ InStep /\ [Next]_vars => Sound' /\ InStep'
    BY SoundStep, InStepStep
  <1>3. Sound /\ InStep /\ [Next]_vars => [A]_vars
    <2> SUFFICES ASSUME Sound, InStep, [Next]_vars,
                        NEW m \in Waiting(uartQueue), m \notin Waiting(uartQueue)'
                 PROVE  hostGot >= m
      OBVIOUS
    <2>1. uartQueue' # uartQueue
      BY DEF Waiting
    <2>2. uartQueue \in Seq(HeardMsgs)
      BY DEF Sound, Types, UartT
    <2>3. SB!Next
      BY <2>1, BridgeStep DEF SB!bridgeVars
    <2>4. CASE \E h \in HeardMsgs : SB!Enter(h)
      <3>1. PICK h \in HeardMsgs : uartQueue' = Append(uartQueue, h)
        BY <2>4 DEF SB!Enter
      <3>2. Waiting(Append(uartQueue, h)) = Waiting(uartQueue) \union {h}
        BY <2>2, AppendFacts
      <3>3. Waiting(uartQueue)' = Waiting(Append(uartQueue, h))
        BY <3>1 DEF Waiting
      <3> QED BY <3>2, <3>3
    <2>5. CASE SB!Leave
      <3>1. /\ uartQueue # << >> /\ hostGot = Head(uartQueue) /\ uartQueue' = Tail(uartQueue)
        BY <2>5 DEF SB!Leave
      <3>2. Waiting(uartQueue) = Waiting(Tail(uartQueue)) \union {Head(uartQueue)}
        BY <2>2, <3>1, QueueFacts
      <3>3. Waiting(uartQueue)' = Waiting(Tail(uartQueue))
        BY <3>1 DEF Waiting
      <3>4. m = hostGot /\ m \in HeardMsgs
        BY <2>2, <3>1, <3>2, <3>3, QueueFacts
      <3> QED BY <3>4 DEF HeardMsgs
    <2>6. CASE SB!GoOut
      BY <2>1, <2>6 DEF SB!GoOut
    <2> QED BY <2>3, <2>4, <2>5, <2>6 DEF SB!Next
  <1> QED BY <1>1, <1>2, <1>3, PTL DEF Spec, LeavesOnTheOtherInterface

=============================================================================
