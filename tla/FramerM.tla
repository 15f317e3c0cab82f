------------------------------ MODULE FramerM -------------------------------
(***************************************************************************)
(* The serial framer (tos/system/FramerM.nc): frames with a CRC over the   *)
(* UART, acknowledged with a token when the sender asks for it.            *)
(*                                                                         *)
(* The UART's interrupts move a frame byte by byte in each direction; the  *)
(* tasks PacketSent and PacketRcvd do the rest.  One transmitter serves    *)
(* data and acknowledgements.  gFlags tells what waits for it, gTxProto    *)
(* which of them it sends.  Two receive buffers are filled in turn by the  *)
(* interrupt and emptied in turn by PacketRcvd.                            *)
(*                                                                         *)
(* A frame goes out in two steps, up to its payload and to its last byte,  *)
(* and comes in as its first byte, its body and its closing flag.  The     *)
(* receive states TOKEN, INFO and ESC are one, BODY.  A task runs as one   *)
(* step: the interrupts between its atomic sections are as good as before  *)
(* the task.  PacketRcvd takes two steps, for a frame can end between its  *)
(* look at the buffer and the atomic section that empties it.  A message   *)
(* is its number, which is its token too.                                  *)
(***************************************************************************)
EXTENDS Naturals, Sequences

CONSTANTS
  TaskSlots,        \* the places of the task queue
  MaxFrames,        \* bound: frames the host sends
  MaxErrors,        \* bound: bytes the UART reports as failed
  Lengths,          \* of the frames of the host, see Frames
  SlowTasks,        \* whether a frame can end while a PacketSent still waits
  Nothing           \* no message, no token, no frame

ASSUME FramerAssumption ==
  /\ TaskSlots \in Nat \ {0}
  /\ MaxFrames \in Nat
  /\ MaxErrors \in Nat
  /\ Lengths \subseteq {"whole", "short", "empty", "long"}
  /\ SlowTasks \in BOOLEAN

VARIABLES
  tx,             \* gTxState, gFlags, gTxProto, gpTxMsg, gpTxBuf, gTxTokenBuf
  wire,           \* the payload of the frame that goes out, once it was read
  gRxState,
  gMsgRcvTbl,     \* slot -> the frame in it (Length # 0) or Nothing
  gRxHeadIndex,   \* the slot the interrupt fills
  gRxTailIndex,   \* the slot PacketRcvd empties
  incoming,       \* the frame that is coming in
  rcv,            \* what PacketRcvd saw in the buffer it is busy with, or "idle"
  odd,            \* which of the lengths "empty" and "long" came in so far
  spoiled,        \* whether a received frame, or the token of one, was written over
  tasks,          \* the posted tasks, oldest first
  hostSent,       \* how many frames the host began
  hostGot,        \* the last message the host received
  hostAcks,       \* the tokens the host received
  errors

rxVars == <<gRxState, gMsgRcvTbl, gRxHeadIndex, gRxTailIndex, incoming, hostSent,
            rcv, odd, spoiled>>
hostVars == <<hostGot, hostAcks>>
framerVars == <<tx, wire, rxVars, tasks, hostVars, errors>>

HDLC_QUEUESIZE == 2
RxSlots == 0 .. HDLC_QUEUESIZE - 1
HostMsgs == 1 .. MaxFrames
Protos == {"PACKET_ACK", "PACKET_NOACK"}

\* A frame.  A short one has no whole header, an empty one no payload at all (its
\* Length is 0), a long one is longer than a buffer, as two frames are that lost
\* the flag between them.
Frames == [Proto : Protos, Length : {"whole", "short", "empty", "long"},
           msg : HostMsgs, token : 0 .. MaxFrames]

\* The frames of the host with message m.  Proto matters in whole ones only.
HostFrames(m) ==
  {f \in [Proto : Protos, Length : Lengths, msg : {m}, token : {m}] :
     f.Length # "whole" => f.Proto = "PACKET_NOACK"}

\* HDLCInitialize; gFlags is zero since boot.
FramerInit ==
  /\ tx = [gTxState |-> "IDLE", gFlags |-> {}, gTxProto |-> "ACK",
           gpTxMsg |-> Nothing, gpTxBuf |-> Nothing, gTxTokenBuf |-> Nothing]
  /\ wire = Nothing
  /\ gRxState = "NOSYNC"
  /\ gMsgRcvTbl = [s \in RxSlots |-> Nothing]
  /\ gRxHeadIndex = 0
  /\ gRxTailIndex = 0
  /\ incoming = Nothing
  /\ rcv = "idle"
  /\ odd = {}
  /\ spoiled = FALSE
  /\ tasks = << >>
  /\ hostSent = 0
  /\ hostGot = 0
  /\ hostAcks = {}
  /\ errors = 0

\* The task queue q after the posts ts; the posts that find it full fail.
Posted(q, ts) ==
  LET all == q \o ts
  IN  SubSeq(all, 1, IF Len(all) < TaskSlots THEN Len(all) ELSE TaskSlots)

CanPost(q) == Len(q) < TaskSlots

-----------------------------------------------------------------------------
(* Transmission.                                                           *)

\* StartTx: an idle transmitter begins the frame of what is pending, the token
\* before the data.  The UART takes the first byte: no other is under way.
\* (gpTxBuf is the message, or Nothing when it points to the token.)
Begin(t, proto) ==
  [t EXCEPT !.gTxState = "PROTO", !.gTxProto = proto,
            !.gpTxBuf = IF proto = "ACK" THEN Nothing ELSE t.gpTxMsg]

StartTx(t) ==
  IF t.gTxState # "IDLE" \/ t.gFlags = {} THEN t
  ELSE Begin(t, IF "TOKENPEND" \in t.gFlags THEN "ACK" ELSE "PACKET_NOACK")

\* BareSendMsg.send: whether it accepts, and the transmitter after it.
SendAccepts(t) == "DATAPEND" \notin t.gFlags

Send(t, m) ==
  IF SendAccepts(t)
  THEN StartTx([t EXCEPT !.gFlags = @ \union {"DATAPEND"}, !.gpTxMsg = m])
  ELSE t

\* TokenReceiveMsg.ReflectToken: a token that still waits is not replaced.
ReflectToken(t, token) ==
  IF "TOKENPEND" \in t.gFlags THEN t
  ELSE StartTx([t EXCEPT !.gFlags = @ \union {"TOKENPEND"}, !.gTxTokenBuf = token])

\* gFlags ^= flag
Toggled(flags, flag) == (flags \ {flag}) \union ({flag} \ flags)

\* PacketSent up to its call of StartTx, sendDone left out: the flag of what
\* was sent, by gTxProto, changes.
SentData(t) == t.gTxProto # "ACK"
SentWell(t) == t.gTxState # "ERROR"

\* A faulty PacketSent that leaves the transmitter in error.
AfterSentStuck(t) ==
  IF SentData(t)
  THEN [t EXCEPT !.gFlags = Toggled(@, "DATAPEND"), !.gpTxMsg = Nothing]
  ELSE [t EXCEPT !.gFlags = Toggled(@, "TOKENPEND")]

\* What PacketSent makes of the transmitter.
AfterSent(t) ==
  LET idle == [t EXCEPT !.gTxState = IF @ = "ERROR" THEN "IDLE" ELSE @]
  IN  IF SentData(t)
      THEN [idle EXCEPT !.gFlags = Toggled(@, "DATAPEND"), !.gpTxMsg = Nothing]
      ELSE [idle EXCEPT !.gFlags = Toggled(@, "TOKENPEND")]

\* The tasks keep up with the UART unless SlowTasks.
InTime == SlowTasks \/ \A i \in DOMAIN tasks : tasks[i] # "PacketSent"

\* txByteReady up to the last byte of the payload.
TxPayload ==
  /\ tx.gTxState = "PROTO"
  /\ tx' = [tx EXCEPT !.gTxState = "FINISH"]
  /\ wire' = IF SentData(tx) THEN tx.gpTxBuf ELSE tx.gTxTokenBuf
  /\ UNCHANGED <<rxVars, tasks, hostVars, errors>>

\* txDone of the closing flag: the host has the frame.
TxDone ==
  /\ InTime
  /\ tx.gTxState = "FINISH"
  /\ tx' = [tx EXCEPT !.gTxState = "IDLE"]
  /\ tasks' = Posted(tasks, <<"PacketSent">>)
  /\ wire' = Nothing
  /\ hostGot' = IF SentData(tx) THEN wire ELSE hostGot
  /\ hostAcks' = IF SentData(tx) THEN hostAcks ELSE hostAcks \union {wire}
  /\ UNCHANGED <<rxVars, errors>>

\* txByteReady(FALSE)
TxByteFails ==
  /\ InTime
  /\ errors < MaxErrors
  /\ tx.gTxState \in {"PROTO", "FINISH"}
  /\ tx' = [tx EXCEPT !.gTxState = "ERROR"]
  /\ tasks' = Posted(tasks, <<"PacketSent">>)
  /\ wire' = Nothing
  /\ errors' = errors + 1
  /\ UNCHANGED <<rxVars, hostVars>>

-----------------------------------------------------------------------------
(* Reception: the cases of rxByteReady.                                    *)

\* The slot after slot.
After(slot) == (slot + 1) % HDLC_QUEUESIZE
HeadIsFree == gMsgRcvTbl[gRxHeadIndex] = Nothing

\* NOSYNC: a flag, with a buffer for the frame behind it.
RxSync ==
  /\ gRxState = "NOSYNC"
  /\ HeadIsFree
  /\ gRxState' = "PROTO"
  /\ UNCHANGED <<gMsgRcvTbl, gRxHeadIndex, gRxTailIndex, incoming, hostSent,
                 rcv, odd, spoiled, tx, wire, tasks, hostVars, errors>>

\* PROTO: the first byte of a frame.
RxProto ==
  /\ gRxState = "PROTO"
  /\ hostSent < MaxFrames
  /\ hostSent' = hostSent + 1
  /\ incoming' \in HostFrames(hostSent')
  /\ odd' = odd \union ({incoming'.Length} \intersect {"empty", "long"})
  /\ gRxState' = "BODY"
  /\ UNCHANGED <<gMsgRcvTbl, gRxHeadIndex, gRxTailIndex, rcv, spoiled,
                 tx, wire, tasks, hostVars, errors>>

\* PROTO: a byte that begins no packet.
RxNotAPacket ==
  /\ gRxState = "PROTO"
  /\ gRxState' = "NOSYNC"
  /\ UNCHANGED <<gMsgRcvTbl, gRxHeadIndex, gRxTailIndex, incoming, hostSent,
                 rcv, odd, spoiled, tx, wire, tasks, hostVars, errors>>

\* A faulty rxByteReady that does not look at the next buffer.
SyncStateCareless(tbl, head) == "PROTO"

\* The state after a closing flag: the next frame needs a free buffer.
SyncState(tbl, head) == IF tbl[head] = Nothing THEN "PROTO" ELSE "NOSYNC"

\* INFO: the closing flag of a frame with a good CRC.  The buffer of an empty one
\* still looks free, but PacketRcvd is posted and the next buffer is taken.
RxGoodFrame ==
  /\ gRxState = "BODY"
  /\ incoming.Length # "long"
  /\ gMsgRcvTbl' = [gMsgRcvTbl EXCEPT
                      ![gRxHeadIndex] = IF incoming.Length = "empty" THEN Nothing ELSE incoming]
  /\ tasks' = Posted(tasks, <<"PacketRcvd">>)
  /\ gRxHeadIndex' = After(gRxHeadIndex)
  /\ gRxState' = SyncState(gMsgRcvTbl', gRxHeadIndex')
  /\ incoming' = Nothing
  /\ UNCHANGED <<gRxTailIndex, hostSent, rcv, odd, spoiled, tx, wire, hostVars, errors>>

\* INFO, TOKEN, ESC: a bad CRC keeps the receiver in step; a frame that is too
\* short, or a flag where none belongs, does not.
RxBadFrame ==
  /\ gRxState = "BODY"
  /\ gMsgRcvTbl' = [gMsgRcvTbl EXCEPT ![gRxHeadIndex] = Nothing]
  /\ gRxState' \in {"PROTO", "NOSYNC"}
  /\ incoming' = Nothing
  /\ UNCHANGED <<gRxHeadIndex, gRxTailIndex, hostSent, rcv, odd, spoiled,
                 tx, wire, tasks, hostVars, errors>>

\* INFO: gRxByteCnt > HDLC_MTU.  By then one byte was written behind the buffer:
\* the first of the next message in gMsgRcvBuf.  (What the build puts behind the
\* last buffer is not modelled.)
RxLongFrame ==
  /\ gRxState = "BODY"
  /\ incoming.Length = "long"
  /\ gMsgRcvTbl' = [gMsgRcvTbl EXCEPT ![gRxHeadIndex] = Nothing]
  /\ spoiled' = (spoiled \/ \E s \in RxSlots : s = gRxHeadIndex + 1 /\ gMsgRcvTbl[s] # Nothing)
  /\ gRxState' = "NOSYNC"
  /\ incoming' = Nothing
  /\ UNCHANGED <<gRxHeadIndex, gRxTailIndex, hostSent, rcv, odd,
                 tx, wire, tasks, hostVars, errors>>

\* The task PacketRcvd looks at the buffer of the tail and, later, empties it:
\* a frame that came into an empty buffer meanwhile is lost, and the token of
\* one that is coming in may be.
Received == gMsgRcvTbl[gRxTailIndex]

LookAtTail ==
  /\ rcv' = IF Received = Nothing THEN "empty" ELSE "message"
  /\ UNCHANGED <<gRxState, gMsgRcvTbl, gRxHeadIndex, gRxTailIndex, incoming, hostSent,
                 odd, spoiled>>

EmptyTail ==
  /\ rcv # "idle"
  /\ rcv' = "idle"
  /\ gMsgRcvTbl' = [gMsgRcvTbl EXCEPT ![gRxTailIndex] = Nothing]
  /\ gRxTailIndex' = After(gRxTailIndex)
  /\ \/ UNCHANGED incoming
     \/ /\ gRxState = "BODY" /\ gRxHeadIndex = gRxTailIndex
        /\ incoming' = [incoming EXCEPT !.token = 0]
  /\ spoiled' = \/ spoiled
                \/ rcv = "empty" /\ Received # Nothing
                \/ incoming' # incoming
  /\ UNCHANGED <<gRxState, gRxHeadIndex, hostSent, odd>>

FramerInterrupt ==
  \/ TxPayload \/ TxDone \/ TxByteFails
  \/ RxSync \/ RxProto \/ RxNotAPacket \/ RxGoodFrame \/ RxBadFrame
  \/ RxLongFrame

=============================================================================
