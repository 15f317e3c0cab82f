------------------------------- MODULE DripM --------------------------------
(***************************************************************************)
(* Epidemic dissemination (tos/lib/Drip/DripM.nc): nodes that announce     *)
(* the message of one channel to their neighbours until all have the       *)
(* newest.  Announcements are lost, heard by some neighbours only, and     *)
(* heard twice; nodes restart; new messages come from one node, or to it   *)
(* from outside.                                                           *)
(*                                                                         *)
(* The client of the channel is DripSendM or one like it: it stores the    *)
(* data of a new message and copies it out when asked for it.  An          *)
(* announcement is in msgBuf until sendDone, and is heard in between.      *)
(***************************************************************************)
EXTENDS DripStateM

CONSTANTS
  Nodes,
  Links,        \* the pairs of nodes <<n, m>> such that n hears m
  Source,       \* the node that changes the message
  WakeupBits,   \* the wake-up bits of messages that come to it from outside
  FirstSeqno,   \* the number Source has saved (setSeqno)
  MaxChanges,   \* bound: how often the message changes
  MaxBehind,    \* bound: how many changes a node may miss
  MaxRestarts,  \* bound
  NoMsg

ASSUME DripAssumption ==
  /\ Links \subseteq Nodes \X Nodes
  /\ Source \in Nodes
  /\ WakeupBits \subseteq {0, 1}
  /\ FirstSeqno \in Seqno
  /\ TrueSeqno(FirstSeqno) \notin Reserved
  /\ MaxChanges \in Nat
  /\ MaxBehind \in Nat
  /\ MaxRestarts \in Nat

VARIABLES
  dripCache,   \* node -> its entry for the channel
  cached,      \* node -> the data its client has stored: which change it is
  msgBuf,      \* node -> the announcement it is sending, or NoMsg (msgBufBusy)
  changes,     \* how often the message has changed
  restarts

vars == <<dripCache, cached, msgBuf, changes, restarts>>

Init ==
  /\ dripCache = [n \in Nodes |->
                    IF n = Source THEN [InitEntry EXCEPT !.seqno = FirstSeqno] ELSE InitEntry]
  /\ cached = [n \in Nodes |-> 0]
  /\ msgBuf = [n \in Nodes |-> NoMsg]
  /\ changes = 0
  /\ restarts = 0

-----------------------------------------------------------------------------

\* SendTimer.fired without an announcement: nothing is due, the buffer is busy,
\* or the radio refuses it.
FiredSilently(n) ==
  \E announce \in Announcements(NextStage(dripCache[n])) :
    /\ dripCache' = [dripCache EXCEPT ![n] = updateCounters(dripCache[n], announce)]
    /\ UNCHANGED <<cached, msgBuf, changes, restarts>>

\* SendTimer.fired, rebroadcastRequest and rebroadcast: the announcement is due
\* and goes out.  An entry that is due does not start an interval.
FiredAndSent(n) ==
  LET e == updateCounters(dripCache[n], 0)
  IN  /\ msgBuf[n] = NoMsg
      /\ IsDue(e)
      /\ dripCache' = [dripCache EXCEPT ![n] = [e EXCEPT !.sent = TRUE]]
      /\ msgBuf' = [msgBuf EXCEPT ![n] = [seqno |-> e.seqno, data |-> cached[n]]]
      /\ UNCHANGED <<cached, changes, restarts>>

sendDone(n) ==
  /\ msgBuf[n] # NoMsg
  /\ msgBuf' = [msgBuf EXCEPT ![n] = NoMsg]
  /\ UNCHANGED <<dripCache, cached, changes, restarts>>

\* ReceiveMsg.receive of an announcement, and the client's receive.
Receive(n, m) ==
  /\ msgBuf[m] # NoMsg
  /\ dripCache' = [dripCache EXCEPT ![n] = newMsg(msgBuf[m].seqno, @, 0)]
  /\ cached' = [cached EXCEPT ![n] = IF IsNewer(msgBuf[m].seqno, dripCache[n])
                                       THEN msgBuf[m].data ELSE @]
  /\ UNCHANGED <<msgBuf, changes, restarts>>

\* No node has a number so old that it has come round.
NoneFarBehind ==
  \A n \in Nodes :
    /\ dripCache[n].seqno # DRIP_SEQNO_UNKNOWN => changes - cached[n] < MaxBehind
    /\ msgBuf[n] # NoMsg /\ msgBuf[n].seqno # DRIP_SEQNO_UNKNOWN
         => changes - msgBuf[n].data < MaxBehind

CanChange == changes < MaxChanges /\ NoneFarBehind

\* The client of Source changes the message: Drip.change.
change ==
  /\ CanChange
  /\ LET next == incrementSeqno(dripCache[Source].seqno)
     IN  dripCache' = [dripCache EXCEPT ![Source] = trickleReset([@ EXCEPT !.seqno = next], 0)]
  /\ cached' = [cached EXCEPT ![Source] = changes + 1]
  /\ changes' = changes + 1
  /\ UNCHANGED <<msgBuf, restarts>>

\* A message from outside, which does not know the number.
Inject(bit) ==
  /\ CanChange
  /\ dripCache' = [dripCache EXCEPT ![Source] = newMsg(DRIP_SEQNO_NEWEST + bit, @, 0)]
  /\ cached' = [cached EXCEPT ![Source] = changes + 1]
  /\ changes' = changes + 1
  /\ UNCHANGED <<msgBuf, restarts>>

\* A node other than the source restarts: Drip.init.
Restart(n) ==
  /\ n # Source
  /\ restarts < MaxRestarts
  /\ restarts' = restarts + 1
  /\ dripCache' = [dripCache EXCEPT ![n] = InitEntry]
  /\ cached' = [cached EXCEPT ![n] = 0]
  /\ msgBuf' = [msgBuf EXCEPT ![n] = NoMsg]
  /\ UNCHANGED <<changes>>

Next ==
  \/ \E n \in Nodes : FiredSilently(n) \/ FiredAndSent(n) \/ sendDone(n) \/ Restart(n)
  \/ \E l \in Links : Receive(l[1], l[2])
  \/ change
  \/ \E bit \in WakeupBits : Inject(bit)

Spec == Init /\ [][Next]_vars

\* Timers fire, and the radio ends what it sends.  Nothing is assumed of the
\* links, nor of when the timers of two nodes fire.
Fairness ==
  \A n \in Nodes : WF_vars(FiredSilently(n) \/ FiredAndSent(n)) /\ WF_vars(sendDone(n))

FairSpec == Spec /\ Fairness

-----------------------------------------------------------------------------
(***************************************************************************)
(* Properties.                                                             *)
(***************************************************************************)

Messages == [seqno : Seqno, data : 0 .. MaxChanges]

DripTypeOK ==
  /\ dripCache \in [Nodes -> Entry]
  /\ cached \in [Nodes -> 0 .. MaxChanges]
  /\ msgBuf \in [Nodes -> Messages \union {NoMsg}]
  /\ changes \in 0 .. MaxChanges
  /\ restarts \in 0 .. MaxRestarts

\* What the nodes say: their caches and what they are sending.
Said == {[seqno |-> dripCache[n].seqno, data |-> cached[n]] : n \in Nodes}
          \union ({msgBuf[n] : n \in Nodes} \ {NoMsg})

Known == {m \in Said : TrueSeqno(m.seqno) # DRIP_SEQNO_UNKNOWN}

\* Nodes that agree on the number agree on the data, and of two numbers the one
\* that is ahead stands for the later change, also where the numbers wrap: so
\* suppressing equal numbers and taking newer ones is right.
SeqnoOrdersData ==
  \A a, b \in Known :
    /\ TrueSeqno(a.seqno) = TrueSeqno(b.seqno) => a.data = b.data
    /\ IsAhead(TrueSeqno(a.seqno), TrueSeqno(b.seqno)) <=> a.data > b.data

\* A node that does not restart never goes back to older data.
NeverGoesBack == [][\A n \in Nodes : cached'[n] >= cached[n] \/ Restart(n)]_vars

\* Node n's radio refuses the announcement that is due.
Refuses(n) ==
  /\ msgBuf[n] = NoMsg
  /\ IsDue(updateCounters(dripCache[n], 0))
  /\ FiredSilently(n)

\* Node n hears the number it has, for the first time in this interval.
HearsItsOwn(n) ==
  \E m \in Nodes :
    /\ <<n, m>> \in Links
    /\ Receive(n, m)
    /\ IsEqual(msgBuf[m].seqno, dripCache[n])

\* Announcements are lost, so a node must repeat them for ever: its Trickle timer
\* never falls silent, whatever resets, suppressions, restarts and busy buffers
\* there are.  It announces again and again, unless a neighbour does so in its
\* place or the radio refuses it again and again.
KeepsAnnouncing ==
  \A n \in Nodes :
    \/ []<>(msgBuf[n] # NoMsg)
    \/ []<><<HearsItsOwn(n)>>_vars
    \/ []<><<Refuses(n)>>_vars

=============================================================================
