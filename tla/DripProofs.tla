----------------------------- MODULE DripProofs -----------------------------
(***************************************************************************)
(* Proof that the sequence numbers of Drip order the data: for any nodes   *)
(* and links, any number of changes and restarts, and any modulus, as long *)
(* as no node is so far behind that numbers come round (NearEnough) and    *)
(* messages from outside do not clear the wake-up bit.                     *)
(*                                                                         *)
(* The types hold without these hypotheses.                                *)
(***************************************************************************)
EXTENDS DripM, FiniteSetTheorems, TLAPS

NearEnough == 2 * MaxBehind + 6 < SeqnoMod \div 2

KeepsWakeupBit == 0 \notin WakeupBits

-----------------------------------------------------------------------------

\* An entry has the fields of one; what the timer's are does not matter here.
IsEntry(e) ==
  e = [seqno |-> e.seqno, trickleAnnounce |-> e.trickleAnnounce,
       trickleCountdown |-> e.trickleCountdown, trickleStage |-> e.trickleStage,
       trickleSuppress |-> e.trickleSuppress, sent |-> e.sent]

\* The numbers that nodes have: unknown, or not reserved.
Usable(t) == 4 <= t /\ t <= SeqnoMod - 4
IsNumber(s) ==
  s \in Seqno /\ (TrueSeqno(s) = DRIP_SEQNO_UNKNOWN \/ Usable(TrueSeqno(s)))

StateOK ==
  /\ dripCache = [n \in Nodes |-> dripCache[n]]
  /\ \A n \in Nodes : IsEntry(dripCache[n]) /\ IsNumber(dripCache[n].seqno)
  /\ cached \in [Nodes -> Nat]
  /\ msgBuf = [n \in Nodes |-> msgBuf[n]]
  /\ \A n \in Nodes : msgBuf[n] # NoMsg =>
       msgBuf[n] \in [seqno : Seqno, data : Nat] /\ IsNumber(msgBuf[n].seqno)
  /\ changes \in Nat

\* A node that knows no number has no data; the source has the newest.
CachesOK ==
  /\ \A n \in Nodes : TrueSeqno(dripCache[n].seqno) = DRIP_SEQNO_UNKNOWN => cached[n] = 0
  /\ TrueSeqno(dripCache[Source].seqno) # DRIP_SEQNO_UNKNOWN
  /\ cached[Source] = changes

\* No number is more than MaxBehind changes old.
NoneTooOld ==
  \A m \in Known : m.data \in Nat /\ m.data <= changes /\ changes - m.data <= MaxBehind

\* u comes d changes after t: numbers go up by two, and from SeqnoMod - 4 to 4.
Apart(t, u, d) == u = t + 2 * d \/ u = t + 2 * d + 6 - SeqnoMod

\* The distance of two numbers tells the distance of their data.
NumbersCount ==
  \A a, b \in Known :
    a.data <= b.data => Apart(TrueSeqno(a.seqno), TrueSeqno(b.seqno), b.data - a.data)

DInv == StateOK /\ CachesOK /\ NoneTooOld /\ NumbersCount

-----------------------------------------------------------------------------
(***************************************************************************)
(* Numbers.                                                                *)
(***************************************************************************)

LEMMA ModulusIsEven ==
  /\ SeqnoMod \in Nat /\ SeqnoMod > 24
  /\ \E h \in Nat : SeqnoMod = 2 * h /\ SeqnoMod \div 2 = h /\ h > 12
  <1> DEFINE h == SeqnoMod \div 2
  <1>1. h \in Nat /\ SeqnoMod = 2 * h /\ h > 12
    BY DripStateAssumption
  <1> HIDE DEF h
  <1>2. SeqnoMod \div 2 = h
    BY DEF h
  <1> QED BY <1>1, <1>2, DripStateAssumption

\* A uint16_t in the range that sums and differences have.
LEMMA Wrapped ==
  ASSUME NEW x \in Int, -SeqnoMod <= x, x < 2 * SeqnoMod
  PROVE  x % SeqnoMod = IF x < 0 THEN x + SeqnoMod ELSE IF x < SeqnoMod THEN x ELSE x - SeqnoMod
  BY ModulusIsEven

\* The number without the wake-up bit is even, and the bit does not change it.
LEMMA TrueNumber ==
  ASSUME NEW s \in Int
  PROVE  /\ TrueSeqno(s) \in Int /\ TrueSeqno(s) % 2 = 0
         /\ WakeupBit(s) \in {0, 1} /\ s = TrueSeqno(s) + WakeupBit(s)
  BY DEF TrueSeqno, WakeupBit

LEMMA TrueOfSum ==
  ASSUME NEW t \in Int, t % 2 = 0, NEW w \in {0, 1}
  PROVE  TrueSeqno(t + w) = t /\ WakeupBit(t + w) = w
  BY DEF TrueSeqno, WakeupBit

\* incrementSeqno passes over the three reserved numbers and keeps the bit.
LEMMA Increment ==
  ASSUME NEW s \in Seqno, Usable(TrueSeqno(s))
  PROVE  LET t == TrueSeqno(s)
             u == IF t = SeqnoMod - 4 THEN 4 ELSE t + 2
         IN  /\ incrementSeqno(s) = u + WakeupBit(s)
             /\ incrementSeqno(s) \in Seqno
             /\ TrueSeqno(incrementSeqno(s)) = u
             /\ WakeupBit(incrementSeqno(s)) = WakeupBit(s)
             /\ Usable(u)
  <1> DEFINE t == TrueSeqno(s)
             w == WakeupBit(s)
             u == IF t = SeqnoMod - 4 THEN 4 ELSE t + 2
             After(k) == (s + 2 * k) % SeqnoMod
             Free(k) == TrueSeqno(After(k)) \notin Reserved
             First(k) == Free(k) /\ \A j \in 1 .. k - 1 : ~Free(j)
  <1>1. incrementSeqno(s) = After(CHOOSE k \in 1 .. 4 : First(k))
    BY DEF incrementSeqno
  <1>2. /\ s \in Int /\ t \in Int /\ t % 2 = 0 /\ w \in {0, 1} /\ s = t + w
        /\ 4 <= t /\ t <= SeqnoMod - 4 /\ SeqnoMod % 2 = 0
    BY TrueNumber, DripStateAssumption DEF Seqno, Usable
  <1> HIDE DEF t, w
  <1>3. ASSUME NEW k \in 1 .. 4
        PROVE  /\ After(k) = (IF t + 2 * k < SeqnoMod THEN t + 2 * k ELSE t + 2 * k - SeqnoMod) + w
               /\ TrueSeqno(After(k)) =
                    IF t + 2 * k < SeqnoMod THEN t + 2 * k ELSE t + 2 * k - SeqnoMod
    <2> DEFINE v == IF t + 2 * k < SeqnoMod THEN t + 2 * k ELSE t + 2 * k - SeqnoMod
    <2>1. v \in Int /\ v % 2 = 0
      BY <1>2, ModulusIsEven
    <2>2. t + 2 * k < SeqnoMod <=> t + w + 2 * k < SeqnoMod
      BY <1>2, ModulusIsEven
    <2>3. After(k) = v + w
      <3> DEFINE x == s + 2 * k
      <3>1. x \in Int /\ -SeqnoMod <= x /\ x < 2 * SeqnoMod /\ ~(x < 0) /\ x = t + w + 2 * k
        BY <1>2, ModulusIsEven
      <3>2. After(k) = x % SeqnoMod
        OBVIOUS
      <3> HIDE DEF x, After
      <3>3. After(k) = IF x < SeqnoMod THEN x ELSE x - SeqnoMod
        BY <3>1, <3>2, Wrapped
      <3> QED BY <1>2, <2>2, <3>1, <3>3, ModulusIsEven
    <2> HIDE DEF v
    <2> QED BY <1>2, <2>1, <2>3, TrueOfSum DEF v
  <1> HIDE DEF After
  <1>4. u \in Int /\ u % 2 = 0 /\ 4 <= u /\ u <= SeqnoMod - 4
    BY <1>2, ModulusIsEven
  <1>5. \E k \in 1 .. 4 : First(k) /\ After(k) = u + w /\ (\A j \in 1 .. 4 : First(j) => j = k)
    <2>1. CASE t # SeqnoMod - 4
      <3>1. After(1) = t + 2 + w /\ TrueSeqno(After(1)) = t + 2 /\ t + 2 <= SeqnoMod - 4
        BY <1>2, <1>3, <2>1, ModulusIsEven
      <3>2. Free(1)
        BY <1>2, <3>1, ModulusIsEven
        DEF Reserved, DRIP_SEQNO_OLDEST, DRIP_SEQNO_NEWEST, DRIP_SEQNO_UNKNOWN
      <3> HIDE DEF Free
      <3> QED BY <2>1, <3>1, <3>2
    <2>2. CASE t = SeqnoMod - 4
      <3>1. /\ TrueSeqno(After(1)) = SeqnoMod - 2 /\ TrueSeqno(After(2)) = 0
            /\ TrueSeqno(After(3)) = 2 /\ TrueSeqno(After(4)) = 4 /\ After(4) = 4 + w
        BY <1>2, <1>3, <2>2, ModulusIsEven
      <3>2. ~Free(1) /\ ~Free(2) /\ ~Free(3) /\ Free(4)
        BY <3>1, ModulusIsEven
        DEF Reserved, DRIP_SEQNO_OLDEST, DRIP_SEQNO_NEWEST, DRIP_SEQNO_UNKNOWN
      <3> HIDE DEF Free
      <3> QED BY <2>2, <3>1, <3>2
    <2> QED BY <2>1, <2>2
  <1> HIDE DEF First, u
  <1>6. incrementSeqno(s) = u + w
    BY <1>1, <1>5
  <1>7. TrueSeqno(incrementSeqno(s)) = u /\ WakeupBit(incrementSeqno(s)) = w
    BY <1>2, <1>4, <1>6, TrueOfSum
  <1>8. incrementSeqno(s) \in Seqno
    BY <1>2, <1>4, <1>6, ModulusIsEven DEF Seqno
  <1> QED BY <1>4, <1>6, <1>7, <1>8 DEF t, w, u, Usable

\* Numbers that are near enough are ahead of each other as their distance says,
\* also where they wrap.
LEMMA AheadIsLater ==
  ASSUME NearEnough, NEW t \in Int, NEW u \in Int, Usable(t), Usable(u),
         NEW d \in 0 .. MaxBehind, Apart(t, u, d)
  PROVE  /\ IsAhead(u, t) <=> d > 0
         /\ ~IsAhead(t, u)
         /\ t = u <=> d = 0
  <1>1. PICK h \in Nat : SeqnoMod = 2 * h /\ SeqnoMod \div 2 = h /\ h > 12
    BY ModulusIsEven
  <1>2. MaxBehind \in Nat /\ 2 * MaxBehind + 6 < h
    BY <1>1, DripAssumption DEF NearEnough
  <1>3. 4 <= t /\ t <= SeqnoMod - 4 /\ 4 <= u /\ u <= SeqnoMod - 4
    BY DEF Usable
  <1>4. u - t \in {2 * d, 2 * d + 6 - SeqnoMod}
    BY <1>1, <1>2, <1>3 DEF Apart
  <1>5. d = 0 => u = t
    BY <1>1, <1>3, <1>4
  <1>6. d > 0 => u # t
    BY <1>1, <1>2, <1>4
  <1>7. CASE u - t = 2 * d
    <2>1. (u - t) % SeqnoMod = 2 * d
      BY <1>1, <1>2, <1>7, Wrapped
    <2>2. (t - u) % SeqnoMod = IF d = 0 THEN 0 ELSE SeqnoMod - 2 * d
      BY <1>1, <1>2, <1>7, Wrapped
    <2> QED BY <1>1, <1>2, <1>5, <1>6, <2>1, <2>2 DEF IsAhead
  <1>8. CASE u - t = 2 * d + 6 - SeqnoMod
    <2>1. (u - t) % SeqnoMod = 2 * d + 6
      BY <1>1, <1>2, <1>8, Wrapped
    <2>2. (t - u) % SeqnoMod = SeqnoMod - 2 * d - 6
      <3>1. t - u = SeqnoMod - 2 * d - 6 /\ 0 <= t - u /\ t - u < SeqnoMod
        BY <1>1, <1>2, <1>8
      <3> QED BY <1>1, <3>1, Wrapped
    <2>3. d > 0
      BY <1>1, <1>3, <1>8
    <2> QED BY <1>1, <1>2, <1>5, <1>6, <2>1, <2>2, <2>3 DEF IsAhead
  <1> QED BY <1>4, <1>7, <1>8

-----------------------------------------------------------------------------
(***************************************************************************)
(* Entries.                                                                *)
(***************************************************************************)

LEMMA SetTimer ==
  ASSUME NEW e, IsEntry(e), NEW g, NEW a
  PROVE  /\ IsEntry(trickleSet(e, g, a)) /\ trickleSet(e, g, a).seqno = e.seqno
         /\ IsEntry(trickleReset(e, a)) /\ trickleReset(e, a).seqno = e.seqno
  <1>1. ASSUME NEW i PROVE IsEntry(trickleSet(e, i, a)) /\ trickleSet(e, i, a).seqno = e.seqno
    <2> DEFINE p == 2 ^ i
    <2>1. trickleSet(e, i, a) =
            [e EXCEPT !.trickleStage = i, !.trickleCountdown = p, !.trickleAnnounce = a,
                      !.trickleSuppress = FALSE, !.sent = FALSE]
      BY DEF trickleSet
    <2> HIDE DEF p
    <2>2. trickleSet(e, i, a) =
            [seqno |-> e.seqno, trickleAnnounce |-> a, trickleCountdown |-> p,
             trickleStage |-> i, trickleSuppress |-> FALSE, sent |-> FALSE]
      BY <2>1 DEF IsEntry
    <2> QED BY <2>2 DEF IsEntry
  <1> QED BY <1>1 DEF trickleReset

LEMMA SetNumber ==
  ASSUME NEW e, IsEntry(e), NEW s
  PROVE  LET f == [e EXCEPT !.seqno = s] IN IsEntry(f) /\ f.seqno = s
  BY DEF IsEntry

LEMMA SetFlags ==
  ASSUME NEW e, IsEntry(e), NEW x
  PROVE  /\ LET f == [e EXCEPT !.trickleSuppress = x] IN IsEntry(f) /\ f.seqno = e.seqno
         /\ LET f == [e EXCEPT !.sent = x] IN IsEntry(f) /\ f.seqno = e.seqno
         /\ LET f == [e EXCEPT !.trickleCountdown = x] IN IsEntry(f) /\ f.seqno = e.seqno
  BY DEF IsEntry

\* The timer does not touch the number.
LEMMA CountersKeepNumber ==
  ASSUME NEW e, IsEntry(e), NEW a
  PROVE  IsEntry(updateCounters(e, a)) /\ updateCounters(e, a).seqno = e.seqno
  <1> DEFINE d == Countdown(e)
             dSent == [d EXCEPT !.sent = TRUE]
             dNext == trickleSet(d, NextStage(d), a)
  <1>1. IsEntry(d) /\ d.seqno = e.seqno
    BY SetFlags DEF Countdown
  <1>2. updateCounters(e, a) \in {d, dSent, dNext}
    BY DEF updateCounters
  <1> HIDE DEF d
  <1>3. IsEntry(dSent) /\ dSent.seqno = e.seqno
    BY <1>1, SetFlags
  <1>4. IsEntry(dNext) /\ dNext.seqno = e.seqno
    BY <1>1, SetTimer
  <1> HIDE DEF dSent, dNext
  <1> QED BY <1>1, <1>2, <1>3, <1>4

\* A newer message sets the number, and no other does.
LEMMA NewMsgNumber ==
  ASSUME NEW s, NEW e, IsEntry(e), NEW a
  PROVE  /\ IsEntry(newMsg(s, e, a))
         /\ newMsg(s, e, a).seqno = IF IsNewer(s, e) THEN Adopted(s, e) ELSE e.seqno
  <1> DEFINE f == [e EXCEPT !.seqno = Adopted(s, e)]
             g == [e EXCEPT !.trickleSuppress = TRUE]
  <1>1. IsEntry(f) /\ f.seqno = Adopted(s, e)
    BY SetNumber
  <1>2. IsEntry(g) /\ g.seqno = e.seqno
    BY SetFlags
  <1> HIDE DEF f, g
  <1>3. IsEntry(trickleReset(f, a)) /\ trickleReset(f, a).seqno = Adopted(s, e)
    BY <1>1, SetTimer
  <1>4. IsEntry(trickleReset(e, a)) /\ trickleReset(e, a).seqno = e.seqno
    BY SetTimer
  <1>5. CASE IsNewer(s, e)
    <2>1. newMsg(s, e, a) = trickleReset(f, a)
      BY <1>5 DEF newMsg, IsEqual, f
    <2> QED BY <1>3, <1>5, <2>1
  <1>6. CASE ~IsNewer(s, e)
    <2>1. newMsg(s, e, a) \in {g, trickleReset(e, a)}
      BY <1>6 DEF newMsg, g
    <2> QED BY <1>2, <1>4, <1>6, <2>1
  <1> QED BY <1>5, <1>6

-----------------------------------------------------------------------------
(***************************************************************************)
(* What is said.                                                           *)
(***************************************************************************)

Cache(n) == [seqno |-> dripCache[n].seqno, data |-> cached[n]]

LEMMA SaidIs ==
  \A m : m \in Said <=> \/ \E n \in Nodes : m = Cache(n)
                        \/ \E n \in Nodes : msgBuf[n] # NoMsg /\ m = msgBuf[n]
  BY DEF Said, Cache

LEMMA SaidIsNext ==
  \A m : m \in Said' <=> \/ \E n \in Nodes : m = Cache(n)'
                         \/ \E n \in Nodes : msgBuf'[n] # NoMsg /\ m = msgBuf'[n]
  BY DEF Said, Cache

\* What is said has a number and data.
LEMMA SaidTypes ==
  ASSUME StateOK, NEW m \in Said
  PROVE  /\ m \in [seqno : Seqno, data : Nat] /\ IsNumber(m.seqno)
         /\ m.seqno \in Seqno /\ m.data \in Nat /\ TrueSeqno(m.seqno) \in Int
         /\ TrueSeqno(m.seqno) # DRIP_SEQNO_UNKNOWN => Usable(TrueSeqno(m.seqno))
  <1>1. m \in [seqno : Seqno, data : Nat] /\ IsNumber(m.seqno)
    <2>1. CASE \E n \in Nodes : m = Cache(n)
      BY <2>1 DEF StateOK, Cache, IsNumber
    <2>2. CASE \E n \in Nodes : msgBuf[n] # NoMsg /\ m = msgBuf[n]
      BY <2>2 DEF StateOK
    <2> QED BY <2>1, <2>2, SaidIs
  <1>2. TrueSeqno(m.seqno) \in Int
    BY <1>1, TrueNumber, ModulusIsEven DEF Seqno
  <1> QED BY <1>1, <1>2 DEF IsNumber

\* Of two messages, the later one is ahead.
LEMMA KnownInOrder ==
  ASSUME NearEnough, DInv, NEW a \in Known, NEW b \in Known
  PROVE  /\ TrueSeqno(a.seqno) = TrueSeqno(b.seqno) => a.data = b.data
         /\ IsAhead(TrueSeqno(a.seqno), TrueSeqno(b.seqno)) <=> a.data > b.data
  <1> USE DEF DInv
  <1>1. /\ TrueSeqno(a.seqno) \in Int /\ Usable(TrueSeqno(a.seqno)) /\ a.data \in Nat
        /\ TrueSeqno(b.seqno) \in Int /\ Usable(TrueSeqno(b.seqno)) /\ b.data \in Nat
    BY SaidTypes DEF Known
  <1>2. /\ changes \in Nat /\ MaxBehind \in Nat
        /\ a.data <= changes /\ changes - a.data <= MaxBehind
        /\ b.data <= changes /\ changes - b.data <= MaxBehind
    BY DripAssumption DEF NoneTooOld, StateOK
  <1>3. CASE a.data <= b.data
    <2> DEFINE d == b.data - a.data
    <2>1. d \in 0 .. MaxBehind
      BY <1>1, <1>2, <1>3
    <2>2. Apart(TrueSeqno(a.seqno), TrueSeqno(b.seqno), d)
      BY <1>3 DEF NumbersCount
    <2>3. d = 0 <=> a.data = b.data
      BY <1>1
    <2> HIDE DEF d
    <2>4. /\ ~IsAhead(TrueSeqno(a.seqno), TrueSeqno(b.seqno))
          /\ TrueSeqno(a.seqno) = TrueSeqno(b.seqno) <=> d = 0
      BY <1>1, <2>1, <2>2, AheadIsLater
    <2> QED BY <1>1, <1>3, <2>3, <2>4
  <1>4. CASE b.data < a.data
    <2> DEFINE d == a.data - b.data
    <2>1. d \in 0 .. MaxBehind /\ d > 0
      BY <1>1, <1>2, <1>4
    <2>2. Apart(TrueSeqno(b.seqno), TrueSeqno(a.seqno), d)
      BY <1>1, <1>4 DEF NumbersCount
    <2> HIDE DEF d
    <2>3. /\ IsAhead(TrueSeqno(a.seqno), TrueSeqno(b.seqno)) <=> d > 0
          /\ TrueSeqno(b.seqno) = TrueSeqno(a.seqno) <=> d = 0
      BY <1>1, <2>1, <2>2, AheadIsLater
    <2>4. d # 0
      BY <2>1
    <2> QED BY <1>1, <1>4, <2>1, <2>3, <2>4
  <1> QED BY <1>1, <1>3, <1>4

\* A step that says nothing new.
LEMMA NothingNew ==
  ASSUME DInv, StateOK', CachesOK', changes' = changes,
         \A n \in Nodes : TrueSeqno(dripCache'[n].seqno) = DRIP_SEQNO_UNKNOWN \/ Cache(n)' \in Said,
         \A n \in Nodes : msgBuf'[n] # NoMsg => msgBuf'[n] \in Said
  PROVE  DInv'
  <1>1. ASSUME NEW m \in Known' PROVE m \in Known
    <2>1. m \in Said' /\ TrueSeqno(m.seqno) # DRIP_SEQNO_UNKNOWN
      BY <1>1 DEF Known
    <2>2. m \in Said
      <3>1. CASE \E n \in Nodes : m = Cache(n)'
        BY <2>1, <3>1 DEF Cache
      <3>2. CASE \E n \in Nodes : msgBuf'[n] # NoMsg /\ m = msgBuf'[n]
        BY <3>2
      <3> QED BY <2>1, <3>1, <3>2, SaidIsNext
    <2> QED BY <2>1, <2>2 DEF Known
  <1>2. NoneTooOld'
    BY <1>1 DEF DInv, NoneTooOld
  <1>3. NumbersCount'
    BY <1>1 DEF DInv, NumbersCount
  <1> QED BY <1>2, <1>3 DEF DInv

\* A change: the source says the next number.
LEMMA OneNew ==
  ASSUME DInv, StateOK', CachesOK', NoneFarBehind, changes' = changes + 1,
         TrueSeqno(dripCache'[Source].seqno) =
           IF TrueSeqno(dripCache[Source].seqno) = SeqnoMod - 4 THEN 4
           ELSE TrueSeqno(dripCache[Source].seqno) + 2,
         \A n \in Nodes \ {Source} : dripCache'[n] = dripCache[n] /\ cached'[n] = cached[n],
         msgBuf' = msgBuf, NearEnough
  PROVE  DInv'
  <1> DEFINE old == Cache(Source)
             new == Cache(Source)'
             t == TrueSeqno(old.seqno)
             u == TrueSeqno(new.seqno)
  <1>1. /\ changes \in Nat /\ MaxBehind \in Nat /\ Source \in Nodes
        /\ old.data = changes /\ new.data = changes + 1
    BY DripAssumption DEF DInv, StateOK, CachesOK, Cache
  <1>2. old \in Known /\ t \in Int /\ Usable(t)
    <2>1. old \in Said /\ t # DRIP_SEQNO_UNKNOWN
      BY <1>1, SaidIs DEF DInv, CachesOK, Cache
    <2> QED BY <2>1, SaidTypes DEF DInv, Known
  <1>3. u = IF t = SeqnoMod - 4 THEN 4 ELSE t + 2
    BY DEF Cache
  <1>4. ASSUME NEW m \in Known', m # new
        PROVE  m \in Known /\ changes - m.data < MaxBehind
    <2>1. m \in Said' /\ TrueSeqno(m.seqno) # DRIP_SEQNO_UNKNOWN
      BY <1>4 DEF Known
    <2>2. m.seqno # DRIP_SEQNO_UNKNOWN
      BY <2>1 DEF TrueSeqno, DRIP_SEQNO_UNKNOWN
    <2>3. m \in Said /\ changes - m.data < MaxBehind
      <3>1. CASE \E n \in Nodes : m = Cache(n)'
        <4>1. PICK n \in Nodes : m = Cache(n)'
          BY <3>1
        <4>2. n # Source
          BY <1>4, <4>1
        <4>3. m = Cache(n)
          BY <4>1, <4>2 DEF Cache
        <4>4. m.seqno = dripCache[n].seqno /\ m.data = cached[n]
          BY <4>3 DEF Cache
        <4> QED BY <2>2, <4>3, <4>4, SaidIs DEF NoneFarBehind
      <3>2. CASE \E n \in Nodes : msgBuf'[n] # NoMsg /\ m = msgBuf'[n]
        BY <2>2, <3>2, SaidIs DEF NoneFarBehind
      <3> QED BY <2>1, <3>1, <3>2, SaidIsNext
    <2> QED BY <2>1, <2>3 DEF Known
  <1>5. ASSUME NEW m \in Known PROVE m.data \in Nat /\ m.data <= changes
    BY <1>5 DEF DInv, NoneTooOld
  <1>6. ASSUME NEW m \in Known PROVE Apart(TrueSeqno(m.seqno), u, changes + 1 - m.data)
    <2> DEFINE s == TrueSeqno(m.seqno)
               d == changes - m.data
    <2>1. /\ s \in Int /\ Usable(s) /\ m.data \in Nat
          /\ m.data <= changes /\ changes - m.data <= MaxBehind
      BY SaidTypes DEF DInv, Known, NoneTooOld
    <2>2. d \in 0 .. MaxBehind /\ changes + 1 - m.data = d + 1
      BY <1>1, <2>1
    <2>3. Apart(s, t, d)
      BY <1>1, <1>2, <2>1 DEF DInv, NumbersCount
    <2> HIDE DEF s, d, t, u
    <2>4. Apart(s, u, d + 1)
      <3>1. PICK h \in Nat : SeqnoMod = 2 * h /\ SeqnoMod \div 2 = h /\ h > 12
        BY ModulusIsEven
      <3>2. MaxBehind \in Nat /\ 2 * MaxBehind + 6 < h
        BY <3>1, DripAssumption DEF NearEnough
      <3> QED BY <1>2, <1>3, <2>1, <2>2, <2>3, <3>1, <3>2 DEF Apart, Usable
    <2> QED BY <2>2, <2>4 DEF s
  <1>7. u \in Int
    BY <1>2, <1>3
  <1> HIDE DEF old, new, t, u
  <1>8. NoneTooOld'
    <2> SUFFICES ASSUME NEW m \in Known'
                 PROVE  m.data \in Nat /\ m.data <= changes' /\ changes' - m.data <= MaxBehind
      BY DEF NoneTooOld
    <2>1. CASE m = new
      BY <1>1, <2>1
    <2>2. CASE m # new
      BY <1>1, <1>4, <1>5, <2>2
    <2> QED BY <2>1, <2>2
  <1>9. NumbersCount'
    <2> SUFFICES ASSUME NEW a \in Known', NEW b \in Known', a.data <= b.data
                 PROVE  Apart(TrueSeqno(a.seqno), TrueSeqno(b.seqno), b.data - a.data)
      BY DEF NumbersCount
    <2>1. CASE a # new /\ b # new
      BY <1>4, <2>1 DEF DInv, NumbersCount
    <2>2. CASE a # new /\ b = new
      <3>1. Apart(TrueSeqno(a.seqno), u, changes + 1 - a.data)
        BY <1>4, <1>6, <2>2
      <3>2. TrueSeqno(b.seqno) = u /\ b.data = changes + 1
        BY <1>1, <2>2 DEF u
      <3>3. TrueSeqno(a.seqno) \in Int /\ a.data \in Nat /\ SeqnoMod \in Nat
        BY <1>4, <1>5, <2>2, SaidTypes, ModulusIsEven DEF DInv, Known
      <3> QED BY <1>1, <1>7, <3>1, <3>2, <3>3 DEF Apart
    <2>3. CASE a = new /\ b = new
      <3>1. /\ a.data = changes + 1 /\ b.data = changes + 1
            /\ TrueSeqno(a.seqno) = u /\ TrueSeqno(b.seqno) = u
        BY <1>1, <2>3 DEF u
      <3> QED BY <1>1, <1>7, <3>1 DEF Apart
    <2>4. CASE a = new /\ b # new
      BY <1>1, <1>4, <1>5, <2>4
    <2> QED BY <2>1, <2>2, <2>3, <2>4
  <1> QED BY <1>8, <1>9 DEF DInv

-----------------------------------------------------------------------------
(***************************************************************************)
(* The steps.                                                              *)
(***************************************************************************)

\* A timer: no number and no data change, and what is sent has been said.
LEMMA SameNumbers ==
  ASSUME DInv, NEW n \in Nodes, NEW e, IsEntry(e), e.seqno = dripCache[n].seqno,
         dripCache' = [dripCache EXCEPT ![n] = e], cached' = cached, changes' = changes,
         msgBuf' = [k \in Nodes |-> msgBuf'[k]],
         \A k \in Nodes : msgBuf'[k] # NoMsg => msgBuf'[k] \in Said
  PROVE  DInv'
  <1> USE DEF DInv
  <1>1. /\ dripCache' = [k \in Nodes |-> dripCache'[k]]
        /\ \A k \in Nodes : /\ IsEntry(dripCache'[k])
                            /\ dripCache'[k].seqno = dripCache[k].seqno
    <2>1. dripCache = [k \in Nodes |-> dripCache[k]]
      BY DEF StateOK
    <2>2. dripCache' = [k \in Nodes |-> IF k = n THEN e ELSE dripCache[k]]
      BY <2>1
    <2> QED BY <2>2 DEF StateOK
  <1>2. \A k \in Nodes : msgBuf'[k] # NoMsg =>
          msgBuf'[k] \in [seqno : Seqno, data : Nat] /\ IsNumber(msgBuf'[k].seqno)
    BY SaidTypes
  <1>3. StateOK'
    BY <1>1, <1>2 DEF StateOK
  <1>4. CachesOK'
    BY <1>1, DripAssumption DEF CachesOK
  <1>5. \A k \in Nodes : Cache(k)' = Cache(k) /\ Cache(k) \in Said
    BY <1>1, SaidIs DEF Cache
  <1> QED BY <1>3, <1>4, <1>5, NothingNew

LEMMA FiredSilentlyStep ==
  ASSUME DInv, NEW n \in Nodes, FiredSilently(n) PROVE DInv'
  <1>1. PICK a : dripCache' = [dripCache EXCEPT ![n] = updateCounters(dripCache[n], a)]
    BY DEF FiredSilently
  <1>2. UNCHANGED <<cached, msgBuf, changes>>
    BY DEF FiredSilently
  <1> DEFINE e == updateCounters(dripCache[n], a)
  <1>3. IsEntry(e) /\ e.seqno = dripCache[n].seqno
    BY CountersKeepNumber DEF DInv, StateOK
  <1> HIDE DEF e
  <1>4. dripCache' = [dripCache EXCEPT ![n] = e]
    BY <1>1 DEF e
  <1>5. /\ msgBuf' = [k \in Nodes |-> msgBuf'[k]]
        /\ \A k \in Nodes : msgBuf'[k] # NoMsg => msgBuf'[k] \in Said
    BY <1>2, SaidIs DEF DInv, StateOK
  <1> QED BY <1>2, <1>3, <1>4, <1>5, SameNumbers

LEMMA FiredAndSentStep ==
  ASSUME DInv, NEW n \in Nodes, FiredAndSent(n) PROVE DInv'
  <1> DEFINE e == updateCounters(dripCache[n], 0)
             f == [e EXCEPT !.sent = TRUE]
             m == [seqno |-> e.seqno, data |-> cached[n]]
  <1>1. /\ dripCache' = [dripCache EXCEPT ![n] = f]
        /\ msgBuf' = [msgBuf EXCEPT ![n] = m]
        /\ UNCHANGED <<cached, changes>>
    BY DEF FiredAndSent
  <1>2. IsEntry(e) /\ e.seqno = dripCache[n].seqno
    BY CountersKeepNumber DEF DInv, StateOK
  <1> HIDE DEF e
  <1>3. IsEntry(f) /\ f.seqno = dripCache[n].seqno
    BY <1>2, SetFlags
  <1>4. m = Cache(n)
    BY <1>2 DEF Cache
  <1> HIDE DEF f, m
  <1>5. m \in Said
    BY <1>4, SaidIs
  <1>6. msgBuf' = [k \in Nodes |-> IF k = n THEN m ELSE msgBuf[k]]
    BY <1>1 DEF DInv, StateOK
  <1>7. /\ msgBuf' = [k \in Nodes |-> msgBuf'[k]]
        /\ \A k \in Nodes : msgBuf'[k] # NoMsg => msgBuf'[k] \in Said
    BY <1>5, <1>6, SaidIs
  <1> QED BY <1>1, <1>3, <1>7, SameNumbers

LEMMA sendDoneStep ==
  ASSUME DInv, NEW n \in Nodes, sendDone(n) PROVE DInv'
  <1>1. UNCHANGED <<dripCache, cached, changes>>
    BY DEF sendDone
  <1>2. msgBuf' = [k \in Nodes |-> IF k = n THEN NoMsg ELSE msgBuf[k]]
    BY DEF sendDone, DInv, StateOK
  <1>3. /\ msgBuf' = [k \in Nodes |-> msgBuf'[k]]
        /\ \A k \in Nodes : msgBuf'[k] # NoMsg => msgBuf'[k] = msgBuf[k]
    BY <1>2
  <1>4. StateOK' /\ CachesOK'
    BY <1>1, <1>3 DEF DInv, StateOK, CachesOK
  <1>5. \A k \in Nodes : Cache(k)' \in Said
    BY <1>1, SaidIs DEF Cache
  <1>6. \A k \in Nodes : msgBuf'[k] # NoMsg => msgBuf'[k] \in Said
    BY <1>3, SaidIs
  <1> QED BY <1>1, <1>4, <1>5, <1>6, NothingNew

\* A node that restarts knows no number.
LEMMA RestartStep ==
  ASSUME DInv, NEW n \in Nodes, Restart(n) PROVE DInv'
  <1>1. /\ n # Source /\ changes' = changes
        /\ dripCache' = [k \in Nodes |-> IF k = n THEN InitEntry ELSE dripCache[k]]
        /\ cached' = [k \in Nodes |-> IF k = n THEN 0 ELSE cached[k]]
        /\ msgBuf' = [k \in Nodes |-> IF k = n THEN NoMsg ELSE msgBuf[k]]
    BY DEF Restart, DInv, StateOK
  <1>2. /\ IsEntry(InitEntry) /\ IsNumber(InitEntry.seqno)
        /\ TrueSeqno(InitEntry.seqno) = DRIP_SEQNO_UNKNOWN
    BY ModulusIsEven DEF InitEntry, IsEntry, IsNumber, TrueSeqno, DRIP_SEQNO_UNKNOWN, Seqno
  <1> HIDE DEF InitEntry
  <1>3. StateOK'
    BY <1>1, <1>2 DEF DInv, StateOK
  <1>4. CachesOK'
    BY <1>1, <1>2, DripAssumption DEF DInv, CachesOK
  <1>5. \A k \in Nodes : TrueSeqno(dripCache'[k].seqno) = DRIP_SEQNO_UNKNOWN \/ Cache(k)' \in Said
    BY <1>1, <1>2, SaidIs DEF Cache
  <1>6. \A k \in Nodes : msgBuf'[k] # NoMsg => msgBuf'[k] \in Said
    BY <1>1, SaidIs
  <1> QED BY <1>1, <1>3, <1>4, <1>5, <1>6, NothingNew

\* A message of a node: the number comes with the data it stands for.
LEMMA ReceiveStep ==
  ASSUME NearEnough, DInv, NEW n \in Nodes, NEW m \in Nodes, Receive(n, m)
  PROVE  DInv' /\ cached'[n] >= cached[n] /\ \A k \in Nodes \ {n} : cached'[k] = cached[k]
  <1> USE DEF DInv
  <1> DEFINE msg == msgBuf[m]
             entry == dripCache[n]
             e == newMsg(msg.seqno, entry, 0)
             d == IF IsNewer(msg.seqno, entry) THEN msg.data ELSE cached[n]
  <1>1. /\ msg \in Said /\ IsNumber(msg.seqno) /\ msg.data \in Nat /\ msg.seqno \in Seqno
        /\ IsEntry(entry) /\ cached[n] \in Nat
    BY SaidIs, SaidTypes DEF StateOK, Receive
  <1>2. /\ dripCache' = [k \in Nodes |-> IF k = n THEN e ELSE dripCache[k]]
        /\ cached' = [k \in Nodes |-> IF k = n THEN d ELSE cached[k]]
        /\ UNCHANGED <<msgBuf, changes>>
    BY DEF Receive, StateOK
  <1>3. IsEntry(e) /\ e.seqno = IF IsNewer(msg.seqno, entry) THEN Adopted(msg.seqno, entry)
                                ELSE entry.seqno
    BY <1>1, NewMsgNumber
  <1>4. IsNewer(msg.seqno, entry) => msg \in Known
    BY <1>1 DEF IsNewer, Known
  <1>5. IsNewer(msg.seqno, entry) => e.seqno = msg.seqno
    <2>1. TrueSeqno(msg.seqno) # DRIP_SEQNO_NEWEST
      BY <1>1 DEF IsNumber, Usable, DRIP_SEQNO_NEWEST, DRIP_SEQNO_UNKNOWN
    <2> QED BY <1>3, <2>1 DEF Adopted
  <1>6. Cache(n) \in Said
    BY SaidIs
  <1>7. ASSUME IsNewer(msg.seqno, entry)
        PROVE  d >= cached[n] /\ n # Source
    <2>1. d = msg.data
      BY <1>7
    <2>2. TrueSeqno(msg.seqno) # DRIP_SEQNO_NEWEST
      BY <1>1 DEF IsNumber, Usable, DRIP_SEQNO_NEWEST, DRIP_SEQNO_UNKNOWN
    <2>3. CASE TrueSeqno(entry.seqno) = DRIP_SEQNO_UNKNOWN
      BY <1>1, <2>1, <2>3 DEF CachesOK
    <2>4. CASE TrueSeqno(entry.seqno) # DRIP_SEQNO_UNKNOWN
      <3>1. Cache(n) \in Known /\ Cache(n).seqno = entry.seqno /\ Cache(n).data = cached[n]
        BY <1>6, <2>4 DEF Known, Cache
      <3>2. IsAhead(TrueSeqno(msg.seqno), TrueSeqno(entry.seqno))
        BY <1>7, <2>2, <2>4 DEF IsNewer
      <3>3. msg \in Known
        BY <1>4, <1>7
      <3> HIDE DEF msg, entry
      <3>4. msg.data > cached[n]
        BY <3>1, <3>2, <3>3, KnownInOrder
      <3>5. msg.data <= changes
        BY <3>3 DEF NoneTooOld
      <3>6. n = Source => cached[n] = changes
        BY DEF CachesOK
      <3> QED BY <1>1, <2>1, <3>4, <3>5, <3>6 DEF StateOK
    <2> QED BY <2>3, <2>4
  <1>8. /\ Cache(n)' = IF IsNewer(msg.seqno, entry) THEN [seqno |-> msg.seqno, data |-> msg.data]
                       ELSE Cache(n)
        /\ Cache(n)' \in Said
    <2>1. CASE IsNewer(msg.seqno, entry)
      <3>1. Cache(n)' = [seqno |-> msg.seqno, data |-> msg.data]
        BY <1>2, <1>5, <2>1 DEF Cache
      <3>2. msg = [seqno |-> msg.seqno, data |-> msg.data]
        BY SaidTypes, <1>1
      <3> QED BY <1>1, <2>1, <3>1, <3>2
    <2>2. CASE ~IsNewer(msg.seqno, entry)
      <3>1. e.seqno = entry.seqno /\ d = cached[n]
        BY <1>3, <2>2
      <3> QED BY <1>2, <1>6, <2>2, <3>1 DEF Cache
    <2> QED BY <2>1, <2>2
  <1>9. d \in Nat /\ d >= cached[n] /\ IsNumber(e.seqno) /\ (n = Source => d = cached[n])
    <2>1. CASE IsNewer(msg.seqno, entry)
      BY <1>1, <1>5, <1>7, <2>1
    <2>2. CASE ~IsNewer(msg.seqno, entry)
      BY <1>1, <1>3, <2>2 DEF StateOK
    <2> QED BY <2>1, <2>2
  <1>10. /\ TrueSeqno(e.seqno) = DRIP_SEQNO_UNKNOWN => d = 0
         /\ n = Source => TrueSeqno(e.seqno) # DRIP_SEQNO_UNKNOWN
    <2>1. CASE IsNewer(msg.seqno, entry)
      BY <1>4, <1>5, <2>1 DEF Known
    <2>2. CASE ~IsNewer(msg.seqno, entry)
      BY <1>3, <2>2 DEF CachesOK
    <2> QED BY <2>1, <2>2
  <1> HIDE DEF e, d, msg, entry
  <1>11. StateOK'
    BY <1>2, <1>3, <1>9 DEF StateOK
  <1>12. CachesOK'
    BY <1>2, <1>9, <1>10, DripAssumption DEF CachesOK
  <1>13. \A k \in Nodes : Cache(k)' \in Said
    BY <1>2, <1>8, SaidIs DEF Cache
  <1>14. \A k \in Nodes : msgBuf'[k] # NoMsg => msgBuf'[k] \in Said
    BY <1>2, SaidIs
  <1> QED BY <1>2, <1>9, <1>11, <1>12, <1>13, <1>14, NothingNew

\* A number for the source that is the next one, with either wake-up bit.
LEMMA SourceStep ==
  ASSUME NearEnough, DInv, NoneFarBehind, NEW e, IsEntry(e), e.seqno \in Seqno,
         TrueSeqno(e.seqno) = IF TrueSeqno(dripCache[Source].seqno) = SeqnoMod - 4 THEN 4
                              ELSE TrueSeqno(dripCache[Source].seqno) + 2,
         Usable(TrueSeqno(e.seqno)),
         dripCache' = [dripCache EXCEPT ![Source] = e],
         cached' = [cached EXCEPT ![Source] = changes + 1],
         changes' = changes + 1, msgBuf' = msgBuf
  PROVE  DInv'
  <1> USE DEF DInv
  <1>1. /\ dripCache' = [k \in Nodes |-> IF k = Source THEN e ELSE dripCache[k]]
        /\ cached' = [k \in Nodes |-> IF k = Source THEN changes + 1 ELSE cached[k]]
        /\ Source \in Nodes /\ changes \in Nat
    BY DripAssumption DEF StateOK
  <1>2. IsNumber(e.seqno) /\ TrueSeqno(e.seqno) # DRIP_SEQNO_UNKNOWN
    BY ModulusIsEven, TrueNumber DEF IsNumber, Usable, DRIP_SEQNO_UNKNOWN, Seqno
  <1>3. StateOK'
    BY <1>1, <1>2 DEF StateOK
  <1>4. CachesOK'
    BY <1>1, <1>2 DEF CachesOK
  <1>5. dripCache'[Source] = e
    BY <1>1
  <1>6. \A n \in Nodes \ {Source} : dripCache'[n] = dripCache[n] /\ cached'[n] = cached[n]
    BY <1>1
  <1> QED BY <1>3, <1>4, <1>5, <1>6, OneNew

LEMMA SourceNumber ==
  ASSUME DInv
  PROVE  /\ Source \in Nodes /\ IsEntry(dripCache[Source]) /\ dripCache[Source].seqno \in Seqno
         /\ Usable(TrueSeqno(dripCache[Source].seqno))
  BY DripAssumption DEF DInv, StateOK, CachesOK, IsNumber

LEMMA SourceKeepsUp ==
  ASSUME DInv, cached' = [cached EXCEPT ![Source] = changes + 1]
  PROVE  \A n \in Nodes : cached'[n] >= cached[n]
  <1>1. \A n \in Nodes : cached[n] \in Nat
    BY DEF DInv, StateOK
  <1>2. cached[Source] = changes /\ changes \in Nat
    BY DEF DInv, StateOK, CachesOK
  <1>3. cached' = [k \in Nodes |-> IF k = Source THEN changes + 1 ELSE cached[k]]
    BY DEF DInv, StateOK
  <1> QED BY <1>1, <1>2, <1>3

LEMMA changeStep ==
  ASSUME NearEnough, DInv, change
  PROVE  DInv' /\ \A n \in Nodes : cached'[n] >= cached[n]
  <1> DEFINE entry == dripCache[Source]
             next == incrementSeqno(entry.seqno)
             f == [entry EXCEPT !.seqno = next]
             e == trickleReset(f, 0)
  <1>1. /\ NoneFarBehind /\ dripCache' = [dripCache EXCEPT ![Source] = e]
        /\ cached' = [cached EXCEPT ![Source] = changes + 1]
        /\ changes' = changes + 1 /\ msgBuf' = msgBuf
    BY DEF change, CanChange
  <1>2. IsEntry(entry) /\ entry.seqno \in Seqno /\ Usable(TrueSeqno(entry.seqno))
    BY SourceNumber
  <1> HIDE DEF entry
  <1>3. /\ next \in Seqno /\ Usable(TrueSeqno(next))
        /\ TrueSeqno(next) = IF TrueSeqno(entry.seqno) = SeqnoMod - 4 THEN 4
                             ELSE TrueSeqno(entry.seqno) + 2
    BY <1>2, Increment
  <1> HIDE DEF next
  <1>4. IsEntry(f) /\ f.seqno = next
    BY <1>2, SetNumber
  <1> HIDE DEF f
  <1>5. IsEntry(e) /\ e.seqno = next
    BY <1>4, SetTimer
  <1> HIDE DEF e
  <1>6. DInv'
    BY <1>1, <1>3, <1>5, SourceStep DEF entry
  <1> QED BY <1>1, <1>6, SourceKeepsUp

\* The number of a message from outside: the next one, with the wake-up bit set.
LEMMA InjectStep ==
  ASSUME NearEnough, DInv, Inject(1)
  PROVE  DInv' /\ \A n \in Nodes : cached'[n] >= cached[n]
  <1> DEFINE entry == dripCache[Source]
             msg == DRIP_SEQNO_NEWEST + 1
             next == incrementSeqno(entry.seqno)
             e == newMsg(msg, entry, 0)
             u == TrueSeqno(next)
  <1>1. /\ NoneFarBehind /\ dripCache' = [dripCache EXCEPT ![Source] = e]
        /\ cached' = [cached EXCEPT ![Source] = changes + 1]
        /\ changes' = changes + 1 /\ msgBuf' = msgBuf
    BY SourceNumber DEF Inject, CanChange, DInv, StateOK
  <1>2. IsEntry(entry) /\ entry.seqno \in Seqno /\ Usable(TrueSeqno(entry.seqno))
    BY SourceNumber
  <1> HIDE DEF entry
  <1>3. /\ next \in Seqno /\ Usable(u)
        /\ u = IF TrueSeqno(entry.seqno) = SeqnoMod - 4 THEN 4 ELSE TrueSeqno(entry.seqno) + 2
    BY <1>2, Increment
  <1>4. msg = 1 /\ TrueSeqno(msg) = DRIP_SEQNO_NEWEST /\ WakeupBit(msg) = 1
    BY DEF DRIP_SEQNO_NEWEST, TrueSeqno, WakeupBit
  <1>5. IsNewer(msg, entry)
    BY <1>4, ModulusIsEven
    DEF IsNewer, DRIP_SEQNO_NEWEST, DRIP_SEQNO_UNKNOWN, DRIP_SEQNO_OLDEST
  <1> HIDE DEF msg
  <1>6. IsEntry(e) /\ e.seqno = Adopted(msg, entry)
    BY <1>2, <1>5, NewMsgNumber
  <1>7. Adopted(msg, entry) = IF WakeupBit(next) = 1 THEN next ELSE (next + 1) % SeqnoMod
    BY <1>4 DEF Adopted
  <1> HIDE DEF next, u, e
  <1>8. /\ u \in Int /\ u % 2 = 0 /\ WakeupBit(next) \in {0, 1} /\ next = u + WakeupBit(next)
        /\ next \in Nat /\ u <= SeqnoMod - 4
    BY <1>3, TrueNumber, ModulusIsEven DEF Seqno, u, Usable
  <1>9. e.seqno = u + 1 /\ u + 1 \in Seqno
    <2>1. u + 1 < SeqnoMod /\ 0 <= u + 1
      BY <1>3, <1>8, ModulusIsEven DEF Usable
    <2>2. (u + 1) % SeqnoMod = u + 1
      BY <1>8, <2>1, ModulusIsEven
    <2>3. e.seqno = u + 1
      BY <1>6, <1>7, <1>8, <2>2
    <2> QED BY <1>8, <2>1, <2>3, ModulusIsEven DEF Seqno
  <1>10. TrueSeqno(e.seqno) = u
    BY <1>8, <1>9, TrueOfSum
  <1>11. DInv'
    BY <1>1, <1>3, <1>6, <1>9, <1>10, SourceStep DEF entry
  <1> QED BY <1>1, <1>11, SourceKeepsUp

-----------------------------------------------------------------------------
(***************************************************************************)
(* The specification.                                                      *)
(***************************************************************************)

\* At first only the source has a number.
LEMMA DripInit ==
  ASSUME Init PROVE DInv
  <1> DEFINE first == [InitEntry EXCEPT !.seqno = FirstSeqno]
  <1>1. /\ IsEntry(InitEntry) /\ IsNumber(InitEntry.seqno)
        /\ TrueSeqno(InitEntry.seqno) = DRIP_SEQNO_UNKNOWN
    BY ModulusIsEven DEF InitEntry, IsEntry, IsNumber, TrueSeqno, DRIP_SEQNO_UNKNOWN, Seqno
  <1>2. IsEntry(first) /\ first.seqno = FirstSeqno
    BY <1>1, SetNumber
  <1>3. FirstSeqno \in Seqno /\ Usable(TrueSeqno(FirstSeqno)) /\ IsNumber(FirstSeqno)
        /\ TrueSeqno(FirstSeqno) # DRIP_SEQNO_UNKNOWN
    <2>1. FirstSeqno \in Seqno /\ TrueSeqno(FirstSeqno) \notin {0, 2, SeqnoMod - 2}
      BY DripAssumption DEF Reserved, DRIP_SEQNO_OLDEST, DRIP_SEQNO_NEWEST, DRIP_SEQNO_UNKNOWN
    <2>2. FirstSeqno \in Int /\ 0 <= FirstSeqno /\ FirstSeqno < SeqnoMod
      BY <2>1, ModulusIsEven DEF Seqno
    <2>3. /\ TrueSeqno(FirstSeqno) \in Int /\ TrueSeqno(FirstSeqno) % 2 = 0
          /\ TrueSeqno(FirstSeqno) <= FirstSeqno /\ FirstSeqno <= TrueSeqno(FirstSeqno) + 1
      BY <2>2 DEF TrueSeqno
    <2>4. Usable(TrueSeqno(FirstSeqno))
      <3> DEFINE t == TrueSeqno(FirstSeqno)
      <3> HIDE DEF t
      <3>1. PICK h \in Nat : SeqnoMod = 2 * h
        BY ModulusIsEven
      <3>2. PICK g \in Int : t = 2 * g
        BY <2>3 DEF t
      <3>3. 2 <= g /\ g <= h - 2
        BY <2>1, <2>2, <2>3, <3>1, <3>2 DEF t
      <3> QED BY <3>1, <3>2, <3>3 DEF Usable, t
    <2> QED BY <2>1, <2>4 DEF IsNumber, DRIP_SEQNO_UNKNOWN
  <1> HIDE DEF first, InitEntry
  <1>4. /\ dripCache = [n \in Nodes |-> IF n = Source THEN first ELSE InitEntry]
        /\ cached = [n \in Nodes |-> 0] /\ msgBuf = [n \in Nodes |-> NoMsg] /\ changes = 0
    BY DEF Init, first
  <1>5. Source \in Nodes /\ MaxBehind \in Nat
    BY DripAssumption
  <1>6. StateOK
    BY <1>1, <1>2, <1>3, <1>4 DEF StateOK
  <1>7. CachesOK
    BY <1>1, <1>2, <1>3, <1>4, <1>5 DEF CachesOK
  <1>8. \A m \in Known : m.data = 0 /\ m.seqno = FirstSeqno
    <2> SUFFICES ASSUME NEW m \in Known PROVE m.data = 0 /\ m.seqno = FirstSeqno
      OBVIOUS
    <2>1. PICK n \in Nodes : m = Cache(n)
      BY <1>4, SaidIs DEF Known
    <2>2. TrueSeqno(m.seqno) # DRIP_SEQNO_UNKNOWN
      BY DEF Known
    <2> QED BY <1>1, <1>2, <1>4, <2>1, <2>2 DEF Cache
  <1>9. NoneTooOld
    BY <1>4, <1>5, <1>8 DEF NoneTooOld
  <1>10. NumbersCount
    <2>1. TrueSeqno(FirstSeqno) \in Int
      BY <1>3, TrueNumber, ModulusIsEven DEF Seqno
    <2> QED BY <1>8, <2>1 DEF NumbersCount, Apart
  <1> QED BY <1>6, <1>7, <1>9, <1>10 DEF DInv

\* The same data, or more, in every step of a node that does not restart.
LEMMA DripNext ==
  ASSUME NearEnough, KeepsWakeupBit, DInv, [Next]_vars
  PROVE  DInv' /\ \A n \in Nodes : cached'[n] >= cached[n] \/ Restart(n)
  <1> DEFINE Keeps == \A n \in Nodes : cached'[n] >= cached[n] \/ Restart(n)
  <1>1. \A n \in Nodes : cached[n] \in Nat
    BY DEF DInv, StateOK
  <1>2. ASSUME cached' = cached PROVE Keeps
    BY <1>1, <1>2
  <1>3. CASE UNCHANGED vars
    <2>1. DInv'
      BY <1>3 DEF vars, DInv, StateOK, CachesOK, NoneTooOld, NumbersCount, Known, Said
    <2> QED BY <1>2, <1>3, <2>1 DEF vars
  <1>4. ASSUME NEW n \in Nodes, FiredSilently(n) PROVE DInv' /\ Keeps
    BY <1>2, <1>4, FiredSilentlyStep DEF FiredSilently
  <1>5. ASSUME NEW n \in Nodes, FiredAndSent(n) PROVE DInv' /\ Keeps
    BY <1>2, <1>5, FiredAndSentStep DEF FiredAndSent
  <1>6. ASSUME NEW n \in Nodes, sendDone(n) PROVE DInv' /\ Keeps
    BY <1>2, <1>6, sendDoneStep DEF sendDone
  <1>7. ASSUME NEW n \in Nodes, Restart(n) PROVE DInv' /\ Keeps
    <2>1. \A k \in Nodes \ {n} : cached'[k] = cached[k]
      BY <1>7 DEF Restart, DInv, StateOK
    <2> QED BY <1>1, <1>7, <2>1, RestartStep
  <1>8. ASSUME NEW l \in Links, Receive(l[1], l[2]) PROVE DInv' /\ Keeps
    <2>1. l[1] \in Nodes /\ l[2] \in Nodes
      BY DripAssumption
    <2>2. /\ DInv' /\ cached'[l[1]] >= cached[l[1]]
          /\ \A k \in Nodes \ {l[1]} : cached'[k] = cached[k]
      BY <1>8, <2>1, ReceiveStep
    <2> QED BY <1>1, <2>2
  <1>9. CASE change
    BY <1>9, changeStep
  <1>10. ASSUME NEW bit \in WakeupBits, Inject(bit) PROVE DInv' /\ Keeps
    <2>1. bit = 1
      BY DripAssumption DEF KeepsWakeupBit
    <2> QED BY <1>10, <2>1, InjectStep
  <1> QED BY <1>3, <1>4, <1>5, <1>6, <1>7, <1>8, <1>9, <1>10 DEF Next

LEMMA DripInvariant ==
  ASSUME NearEnough, KeepsWakeupBit PROVE Spec => []DInv
  <1>1. Init => DInv
    BY DripInit
  <1>2. DInv /\ [Next]_vars => DInv'
    BY DripNext
  <1> QED BY <1>1, <1>2, PTL DEF Spec

\* Of two numbers that nodes have or announce, the one that is ahead stands for
\* the later change, and equal numbers for the same, for ever and also where
\* the numbers have wrapped: suppressing equal numbers and taking newer ones
\* (newMsg) is right.
THEOREM NumbersOrderData ==
  ASSUME NearEnough, KeepsWakeupBit PROVE Spec => []SeqnoOrdersData
  <1>1. DInv => SeqnoOrdersData
    BY KnownInOrder DEF SeqnoOrdersData
  <1> QED BY <1>1, DripInvariant, PTL

\* A node that does not restart never takes older data: receive takes only
\* numbers that are ahead, and these are later.
THEOREM NodesNeverGoBack ==
  ASSUME NearEnough, KeepsWakeupBit PROVE Spec => NeverGoesBack
  <1>1. DInv /\ [Next]_vars
          => [\A n \in Nodes : cached'[n] >= cached[n] \/ Restart(n)]_vars
    BY DripNext
  <1> QED BY <1>1, DripInvariant, PTL DEF Spec, NeverGoesBack

-----------------------------------------------------------------------------
(***************************************************************************)
(* Types, and the length of the intervals.                                 *)
(***************************************************************************)

\* A longer interval is longer: 2^j counts the subsets of 1 .. j.
LEMMA PowerGrows ==
  ASSUME NEW i \in Nat, NEW j \in Nat, i <= j
  PROVE  2 ^ i \in Nat /\ 2 ^ j \in Nat /\ 2 ^ i <= 2 ^ j
  <1> DEFINE P(n) == SUBSET (1 .. n)
  <1>1. ASSUME NEW n \in Nat
        PROVE  /\ IsFiniteSet(P(n)) /\ Cardinality(P(n)) = 2 ^ n /\ Cardinality(P(n)) \in Nat
    <2>1. IsFiniteSet(1 .. n) /\ Cardinality(1 .. n) = n
      BY FS_Interval
    <2>2. IsFiniteSet(P(n)) /\ Cardinality(P(n)) = 2 ^ n
      BY <2>1, FS_SUBSET
    <2>3. Cardinality(P(n)) \in Nat
      BY <2>2, FS_CardinalityType
    <2> QED BY <2>2, <2>3
  <1>2. P(i) \in SUBSET P(j)
    OBVIOUS
  <1> HIDE DEF P
  <1>3. Cardinality(P(i)) <= Cardinality(P(j))
    BY <1>1, <1>2, FS_Subset
  <1> QED BY <1>1, <1>3

LongestInterval == 2 ^ DRIP_MAX_SEND_INTERVAL
Stages == DRIP_MIN_SEND_INTERVAL .. DRIP_MAX_SEND_INTERVAL
Times == 0 .. LongestInterval

LEMMA IntervalsFit ==
  ASSUME NEW g \in Stages
  PROVE  /\ 2 ^ g \in Times /\ Announcements(g) \subseteq Times
         /\ 0 \in Times /\ LongestInterval \in Nat /\ DRIP_MIN_SEND_INTERVAL \in Stages
  <1>1. g \in Nat /\ DRIP_MAX_SEND_INTERVAL \in Nat /\ g <= DRIP_MAX_SEND_INTERVAL
    BY DripStateAssumption DEF Stages, DRIP_MIN_SEND_INTERVAL
  <1>2. 2 ^ g \in Nat /\ LongestInterval \in Nat /\ 2 ^ g <= LongestInterval
    BY <1>1, PowerGrows DEF LongestInterval
  <1>3. 2 ^ g >= 4 => 2 ^ (g - 1) \in Nat /\ 2 ^ (g - 1) <= LongestInterval
    <2> SUFFICES ASSUME 2 ^ g >= 4 PROVE 2 ^ (g - 1) \in Nat /\ 2 ^ (g - 1) <= LongestInterval
      OBVIOUS
    <2>1. 2 ^ 0 = 1
      OBVIOUS
    <2>2. g # 0
      <3> SUFFICES ASSUME g = 0 PROVE FALSE
        OBVIOUS
      <3>1. 2 ^ g = 2 ^ 0
        OBVIOUS
      <3> QED BY <2>1, <3>1
    <2>3. g - 1 \in Nat /\ g - 1 <= DRIP_MAX_SEND_INTERVAL
      BY <1>1, <2>2
    <2> QED BY <1>1, <2>3, PowerGrows DEF LongestInterval
  <1>4. Announcements(g) \subseteq Times
    <2>1. CASE 2 ^ g < 4
      BY <1>2, <2>1 DEF Announcements, Times
    <2>2. CASE 2 ^ g >= 4
      <3> DEFINE half == 2 ^ (g - 1)
      <3>1. Announcements(g) = 0 .. half - 1
        BY <1>2, <2>2 DEF Announcements
      <3>2. half \in Nat /\ half <= LongestInterval
        BY <1>3, <2>2
      <3> HIDE DEF half
      <3> QED BY <1>2, <3>1, <3>2 DEF Times
    <2> QED BY <1>2, <2>1, <2>2
  <1> QED BY <1>1, <1>2, <1>4 DEF Times, Stages, DRIP_MIN_SEND_INTERVAL

LEMMA EntryIs ==
  Entry = [seqno : Seqno, trickleAnnounce : Times, trickleCountdown : Times,
           trickleStage : Stages, trickleSuppress : BOOLEAN, sent : BOOLEAN]
  BY DEF Entry, Times, Stages, LongestInterval

\* One of the next four numbers is not reserved.
LEMMA IncrementType ==
  ASSUME NEW s \in Seqno PROVE incrementSeqno(s) \in Seqno
  <1> DEFINE t == TrueSeqno(s)
             After(k) == (s + 2 * k) % SeqnoMod
             Free(k) == TrueSeqno(After(k)) \notin Reserved
             First(k) == Free(k) /\ \A j \in 1 .. k - 1 : ~Free(j)
  <1>1. incrementSeqno(s) = After(CHOOSE k \in 1 .. 4 : First(k))
    BY DEF incrementSeqno
  <1>2. /\ s \in Int /\ 0 <= s /\ s < SeqnoMod
        /\ t \in Int /\ t <= s /\ s <= t + 1 /\ SeqnoMod \in Nat /\ SeqnoMod > 24
    BY ModulusIsEven DEF Seqno, TrueSeqno
  <1> HIDE DEF t
  <1>3. ASSUME NEW k \in 1 .. 4
        PROVE  /\ After(k) \in Seqno
               /\ After(k) = IF s + 2 * k < SeqnoMod THEN s + 2 * k ELSE s + 2 * k - SeqnoMod
    <2> DEFINE x == s + 2 * k
    <2>1. x \in Int /\ 0 <= x /\ x < 2 * SeqnoMod
      BY <1>2
    <2>2. After(k) = x % SeqnoMod
      OBVIOUS
    <2> HIDE DEF x, After
    <2>3. After(k) = IF x < SeqnoMod THEN x ELSE x - SeqnoMod
      BY <1>2, <2>1, <2>2, Wrapped
    <2>4. After(k) \in Seqno
      <3>1. CASE x < SeqnoMod
        BY <1>2, <2>1, <2>3, <3>1 DEF Seqno
      <3>2. CASE ~(x < SeqnoMod)
        BY <1>2, <2>1, <2>3, <3>2 DEF Seqno
      <3> QED BY <3>1, <3>2
    <2>5. x = s + 2 * k
      BY DEF x
    <2>6. After(k) = IF s + 2 * k < SeqnoMod THEN s + 2 * k ELSE s + 2 * k - SeqnoMod
      <3>1. k \in Int /\ x \in Int
        BY <2>1
      <3> QED BY ONLY <1>2, <2>3, <2>5, <3>1
    <2> QED BY ONLY <2>4, <2>6
  <1> HIDE DEF After
  <1>4. \E k \in 1 .. 4 : Free(k)
    <2>1. \A k \in 1 .. 4 : /\ TrueSeqno(After(k)) \in Int
                            /\ TrueSeqno(After(k)) \in {After(k), After(k) - 1}
      <3> TAKE k \in 1 .. 4
      <3>1. After(k) \in Int
        BY <1>3, ModulusIsEven DEF Seqno
      <3> QED BY <3>1 DEF TrueSeqno
    <2>2. SUFFICES ASSUME \A k \in 1 .. 4 : TrueSeqno(After(k)) \in {SeqnoMod - 2, 0, 2}
                   PROVE  FALSE
      BY DEF Reserved, DRIP_SEQNO_OLDEST, DRIP_SEQNO_NEWEST, DRIP_SEQNO_UNKNOWN
    <2>3. \A k \in 1 .. 4 : After(k) \in {SeqnoMod - 2, SeqnoMod - 1, 0, 1, 2, 3}
      BY <1>2, <1>3, <2>1, <2>2 DEF Seqno
    <2>4. After(1) \in {SeqnoMod - 2, SeqnoMod - 1, 0, 1, 2, 3}
          /\ After(4) \in {SeqnoMod - 2, SeqnoMod - 1, 0, 1, 2, 3}
      BY <2>3
    <2> QED BY <1>2, <1>3, <2>4
  <1>5. \E k \in 1 .. 4 : First(k)
    <2> HIDE DEF Free
    <2>1. Free(1) \/ Free(2) \/ Free(3) \/ Free(4)
      BY <1>4
    <2>2. First(1) <=> Free(1)
      OBVIOUS
    <2>3. First(2) <=> Free(2) /\ ~Free(1)
      OBVIOUS
    <2>4. First(3) <=> Free(3) /\ ~Free(1) /\ ~Free(2)
      OBVIOUS
    <2>5. First(4) <=> Free(4) /\ ~Free(1) /\ ~Free(2) /\ ~Free(3)
      OBVIOUS
    <2> HIDE DEF First
    <2> QED BY <2>1, <2>2, <2>3, <2>4, <2>5
  <1> HIDE DEF First
  <1>6. (CHOOSE k \in 1 .. 4 : First(k)) \in 1 .. 4
    BY <1>5
  <1> QED BY <1>1, <1>3, <1>6

LEMMA TrickleTypes ==
  ASSUME NEW e \in Entry, NEW g \in Stages, NEW a \in Times, NEW s \in Seqno
  PROVE  /\ trickleSet(e, g, a) \in Entry /\ trickleReset(e, a) \in Entry
         /\ [e EXCEPT !.seqno = s] \in Entry
         /\ [e EXCEPT !.sent = TRUE] \in Entry
         /\ [e EXCEPT !.trickleSuppress = TRUE] \in Entry
         /\ Countdown(e) \in Entry
         /\ NextStage(e) \in Stages
  <1>1. ASSUME NEW h \in Stages PROVE trickleSet(e, h, a) \in Entry
    <2> DEFINE p == 2 ^ h
    <2>1. p \in Times
      BY IntervalsFit
    <2>2. trickleSet(e, h, a) =
            [e EXCEPT !.trickleStage = h, !.trickleCountdown = p, !.trickleAnnounce = a,
                      !.trickleSuppress = FALSE, !.sent = FALSE]
      BY DEF trickleSet
    <2> HIDE DEF p
    <2> QED BY <2>1, <2>2, EntryIs
  <1>2. trickleReset(e, a) \in Entry
    BY <1>1, IntervalsFit DEF trickleReset
  <1>3. /\ [e EXCEPT !.seqno = s] \in Entry
        /\ [e EXCEPT !.sent = TRUE] \in Entry
        /\ [e EXCEPT !.trickleSuppress = TRUE] \in Entry
    BY EntryIs
  <1>4. Countdown(e) \in Entry
    <2> DEFINE d == IF e.trickleCountdown > 0 THEN e.trickleCountdown - 1 ELSE 0
    <2>1. d \in Times
      BY EntryIs, IntervalsFit DEF Times
    <2>2. Countdown(e) = [e EXCEPT !.trickleCountdown = d]
      BY DEF Countdown
    <2> HIDE DEF d
    <2> QED BY <2>1, <2>2, EntryIs
  <1>5. NextStage(e) \in Stages
    BY EntryIs, DripStateAssumption DEF NextStage, Stages, DRIP_MIN_SEND_INTERVAL
  <1> QED BY <1>1, <1>2, <1>3, <1>4, <1>5

LEMMA CountersType ==
  ASSUME NEW e \in Entry, NEW a \in Times PROVE updateCounters(e, a) \in Entry
  <1> DEFINE d == Countdown(e)
  <1>0. DRIP_MIN_SEND_INTERVAL \in Stages /\ 0 \in Seqno
    BY DripStateAssumption DEF Stages, DRIP_MIN_SEND_INTERVAL, Seqno
  <1>1. d \in Entry
    BY <1>0, TrickleTypes
  <1>2. updateCounters(e, a) \in {d, [d EXCEPT !.sent = TRUE], trickleSet(d, NextStage(d), a)}
    BY DEF updateCounters
  <1> HIDE DEF d
  <1>3. NextStage(d) \in Stages
    BY <1>0, <1>1, TrickleTypes
  <1>4. trickleSet(d, NextStage(d), a) \in Entry /\ [d EXCEPT !.sent = TRUE] \in Entry
    BY <1>0, <1>1, <1>3, TrickleTypes
  <1> QED BY <1>1, <1>2, <1>4

LEMMA NewMsgType ==
  ASSUME NEW e \in Entry, NEW s,
         TrueSeqno(s) # DRIP_SEQNO_NEWEST => s \in Seqno
  PROVE  newMsg(s, e, 0) \in Entry
  <1> DEFINE next == incrementSeqno(e.seqno)
             f == [e EXCEPT !.seqno = Adopted(s, e)]
             g == [e EXCEPT !.trickleSuppress = TRUE]
  <1>0. /\ DRIP_MIN_SEND_INTERVAL \in Stages /\ 0 \in Seqno /\ 0 \in Times
        /\ e.seqno \in Seqno
    <2>1. DRIP_MIN_SEND_INTERVAL \in Stages /\ 0 \in Seqno
      BY DripStateAssumption DEF Stages, DRIP_MIN_SEND_INTERVAL, Seqno
    <2>2. e.seqno \in Seqno
      BY EntryIs
    <2> QED BY <2>1, <2>2, IntervalsFit
  <1>1. next \in Seqno
    BY <1>0, IncrementType
  <1>2. Adopted(s, e) \in Seqno
    <2>1. TrueSeqno(s) = DRIP_SEQNO_NEWEST => Adopted(s, e) \in {next, (next + 1) % SeqnoMod}
      BY DEF Adopted
    <2>2. TrueSeqno(s) # DRIP_SEQNO_NEWEST => Adopted(s, e) = s
      BY DEF Adopted
    <2> HIDE DEF next
    <2>3. (next + 1) % SeqnoMod \in Seqno
      BY <1>1, DripStateAssumption DEF Seqno
    <2> QED BY <1>1, <2>1, <2>2, <2>3
  <1>3. f \in Entry /\ g \in Entry
    BY <1>0, <1>2, TrickleTypes
  <1>4. newMsg(s, e, 0) \in {trickleReset(f, 0), g, trickleReset(e, 0)}
    BY DEF newMsg
  <1> HIDE DEF f, g
  <1>5. trickleReset(f, 0) \in Entry /\ trickleReset(e, 0) \in Entry
    BY <1>0, <1>3, TrickleTypes
  <1> QED BY <1>3, <1>4, <1>5

LEMMA InitEntryType ==
  /\ InitEntry \in Entry
  /\ [InitEntry EXCEPT !.seqno = FirstSeqno] \in Entry
  <1>1. /\ 0 \in Stages /\ DRIP_MIN_SEND_INTERVAL \in Stages
        /\ DRIP_SEQNO_UNKNOWN \in Seqno /\ FirstSeqno \in Seqno
    BY DripStateAssumption, DripAssumption
    DEF Stages, DRIP_MIN_SEND_INTERVAL, Seqno, DRIP_SEQNO_UNKNOWN
  <1>2. 2 ^ 0 = 1
    OBVIOUS
  <1>3. 1 \in Times /\ 0 \in Times
    BY <1>1, <1>2, IntervalsFit
  <1>4. InitEntry \in Entry
    BY <1>1, <1>3, EntryIs DEF InitEntry
  <1> QED BY <1>1, <1>3, <1>4, TrickleTypes

LEMMA TypesNext ==
  ASSUME DripTypeOK, [Next]_vars PROVE DripTypeOK'
  <1> USE DEF DripTypeOK
  <1>0. /\ MaxChanges \in Nat /\ MaxRestarts \in Nat /\ 0 \in Times /\ 0 \in Seqno
        /\ 0 \in Stages /\ Source \in Nodes
    BY DripAssumption, DripStateAssumption, InitEntryType, EntryIs
    DEF InitEntry, Seqno, Stages, DRIP_MIN_SEND_INTERVAL
  <1>1. CASE UNCHANGED vars
    BY <1>1 DEF vars
  <1>2. ASSUME NEW n \in Nodes, FiredSilently(n) PROVE DripTypeOK'
    <2>1. PICK a \in Announcements(NextStage(dripCache[n])) :
            dripCache' = [dripCache EXCEPT ![n] = updateCounters(dripCache[n], a)]
      BY <1>2 DEF FiredSilently
    <2>2. NextStage(dripCache[n]) \in Stages
      BY <1>0, TrickleTypes
    <2>3. a \in Times
      BY <2>1, <2>2, IntervalsFit
    <2> DEFINE e == updateCounters(dripCache[n], a)
    <2>4. e \in Entry
      BY <2>3, CountersType
    <2> HIDE DEF e
    <2>5. dripCache' = [dripCache EXCEPT ![n] = e]
      BY <2>1 DEF e
    <2> QED BY <1>2, <2>4, <2>5 DEF FiredSilently
  <1>3. ASSUME NEW n \in Nodes, FiredAndSent(n) PROVE DripTypeOK'
    <2> DEFINE e == updateCounters(dripCache[n], 0)
               f == [e EXCEPT !.sent = TRUE]
               m == [seqno |-> e.seqno, data |-> cached[n]]
    <2>1. /\ dripCache' = [dripCache EXCEPT ![n] = f]
          /\ msgBuf' = [msgBuf EXCEPT ![n] = m]
          /\ UNCHANGED <<cached, changes, restarts>>
      BY <1>3 DEF FiredAndSent
    <2>2. e \in Entry
      BY <1>0, CountersType
    <2> HIDE DEF e
    <2>3. f \in Entry
      BY <1>0, <2>2, TrickleTypes
    <2>4. m \in Messages
      BY <2>2, EntryIs DEF Messages
    <2> HIDE DEF f, m
    <2> QED BY <2>1, <2>3, <2>4
  <1>4. ASSUME NEW n \in Nodes, sendDone(n) PROVE DripTypeOK'
    BY <1>4 DEF sendDone
  <1>5. ASSUME NEW n \in Nodes, Restart(n) PROVE DripTypeOK'
    <2>1. restarts' \in 0 .. MaxRestarts
      BY <1>0, <1>5 DEF Restart
    <2>2. 0 \in 0 .. MaxChanges
      BY <1>0
    <2> QED BY <1>5, <2>1, <2>2, InitEntryType DEF Restart
  <1>6. ASSUME NEW l \in Links, Receive(l[1], l[2]) PROVE DripTypeOK'
    <2> DEFINE n == l[1]
               msg == msgBuf[l[2]]
               e == newMsg(msg.seqno, dripCache[n], 0)
               d == IF IsNewer(msg.seqno, dripCache[n]) THEN msg.data ELSE cached[n]
    <2>1. /\ dripCache' = [dripCache EXCEPT ![n] = e]
          /\ cached' = [cached EXCEPT ![n] = d]
          /\ UNCHANGED <<msgBuf, changes, restarts>>
      BY <1>6 DEF Receive
    <2>2. n \in Nodes /\ msg \in Messages
      BY <1>6, DripAssumption DEF Receive
    <2> HIDE DEF n, msg
    <2>3. msg.seqno \in Seqno /\ msg.data \in 0 .. MaxChanges
      BY <2>2 DEF Messages
    <2>4. e \in Entry
      BY <2>2, <2>3, NewMsgType
    <2>5. d \in 0 .. MaxChanges
      BY <2>2, <2>3
    <2> HIDE DEF e, d
    <2> QED BY <2>1, <2>2, <2>4, <2>5
  <1>7. ASSUME NEW e \in Entry, CanChange,
               dripCache' = [dripCache EXCEPT ![Source] = e],
               cached' = [cached EXCEPT ![Source] = changes + 1],
               changes' = changes + 1, UNCHANGED <<msgBuf, restarts>>
        PROVE  DripTypeOK'
    <2>1. changes + 1 \in 0 .. MaxChanges
      BY <1>0, <1>7 DEF CanChange
    <2> QED BY <1>0, <1>7, <2>1
  <1>8. CASE change
    <2> DEFINE next == incrementSeqno(dripCache[Source].seqno)
               f == [dripCache[Source] EXCEPT !.seqno = next]
               e == trickleReset(f, 0)
    <2>1. /\ CanChange /\ dripCache' = [dripCache EXCEPT ![Source] = e]
          /\ cached' = [cached EXCEPT ![Source] = changes + 1]
          /\ changes' = changes + 1 /\ UNCHANGED <<msgBuf, restarts>>
      BY <1>8 DEF change
    <2>2. next \in Seqno
      BY <1>0, EntryIs, IncrementType
    <2> HIDE DEF next
    <2>3. f \in Entry
      BY <1>0, <2>2, TrickleTypes
    <2> HIDE DEF f
    <2>4. e \in Entry
      BY <1>0, <2>3, TrickleTypes
    <2> HIDE DEF e
    <2> QED BY <1>7, <2>1, <2>4
  <1>9. ASSUME NEW bit \in WakeupBits, Inject(bit) PROVE DripTypeOK'
    <2> DEFINE msg == DRIP_SEQNO_NEWEST + bit
               e == newMsg(msg, dripCache[Source], 0)
    <2>1. /\ CanChange /\ dripCache' = [dripCache EXCEPT ![Source] = e]
          /\ cached' = [cached EXCEPT ![Source] = changes + 1]
          /\ changes' = changes + 1 /\ UNCHANGED <<msgBuf, restarts>>
      BY <1>9 DEF Inject
    <2>2. msg \in {0, 1}
      BY DripAssumption DEF DRIP_SEQNO_NEWEST
    <2> HIDE DEF msg
    <2>3. TrueSeqno(msg) = DRIP_SEQNO_NEWEST
      BY <2>2 DEF TrueSeqno, DRIP_SEQNO_NEWEST
    <2>4. e \in Entry
      BY <1>0, <2>3, NewMsgType
    <2> HIDE DEF e
    <2> QED BY <1>7, <2>1, <2>4
  <1> QED BY <1>1, <1>2, <1>3, <1>4, <1>5, <1>6, <1>8, <1>9 DEF Next

\* The entries keep their types, the number of an entry is a uint16_t, and the
\* countdown never passes the longest interval (trickleSet, updateCounters).
THEOREM DripTypeCorrect == Spec => []DripTypeOK
  <1>1. Init => DripTypeOK
    <2> SUFFICES ASSUME Init PROVE DripTypeOK
      OBVIOUS
    <2>1. 0 \in 0 .. MaxChanges /\ 0 \in 0 .. MaxRestarts
      BY DripAssumption
    <2> QED BY <2>1, InitEntryType DEF Init, DripTypeOK
  <1>2. DripTypeOK /\ [Next]_vars => DripTypeOK'
    BY TypesNext
  <1> QED BY <1>1, <1>2, PTL DEF Spec

=============================================================================
