----------------------------- MODULE DripStateM -----------------------------
(***************************************************************************)
(* One entry of the cache of Drip (tos/lib/Drip/DripStateM.nc): sequence   *)
(* numbers, and the Trickle timer that decides when to announce one.       *)
(*                                                                         *)
(* The low bit of a sequence number is the wake-up flag; three of the      *)
(* others are reserved.  Operators take and return an entry; Random.rand   *)
(* is the parameter announce of those that set the timer.                  *)
(***************************************************************************)
EXTENDS Integers

CONSTANTS
  SeqnoMod,                \* 2^16: sequence numbers are uint16_t
  DRIP_MAX_SEND_INTERVAL

ASSUME DripStateAssumption ==
  /\ SeqnoMod \in Nat
  /\ SeqnoMod > 24
  /\ SeqnoMod % 2 = 0
  /\ DRIP_MAX_SEND_INTERVAL \in Nat

Seqno == 0 .. SeqnoMod - 1

DRIP_SEQNO_OLDEST == SeqnoMod - 2
DRIP_SEQNO_NEWEST == 0
DRIP_SEQNO_UNKNOWN == 2
DRIP_MIN_SEND_INTERVAL == 0

Reserved == {DRIP_SEQNO_OLDEST, DRIP_SEQNO_NEWEST, DRIP_SEQNO_UNKNOWN}

\* seqno & DRIP_WAKEUP_BIT and seqno & ~DRIP_WAKEUP_BIT.
WakeupBit(s) == s % 2
TrueSeqno(s) == s - (s % 2)

Entry == [seqno : Seqno, trickleAnnounce : 0 .. 2 ^ DRIP_MAX_SEND_INTERVAL,
          trickleCountdown : 0 .. 2 ^ DRIP_MAX_SEND_INTERVAL,
          trickleStage : DRIP_MIN_SEND_INTERVAL .. DRIP_MAX_SEND_INTERVAL,
          trickleSuppress : BOOLEAN, sent : BOOLEAN]

\* The announcement times of an interval of length 2^stage.
Announcements(stage) == IF 2 ^ stage < 4 THEN {0} ELSE 0 .. 2 ^ (stage - 1) - 1

\* A faulty trickleSet that leaves the suppression of the last interval.
trickleSetSuppressed(e, stage, announce) ==
  [e EXCEPT !.trickleStage = stage, !.trickleCountdown = 2 ^ stage,
            !.trickleAnnounce = announce, !.sent = FALSE]

\* trickleSet: a new interval.
trickleSet(e, stage, announce) ==
  [e EXCEPT !.trickleStage = stage, !.trickleCountdown = 2 ^ stage,
            !.trickleAnnounce = announce, !.trickleSuppress = FALSE, !.sent = FALSE]

trickleReset(e, announce) == trickleSet(e, DRIP_MIN_SEND_INTERVAL, announce)

\* DripState.init.
InitEntry == [seqno |-> DRIP_SEQNO_UNKNOWN, trickleAnnounce |-> 0, trickleCountdown |-> 1,
              trickleStage |-> DRIP_MIN_SEND_INTERVAL, trickleSuppress |-> FALSE, sent |-> FALSE]

\* A faulty successor that does not pass over the reserved numbers.
PlainSuccessor(s) == (s + 2) % SeqnoMod

\* incrementSeqno: the next number that is not reserved.
incrementSeqno(s) ==
  LET After(k) == (s + 2 * k) % SeqnoMod
      Free(k) == TrueSeqno(After(k)) \notin Reserved
  IN  After(CHOOSE k \in 1 .. 4 : Free(k) /\ \A j \in 1 .. k - 1 : ~Free(j))

\* A faulty comparison without wrap-around.
GreaterThan(incoming, current) == incoming > current

\* (int16_t)(incoming - current) > 0.
IsAhead(incoming, current) ==
  LET diff == (incoming - current) % SeqnoMod IN 0 < diff /\ diff < SeqnoMod \div 2

\* newMsg's first test: the incoming message is newer than the entry.
IsNewer(seqno, e) ==
  LET incoming == TrueSeqno(seqno)
      current == TrueSeqno(e.seqno)
  IN  /\ incoming \notin {DRIP_SEQNO_UNKNOWN, DRIP_SEQNO_OLDEST}
      /\ current # DRIP_SEQNO_UNKNOWN =>
           IsAhead(incoming, current) \/ incoming = DRIP_SEQNO_NEWEST

\* Its second test.
IsEqual(seqno, e) ==
  /\ ~IsNewer(seqno, e)
  /\ TrueSeqno(seqno) = TrueSeqno(e.seqno)
  /\ TrueSeqno(seqno) # DRIP_SEQNO_OLDEST

\* The number a newer message gets: its own, or the next one if it comes from
\* outside, changed by one where the wake-up bits differ.
Adopted(seqno, e) ==
  IF TrueSeqno(seqno) # DRIP_SEQNO_NEWEST THEN seqno
  ELSE LET next == incrementSeqno(e.seqno)
       IN  IF WakeupBit(next) = WakeupBit(seqno) THEN next ELSE (next + 1) % SeqnoMod

\* newMsg: take a newer number, suppress the announcement of an equal one, and
\* answer an older one.
newMsg(seqno, e, announce) ==
  CASE IsNewer(seqno, e) -> trickleReset([e EXCEPT !.seqno = Adopted(seqno, e)], announce)
    [] IsEqual(seqno, e) -> [e EXCEPT !.trickleSuppress = TRUE]
    [] OTHER -> trickleReset(e, announce)

IsDue(e) == e.trickleCountdown <= e.trickleAnnounce /\ ~e.sent

\* A faulty count that does not stop at 0.
CountdownBelowZero(e) == [e EXCEPT !.trickleCountdown = e.trickleCountdown - 1]

Countdown(e) ==
  [e EXCEPT !.trickleCountdown = IF e.trickleCountdown > 0 THEN e.trickleCountdown - 1 ELSE 0]

\* The stage of the next interval.
NextStage(e) ==
  IF e.trickleStage < DRIP_MAX_SEND_INTERVAL THEN e.trickleStage + 1 ELSE e.trickleStage

\* updateCounters for one entry: count down, drop an announcement that is due
\* but suppressed, and start the next interval, longer, when this one is over.
updateCounters(e, announce) ==
  LET d == Countdown(e)
  IN  CASE IsDue(d) /\ d.trickleSuppress -> [d EXCEPT !.sent = TRUE]
        [] ~IsDue(d) /\ d.trickleCountdown = 0 -> trickleSet(d, NextStage(d), announce)
        [] OTHER -> d

=============================================================================
