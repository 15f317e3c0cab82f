--------------------------- MODULE InternalFlashC ---------------------------
(***************************************************************************)
(* The information memory of the msp430 as a store of single bytes         *)
(* (TOSBoot/msp430/InternalFlashC.nc).  The flash is erased by the segment *)
(* only, so a write erases the segment that is not in use, copies the      *)
(* other one into it with the written bytes replaced, and stores a newer   *)
(* version number in its last byte: the segment is then the one in use.    *)
(*                                                                         *)
(* Power may be lost between any two accesses of the flash.  An erase or   *)
(* the programming of one byte either happens or does not: a byte that is  *)
(* half programmed is beyond this model.                                   *)
(***************************************************************************)
EXTENDS Integers

CONSTANTS
  Size,        \* IFLASH_SIZE - 1: the bytes before the version number
  Byte,
  Blank,       \* 0xff: an erased byte
  Half,        \* 2^7: version numbers are int8_t
  NoRequest    \* no write is in progress

Addresses == 0 .. Size - 1

ASSUME FlashAssumption ==
  /\ Size \in Nat
  /\ Blank \in Byte
  /\ Half \in Nat
  /\ Half > 2
  /\ NoRequest \notin [Addresses -> Byte]

IFLASH_INVALID_VNUM == -1

VARIABLES
  segment,     \* the two segments: their bytes and their version numbers
  newSegment,  \* the segment that is being written
  newPtr,      \* the next byte to write; Size: the version number; Size + 1: none
  buf,         \* the bytes to replace
  outcome      \* history: how the last write ended

flashVars == <<segment, newSegment, newPtr, buf, outcome>>

Segments == {0, 1}
Int8 == -Half .. Half - 1

\* The conversion of a sum or a difference of two int8_t to int8_t.
ToInt8(n) ==
  IF n >= Half THEN n - 2 * Half ELSE IF n < -Half THEN n + 2 * Half ELSE n

\* A faulty choice that compares the version numbers as they are.
ChooseLarger ==
  IF segment[0].vnum = IFLASH_INVALID_VNUM THEN 1
  ELSE IF segment[1].vnum = IFLASH_INVALID_VNUM THEN 0
  ELSE IF segment[0].vnum < segment[1].vnum THEN 1 ELSE 0

\* The segment in use: the one whose version number is ahead.
chooseSegment ==
  IF segment[0].vnum = IFLASH_INVALID_VNUM THEN 1
  ELSE IF segment[1].vnum = IFLASH_INVALID_VNUM THEN 0
  ELSE IF ToInt8(segment[0].vnum - segment[1].vnum) < 0 THEN 1 ELSE 0

\* A faulty successor that is wider than the byte.
VersionAfterUnchecked(v) == v + 1

VersionAfter(v) ==
  LET version == ToInt8(v + 1)
  IN  IF version = IFLASH_INVALID_VNUM THEN 0 ELSE version

Stored == segment[chooseSegment].bytes

ErasedSegment == [bytes |-> [a \in Addresses |-> Blank], vnum |-> IFLASH_INVALID_VNUM]

FlashIdle == newPtr = Size + 1

FlashInit ==
  /\ segment = [s \in Segments |-> ErasedSegment]
  /\ newSegment = 0
  /\ newPtr = Size + 1
  /\ buf = << >>
  /\ outcome = "lost"

-----------------------------------------------------------------------------

\* InternalFlash.write of the bytes b up to the erasure.
StartWrite(b) ==
  /\ FlashIdle
  /\ newSegment' = 1 - chooseSegment
  /\ newPtr' = 0
  /\ buf' = b
  /\ segment' = [segment EXCEPT ![1 - chooseSegment] = ErasedSegment]
  /\ UNCHANGED outcome

\* One round of its loop.
CopyByte ==
  /\ newPtr \in Addresses
  /\ segment' = [segment EXCEPT ![newSegment].bytes[newPtr] =
                   IF newPtr \in DOMAIN buf THEN buf[newPtr]
                   ELSE segment[1 - newSegment].bytes[newPtr]]
  /\ newPtr' = newPtr + 1
  /\ UNCHANGED <<newSegment, buf, outcome>>

\* The version number, and the return.
WriteVersion ==
  /\ newPtr = Size
  /\ segment' = [segment EXCEPT ![newSegment].vnum = VersionAfter(segment[1 - newSegment].vnum)]
  /\ newPtr' = Size + 1
  /\ buf' = << >>
  /\ outcome' = "returned"
  /\ UNCHANGED newSegment

WriteStep == CopyByte \/ WriteVersion

\* Power is lost: the write ends where it is.
PowerLoss ==
  /\ newPtr' = Size + 1
  /\ buf' = << >>
  /\ outcome' = "lost"
  /\ UNCHANGED <<segment, newSegment>>

\* Any bytes may be written, one run of addresses at a time.
Buffers == UNION {[lo .. hi -> Byte] : lo, hi \in Addresses}

FlashNext ==
  \/ \E b \in Buffers : StartWrite(b)
  \/ WriteStep
  \/ PowerLoss

FlashSpec == FlashInit /\ [][FlashNext]_flashVars

-----------------------------------------------------------------------------

\* What the write in progress is to leave.
Requested ==
  IF FlashIdle THEN NoRequest
  ELSE [a \in Addresses |-> IF a \in DOMAIN buf THEN buf[a] ELSE Stored[a]]

Atomic == INSTANCE AtomicFlash WITH contents <- Stored, request <- Requested

\* A write takes effect whole, at the store of the version number, or not at
\* all, whatever the accesses of the flash between which power is lost and
\* however often version numbers have wrapped.
ImplementsAtomicFlash == Atomic!Spec

=============================================================================
