----------------------------- MODULE BootProofs -----------------------------
(***************************************************************************)
(* Proofs about the boot loader and the information memory it keeps its    *)
(* arguments in.                                                           *)
(*                                                                         *)
(* First, that the two segments of the information memory implement a      *)
(* store whose writes happen whole or not at all (AtomicFlash), for a      *)
(* segment of any size, any bytes and version numbers of any width above   *)
(* three values: these proofs use FlashAssumption only.                    *)
(*                                                                         *)
(* Then, about the loader above that store: the golden image takes three   *)
(* resets in a row, and a boot that ends runs the image that was asked     *)
(* for, for any number of pages, images and volumes, wherever the resets   *)
(* fall.                                                                   *)
(***************************************************************************)
EXTENDS TOSBootM, TLAPS

SegmentType == [bytes : [Addresses -> Byte], vnum : Int8]

FlashTypeOK ==
  /\ segment \in [Segments -> SegmentType]
  /\ newSegment \in Segments
  /\ newPtr \in 0 .. Size + 1
  /\ DOMAIN buf \subseteq Addresses
  /\ \A a \in DOMAIN buf : buf[a] \in Byte

\* While a write is in progress, the segment it writes has no version number, the
\* other one is in use, and what is copied so far is what is asked for.
WriteInProgress ==
  ~FlashIdle =>
    /\ segment[newSegment].vnum = IFLASH_INVALID_VNUM
    /\ chooseSegment = 1 - newSegment
    /\ \A a \in Addresses : a < newPtr => segment[newSegment].bytes[a] = Requested[a]

FlashInv == FlashTypeOK /\ WriteInProgress

-----------------------------------------------------------------------------

\* The segment in use depends on the version numbers only.
Choice(v0, v1) ==
  IF v0 = IFLASH_INVALID_VNUM THEN 1
  ELSE IF v1 = IFLASH_INVALID_VNUM THEN 0
  ELSE IF ToInt8(v0 - v1) < 0 THEN 1 ELSE 0

\* The segment in use is one of the two.
LEMMA ChoiceIsSegment == chooseSegment \in Segments
  BY DEF chooseSegment, Segments

\* A version number is followed by one that is valid and is ahead of it, also
\* where int8_t wraps and where -1 is left out: the segment just written is the
\* one that is chosen.  ToInt8 and VersionAfter of InternalFlashC.nc:65 and :98.
LEMMA NewVersionIsChosen ==
  ASSUME NEW v \in Int8
  PROVE  /\ VersionAfter(v) \in Int8
         /\ VersionAfter(v) # IFLASH_INVALID_VNUM
         /\ Choice(VersionAfter(v), v) = 0
         /\ v # IFLASH_INVALID_VNUM => Choice(v, VersionAfter(v)) = 1
  BY FlashAssumption DEF Int8, VersionAfter, Choice, ToInt8, IFLASH_INVALID_VNUM

\* Likewise from an erased segment 0.
LEMMA FirstVersionIsChosen ==
  ASSUME NEW v \in Int8
  PROVE  Choice(IFLASH_INVALID_VNUM, v) = 1
  BY DEF Choice

LEMMA ChoiceOfSegments ==
  /\ chooseSegment = Choice(segment[0].vnum, segment[1].vnum)
  /\ chooseSegment' = Choice(segment'[0].vnum, segment'[1].vnum)
  BY DEF chooseSegment, Choice

-----------------------------------------------------------------------------

LEMMA InitInv == FlashInit => FlashInv
  <1> SUFFICES ASSUME FlashInit PROVE FlashInv
    OBVIOUS
  <1>1. ErasedSegment \in SegmentType
    BY FlashAssumption DEF ErasedSegment, SegmentType, Int8, IFLASH_INVALID_VNUM
  <1>2. FlashTypeOK
    BY <1>1, FlashAssumption DEF FlashInit, FlashTypeOK, Segments
  <1>3. FlashIdle
    BY DEF FlashInit, FlashIdle
  <1> QED
    BY <1>2, <1>3 DEF FlashInv, WriteInProgress

\* The start of a write erases the segment that is not in use: the contents are
\* unchanged, and the request is the one asked for.
LEMMA StartWriteStep ==
  ASSUME FlashInv, NEW b \in Buffers, StartWrite(b)
  PROVE  /\ FlashInv' /\ Atomic!Ask
         /\ FlashIdle /\ ~FlashIdle'
         /\ Stored' = Stored
         /\ Requested' = [a \in Addresses |-> IF a \in DOMAIN b THEN b[a] ELSE Stored[a]]
  <1> DEFINE new == 1 - chooseSegment
  <1>1. chooseSegment \in Segments /\ new \in Segments /\ new # chooseSegment
    BY ChoiceIsSegment DEF Segments
  <1>2. DOMAIN b \subseteq Addresses /\ \A a \in DOMAIN b : b[a] \in Byte
    <2>1. PICK lo \in Addresses, hi \in Addresses : b \in [lo .. hi -> Byte]
      BY DEF Buffers
    <2>2. lo .. hi \subseteq Addresses
      BY FlashAssumption DEF Addresses
    <2> QED
      BY <2>1, <2>2
  <1>3. ErasedSegment \in SegmentType
    BY FlashAssumption DEF ErasedSegment, SegmentType, Int8, IFLASH_INVALID_VNUM
  <1>4. /\ segment' \in [Segments -> SegmentType]
        /\ segment'[new] = ErasedSegment
        /\ segment'[chooseSegment] = segment[chooseSegment]
    BY <1>1, <1>3 DEF StartWrite, FlashInv, FlashTypeOK
  <1>5. FlashTypeOK'
    BY <1>1, <1>2, <1>4, FlashAssumption DEF StartWrite, FlashTypeOK
  <1>6. chooseSegment' = chooseSegment
    BY <1>1, <1>4 DEF chooseSegment, Segments, ErasedSegment
  <1>7. newSegment' = new /\ newPtr' = 0 /\ buf' = b /\ FlashIdle /\ ~FlashIdle'
    BY FlashAssumption DEF StartWrite, FlashIdle
  <1>8. WriteInProgress'
    BY <1>1, <1>4, <1>6, <1>7, FlashAssumption
    DEF WriteInProgress, ErasedSegment, Addresses, Segments
  <1>9. Stored' = Stored /\ Stored \in [Addresses -> Byte]
    BY <1>1, <1>4, <1>6 DEF Stored, FlashInv, FlashTypeOK, SegmentType
  <1>10. Requested = NoRequest /\ Requested' \in [Addresses -> Byte]
    BY <1>2, <1>7, <1>9 DEF Requested
  <1>11. Requested' = [a \in Addresses |-> IF a \in DOMAIN b THEN b[a] ELSE Stored[a]]
    BY <1>7, <1>9 DEF Requested
  <1> QED
    BY <1>5, <1>7, <1>8, <1>9, <1>10, <1>11 DEF FlashInv, Atomic!Ask, Atomic!Contents, StartWrite

\* A byte copied changes neither the contents nor the request.
LEMMA CopyByteStep ==
  ASSUME FlashInv, CopyByte
  PROVE  FlashInv' /\ UNCHANGED <<Stored, Requested, outcome>> /\ ~FlashIdle /\ ~FlashIdle'
  <1> DEFINE old == 1 - newSegment
             byte == IF newPtr \in DOMAIN buf THEN buf[newPtr] ELSE segment[old].bytes[newPtr]
             copied == [segment[newSegment] EXCEPT !.bytes[newPtr] = byte]
  <1>1. newSegment \in Segments /\ old \in Segments /\ old # newSegment
    BY DEF FlashInv, FlashTypeOK, Segments
  <1>2. ~FlashIdle /\ newPtr \in Addresses /\ newPtr' = newPtr + 1
    BY FlashAssumption DEF CopyByte, FlashIdle, Addresses
  <1>3. chooseSegment = old /\ segment[newSegment].vnum = IFLASH_INVALID_VNUM
    BY <1>2 DEF FlashInv, WriteInProgress
  <1>4. /\ segment \in [Segments -> SegmentType]
        /\ segment[newSegment] \in SegmentType
        /\ segment[old] \in SegmentType
    BY <1>1 DEF FlashInv, FlashTypeOK
  <1>5. byte \in Byte
    BY <1>2, <1>4 DEF FlashInv, FlashTypeOK, SegmentType
  <1>6. /\ copied \in SegmentType
        /\ copied.vnum = segment[newSegment].vnum
        /\ copied.bytes = [segment[newSegment].bytes EXCEPT ![newPtr] = byte]
    BY <1>2, <1>4, <1>5 DEF SegmentType
  <1>7. segment' = [segment EXCEPT ![newSegment] = copied]
    BY <1>1, <1>4 DEF CopyByte
  <1> HIDE DEF copied, byte
  <1>8. /\ segment' \in [Segments -> SegmentType]
        /\ segment'[newSegment] = copied
        /\ segment'[old] = segment[old]
    BY <1>1, <1>4, <1>6, <1>7
  <1>9. UNCHANGED <<newSegment, buf, outcome>>
    BY DEF CopyByte
  <1>10. FlashTypeOK'
    BY <1>2, <1>8, <1>9, FlashAssumption DEF FlashInv, FlashTypeOK, Addresses
  <1>11. chooseSegment' = chooseSegment
    BY <1>1, <1>6, <1>8 DEF chooseSegment, Segments
  <1>12. Stored' = Stored
    BY <1>1, <1>3, <1>8, <1>11 DEF Stored
  <1>13. ~FlashIdle'
    BY <1>2, FlashAssumption DEF FlashIdle, Addresses
  <1>14. Requested' = Requested
    BY <1>2, <1>9, <1>12, <1>13 DEF Requested
  <1>15. Requested[newPtr] = byte
    BY <1>2, <1>3 DEF Requested, Stored, byte
  <1>16. ASSUME NEW a \in Addresses, a < newPtr'
         PROVE  segment'[newSegment'].bytes[a] = Requested'[a]
    <2>1. CASE a = newPtr
      BY <1>2, <1>4, <1>6, <1>8, <1>9, <1>14, <1>15, <2>1 DEF SegmentType
    <2>2. CASE a # newPtr
      <3>1. a < newPtr
        BY <1>2, <1>16, <2>2, FlashAssumption DEF Addresses
      <3>2. segment[newSegment].bytes[a] = Requested[a]
        BY <1>2, <3>1 DEF FlashInv, WriteInProgress
      <3> QED
        BY <1>4, <1>6, <1>8, <1>9, <1>14, <2>2, <3>2 DEF SegmentType
    <2> QED
      BY <2>1, <2>2
  <1>17. WriteInProgress'
    BY <1>3, <1>6, <1>8, <1>9, <1>11, <1>16 DEF WriteInProgress
  <1> QED
    BY <1>2, <1>9, <1>10, <1>12, <1>13, <1>14, <1>17 DEF FlashInv

\* The version number makes the segment the one in use: the contents become what
\* was asked for.
LEMMA WriteVersionStep ==
  ASSUME FlashInv, WriteVersion
  PROVE  FlashInv' /\ Atomic!Complete /\ ~FlashIdle /\ FlashIdle' /\ Stored' = Requested
  <1> DEFINE old == 1 - newSegment
             v == segment[old].vnum
             done == [segment[newSegment] EXCEPT !.vnum = VersionAfter(v)]
  <1>1. newSegment \in Segments /\ old \in Segments /\ old # newSegment
    BY DEF FlashInv, FlashTypeOK, Segments
  <1>2. ~FlashIdle /\ newPtr = Size /\ newPtr' = Size + 1 /\ FlashIdle'
    BY FlashAssumption DEF WriteVersion, FlashIdle
  <1>3. chooseSegment = old
    BY <1>2 DEF FlashInv, WriteInProgress
  <1>4. /\ segment \in [Segments -> SegmentType]
        /\ segment[newSegment] \in SegmentType
        /\ segment[old] \in SegmentType
        /\ v \in Int8
    BY <1>1 DEF FlashInv, FlashTypeOK, SegmentType
  <1>5. VersionAfter(v) \in Int8
    BY <1>4, NewVersionIsChosen
  <1>6. /\ done \in SegmentType
        /\ done.vnum = VersionAfter(v)
        /\ done.bytes = segment[newSegment].bytes
    BY <1>4, <1>5 DEF SegmentType
  <1>7. segment' = [segment EXCEPT ![newSegment] = done]
    BY <1>1, <1>4 DEF WriteVersion
  <1> HIDE DEF done
  <1>8. /\ segment' \in [Segments -> SegmentType]
        /\ segment'[newSegment] = done
        /\ segment'[old] = segment[old]
    BY <1>1, <1>4, <1>6, <1>7
  <1>9. FlashTypeOK'
    BY <1>2, <1>8, FlashAssumption DEF WriteVersion, FlashInv, FlashTypeOK
  <1>10. chooseSegment' = newSegment
    <2>1. CASE newSegment = 0
      <3>1. segment'[0].vnum = VersionAfter(v) /\ segment'[1].vnum = v
        BY <1>1, <1>6, <1>8, <2>1
      <3> QED
        BY <1>4, <2>1, <3>1, ChoiceOfSegments, NewVersionIsChosen
    <2>2. CASE newSegment = 1
      <3>1. segment'[0].vnum = v /\ segment'[1].vnum = VersionAfter(v)
        BY <1>1, <1>6, <1>8, <2>2
      <3>2. v # IFLASH_INVALID_VNUM
        BY <1>3, <2>2 DEF chooseSegment
      <3> QED
        BY <1>4, <2>2, <3>1, <3>2, ChoiceOfSegments, NewVersionIsChosen
    <2> QED
      BY <1>1, <2>1, <2>2 DEF Segments
  <1>11. Stored' = segment[newSegment].bytes
    BY <1>6, <1>8, <1>10 DEF Stored
  <1>12. Stored \in [Addresses -> Byte]
    BY <1>3, <1>4 DEF Stored, SegmentType
  <1>13. Requested \in [Addresses -> Byte]
    BY <1>2, <1>12 DEF Requested, FlashInv, FlashTypeOK
  <1>14. \A a \in Addresses : segment[newSegment].bytes[a] = Requested[a]
    BY <1>2, FlashAssumption DEF FlashInv, WriteInProgress, Addresses
  <1>15. segment[newSegment].bytes = Requested
    BY <1>4, <1>13, <1>14 DEF SegmentType
  <1>16. Requested # NoRequest
    BY <1>13, FlashAssumption
  <1>17. Requested' = NoRequest
    BY <1>2 DEF Requested
  <1>18. WriteInProgress'
    BY <1>2 DEF WriteInProgress
  <1> QED
    BY <1>2, <1>9, <1>11, <1>15, <1>16, <1>17, <1>18 DEF FlashInv, Atomic!Complete, WriteVersion

\* A loss of power forgets the request.
LEMMA PowerLossStep ==
  ASSUME FlashInv, PowerLoss
  PROVE  FlashInv' /\ Atomic!Forget /\ FlashIdle' /\ Stored' = Stored
  <1>1. FlashIdle'
    BY DEF PowerLoss, FlashIdle
  <1>2. Stored' = Stored
    BY DEF PowerLoss, Stored, chooseSegment
  <1>3. FlashTypeOK'
    BY FlashAssumption DEF PowerLoss, FlashInv, FlashTypeOK
  <1> QED
    BY <1>1, <1>2, <1>3 DEF FlashInv, WriteInProgress, Requested, PowerLoss, Atomic!Forget

\* A step of the rest of the program.
LEMMA FlashUntouched ==
  ASSUME FlashInv, UNCHANGED flashVars
  PROVE  FlashInv' /\ UNCHANGED <<Stored, Requested>> /\ FlashIdle' = FlashIdle
  BY DEF flashVars, FlashInv, FlashTypeOK, WriteInProgress, FlashIdle, Requested, Stored,
         chooseSegment

LEMMA FlashNextStep ==
  ASSUME FlashInv, [FlashNext]_flashVars
  PROVE  FlashInv' /\ [Atomic!Next]_(Atomic!vars)
  <1>1. CASE \E b \in Buffers : StartWrite(b)
    BY <1>1, StartWriteStep DEF Atomic!Next
  <1>2. CASE CopyByte
    BY <1>2, CopyByteStep DEF Atomic!vars
  <1>3. CASE WriteVersion
    BY <1>3, WriteVersionStep DEF Atomic!Next
  <1>4. CASE PowerLoss
    BY <1>4, PowerLossStep DEF Atomic!Next
  <1>5. CASE UNCHANGED flashVars
    BY <1>5, FlashUntouched DEF flashVars, Atomic!vars
  <1> QED
    BY <1>1, <1>2, <1>3, <1>4, <1>5 DEF FlashNext, WriteStep

\* The invariant holds of the flash whatever is written and whenever power fails.
THEOREM FlashInvariant == FlashSpec => []FlashInv
  <1>1. FlashInv /\ [FlashNext]_flashVars => FlashInv'
    BY FlashNextStep
  <1> QED
    BY <1>1, InitInv, PTL DEF FlashSpec

\* The two segments implement the store whose writes are atomic: what
\* InternalFlash promises to TOSBootM and NetProgM.
THEOREM FlashImplementsAtomicFlash == FlashSpec => ImplementsAtomicFlash
  <1>1. FlashInit => Atomic!Init
    <2> SUFFICES ASSUME FlashInit PROVE Atomic!Init
      OBVIOUS
    <2>1. FlashInv
      BY InitInv
    <2>2. Stored \in [Addresses -> Byte]
      BY <2>1, ChoiceIsSegment DEF FlashInv, FlashTypeOK, SegmentType, Stored
    <2> QED
      BY <2>2 DEF FlashInit, FlashIdle, Requested, Atomic!Init, Atomic!Contents
  <1>2. FlashInv /\ [FlashNext]_flashVars => [Atomic!Next]_(Atomic!vars)
    BY FlashNextStep
  <1> QED
    BY <1>1, <1>2, FlashInvariant, PTL DEF FlashSpec, ImplementsAtomicFlash, Atomic!Spec

-----------------------------------------------------------------------------
(***************************************************************************)
(* The invariant of the loader's arguments and of its count of resets.     *)
(***************************************************************************)

\* The contents c of the information memory hold the arguments a.
Holds(c, a) ==
  /\ c[imageAddr] = a.imageAddr
  /\ c[gestureCount] = a.gestureCount
  /\ c[noReprogram] = a.noReprogram

\* How many boots without an end a stored count stands for.
Counts(g) == IF g = 255 THEN 0 ELSE g + 1

\* The count that is stored is never more than the resets there have been.
CounterOK ==
  /\ Stored[gestureCount] \in {255, 0, 1}
  /\ Counts(Stored[gestureCount]) <= resets

\* What the write of each stage is to leave, and has left once it is done.
WriteOK ==
  /\ stage \in {"reset", "writePages", "startupLeds", "program"} => FlashIdle
  /\ stage = "count" =>
       /\ args.gestureCount \in {0, 1}
       /\ args.gestureCount < resets
       /\ FlashIdle => Holds(Stored, args)
       /\ ~FlashIdle =>
            /\ Holds(Requested, args)
            /\ Stored[imageAddr] = args.imageAddr
            /\ Stored[noReprogram] = args.noReprogram
            /\ Increment(Stored[gestureCount]) = args.gestureCount
  /\ stage = "resetArgs" /\ ~FlashIdle =>
       Requested[gestureCount] = 255 /\ Requested[noReprogram] = 1
  /\ stage = "reprogram" /\ ~FlashIdle =>
       Requested[gestureCount] = 255 /\ Requested[noReprogram] = 0
  /\ stage \in {"writeInfo", "writeDesc"} /\ ~FlashIdle => Holds(Requested, StoredArgs)

\* What the loader goes by when it programs.
GestureOK ==
  stage \in {"writePages", "startupLeds"} =>
    /\ IsGesture(args) => Stored[gestureCount] = 1 /\ resets = TOSBOOT_GESTURE_MAX_COUNT
    /\ ~IsGesture(args) => Holds(Stored, args)

\* The image that the node descriptor names is one of the volumes while Deluge may
\* ask for it.
DescOK ==
  /\ rebootDelay > 0 => stage \in {"program", "writeInfo", "writeDesc"}
  /\ rebootDelay > 0 => Stored[nodeDesc] \in Volumes
  /\ stage = "writeInfo" /\ ~FlashIdle => Requested[nodeDesc] = Stored[nodeDesc]
  /\ stage = "writeDesc" =>
       /\ FlashIdle => Stored[nodeDesc] \in Volumes
       /\ ~FlashIdle => Requested[nodeDesc] \in Volumes

\* The volume to program is one of the volumes.
AddressOK ==
  /\ Stored[noReprogram] = 0 => Stored[imageAddr] \in Volumes
  /\ stage = "reprogram" /\ ~FlashIdle => Requested[imageAddr] \in Volumes

ErasedOK == erased => page < Pages

CountInv ==
  FlashInv /\ BootTypeOK /\ ErasedOK /\ CounterOK /\ WriteOK /\ DescOK /\ AddressOK /\ GestureOK

\* The image that a request for volume v promises.
Promised(v) == IF Complete(v) THEN ImageAt(v) ELSE NoImage

ArgsType == [imageAddr : Byte, gestureCount : Byte, noReprogram : Byte]

-----------------------------------------------------------------------------

\* Bytes 0 to 4 are there.
LEMMA ArgAddresses ==
  /\ tosInfo \in Addresses /\ imageAddr \in Addresses
  /\ gestureCount \in Addresses /\ noReprogram \in Addresses
  /\ nodeDesc \in Addresses
  BY BootAssumption, FlashAssumption
  DEF Addresses, tosInfo, imageAddr, gestureCount, noReprogram, nodeDesc

LEMMA ByteValues == 0 \in Byte /\ 1 \in Byte /\ 2 \in Byte /\ 255 \in Byte /\ Volumes \subseteq Byte
  BY BootAssumption DEF Volumes, DELUGE_GOLDEN_IMAGE_NUM

LEMMA PageNumbers ==
  /\ 0 \in 0 .. Pages
  /\ DELUGE_GOLDEN_IMAGE_NUM \in Volumes
  /\ \A p \in 0 .. Pages : p < Pages => p \in AllPages /\ p + 1 \in 0 .. Pages
  BY BootAssumption DEF Volumes, AllPages

LEMMA StoredType ==
  ASSUME FlashInv
  PROVE  Stored \in [Addresses -> Byte]
  BY ChoiceIsSegment DEF FlashInv, FlashTypeOK, SegmentType, Stored

LEMMA RequestedType ==
  ASSUME FlashInv, ~FlashIdle
  PROVE  Requested \in [Addresses -> Byte]
  BY StoredType DEF FlashInv, FlashTypeOK, Requested

LEMMA BufferIs ==
  ASSUME NEW lo \in Addresses, NEW hi \in Addresses, NEW b \in [lo .. hi -> Byte]
  PROVE  b \in Buffers
  <1> DEFINE F(x, y) == [x .. y -> Byte]
             S == {F(x, y) : x, y \in Addresses}
  <1>1. b \in F(lo, hi)
    OBVIOUS
  <1>2. Buffers = UNION S
    BY DEF Buffers
  <1> HIDE DEF F
  <1>3. F(lo, hi) \in S
    OBVIOUS
  <1> HIDE DEF S
  <1> QED BY <1>1, <1>2, <1>3

\* A write of the loader's arguments.
LEMMA ArgWrite ==
  ASSUME FlashInv, NEW a \in ArgsType, StartWrite(ArgBytes(a))
  PROVE  /\ FlashInv' /\ Atomic!Ask
         /\ FlashIdle /\ ~FlashIdle'
         /\ Stored' = Stored
         /\ Holds(Requested', a)
         /\ outcome' = outcome
  <1> DEFINE b == ArgBytes(a)
  <1>1. b \in [imageAddr .. noReprogram -> Byte]
    <2>1. imageAddr .. noReprogram = {imageAddr, gestureCount, noReprogram}
      BY DEF imageAddr, gestureCount, noReprogram
    <2> QED BY <2>1 DEF ArgBytes, ArgsType, imageAddr, gestureCount, noReprogram
  <1>2. /\ DOMAIN b = {imageAddr, gestureCount, noReprogram}
        /\ b[imageAddr] = a.imageAddr
        /\ b[gestureCount] = a.gestureCount
        /\ b[noReprogram] = a.noReprogram
    BY DEF ArgBytes, imageAddr, gestureCount, noReprogram
  <1>3. b \in Buffers
    BY <1>1, ArgAddresses, BufferIs
  <1> HIDE DEF b
  <1>4. StartWrite(b)
    BY DEF b
  <1>5. /\ FlashInv' /\ Atomic!Ask
        /\ FlashIdle /\ ~FlashIdle'
        /\ Stored' = Stored
        /\ Requested' = [x \in Addresses |-> IF x \in DOMAIN b THEN b[x] ELSE Stored[x]]
    BY <1>3, <1>4, StartWriteStep
  <1>6. Holds(Requested', a)
    BY <1>2, <1>5, ArgAddresses DEF Holds
  <1> QED BY <1>4, <1>5, <1>6 DEF StartWrite

\* The writes of the node's address and of its descriptor leave the arguments
\* alone.
LEMMA InfoWrite ==
  ASSUME FlashInv, NEW x \in {tosInfo, nodeDesc}, NEW n \in Byte,
         StartWrite([b \in {x} |-> n])
  PROVE  /\ FlashInv' /\ Atomic!Ask
         /\ FlashIdle /\ ~FlashIdle'
         /\ Stored' = Stored
         /\ Holds(Requested', StoredArgs)
         /\ Requested'[x] = n
         /\ x # nodeDesc => Requested'[nodeDesc] = Stored[nodeDesc]
         /\ outcome' = outcome
  <1> DEFINE b == [y \in {x} |-> n]
  <1>1. x \in Addresses /\ x .. x = {x}
    BY ArgAddresses DEF tosInfo, nodeDesc
  <1>2. b \in [x .. x -> Byte]
    BY <1>1
  <1>3. b \in Buffers
    BY <1>1, <1>2, BufferIs
  <1>4. DOMAIN b = {x} /\ b[x] = n
    OBVIOUS
  <1> HIDE DEF b
  <1>5. StartWrite(b)
    BY DEF b
  <1>6. /\ FlashInv' /\ Atomic!Ask
        /\ FlashIdle /\ ~FlashIdle'
        /\ Stored' = Stored
        /\ Requested' = [y \in Addresses |-> IF y \in DOMAIN b THEN b[y] ELSE Stored[y]]
    BY <1>3, <1>5, StartWriteStep
  <1>7. Holds(Requested', StoredArgs)
    BY <1>4, <1>6, ArgAddresses
    DEF Holds, StoredArgs, tosInfo, imageAddr, gestureCount, noReprogram, nodeDesc
  <1>8. Requested'[x] = n /\ (x # nodeDesc => Requested'[nodeDesc] = Stored[nodeDesc])
    BY <1>1, <1>4, <1>6, ArgAddresses
  <1> QED BY <1>5, <1>6, <1>7, <1>8 DEF StartWrite

\* The flash's part of the type invariant.
LEMMA FlashTypes ==
  ASSUME FlashInv
  PROVE  /\ segment \in [Segments -> [bytes : [Addresses -> Byte], vnum : Int8]]
         /\ newSegment \in Segments
         /\ newPtr \in 0 .. Size + 1
  BY DEF FlashInv, FlashTypeOK, SegmentType

\* The arguments of a boot: the stored ones, with the count incremented.
LEMMA StartedArgsAre ==
  ASSUME CountInv
  PROVE  /\ StartedArgs \in ArgsType
         /\ StartedArgs.imageAddr = Stored[imageAddr]
         /\ StartedArgs.noReprogram = Stored[noReprogram]
         /\ StartedArgs.gestureCount = Increment(Stored[gestureCount])
         /\ IsGesture(StartedArgs) <=> Stored[gestureCount] = 1
         /\ Stored[gestureCount] = 255 => StartedArgs.gestureCount = 0
         /\ Stored[gestureCount] = 0 => StartedArgs.gestureCount = 1
         /\ Stored[gestureCount] = 1 => StartedArgs.gestureCount = 2
  <1>1. Stored \in [Addresses -> Byte] /\ Stored[gestureCount] \in {255, 0, 1}
    BY StoredType DEF CountInv, CounterOK
  <1>2. StartedArgs = [imageAddr |-> Stored[imageAddr],
                       gestureCount |-> Increment(Stored[gestureCount]),
                       noReprogram |-> Stored[noReprogram]]
    BY DEF StartedArgs, StoredArgs
  <1>3. Increment(Stored[gestureCount]) = CASE Stored[gestureCount] = 255 -> 0
                                            [] Stored[gestureCount] = 0 -> 1
                                            [] Stored[gestureCount] = 1 -> 2
    BY <1>1 DEF Increment
  <1> QED
    BY <1>1, <1>2, <1>3, ArgAddresses, ByteValues
    DEF ArgsType, IsGesture, TOSBOOT_GESTURE_MAX_COUNT

-----------------------------------------------------------------------------

LEMMA CountInit == Init => CountInv
  <1> SUFFICES ASSUME Init PROVE CountInv
    OBVIOUS
  <1>1. FlashInv
    BY InitInv DEF Init
  <1>2. FlashIdle
    BY DEF Init, FlashInit, FlashIdle
  <1>3. Stored[gestureCount] = 255 /\ Stored[noReprogram] = 255
    BY ChoiceIsSegment, ArgAddresses, BootAssumption DEF Init, FlashInit, Stored, ErasedSegment
  <1>4. BootTypeOK
    <2>1. program \in [AllPages -> AllImages]
      BY DEF Init, AllImages
    <2>2. volume \in [Volumes -> [image : AllImages, good : 0 .. Pages]]
      BY BootAssumption DEF Init, NoVolume, AllImages
    <2>3. args \in [imageAddr : Byte, gestureCount : Byte, noReprogram : Byte]
      BY BootAssumption, ByteValues DEF Init, NoArgs
    <2>4. /\ source \in Volumes /\ page \in 0 .. Pages
          /\ resets \in 0 .. TOSBOOT_GESTURE_MAX_COUNT
          /\ rebootDelay \in 0 .. DELUGE_REBOOT_DELAY
      BY BootAssumption DEF Init, Volumes, TOSBOOT_GESTURE_MAX_COUNT
    <2>5. intended \in AllImages
      BY DEF Init, AllImages
    <2> QED
      BY <1>1, <2>1, <2>2, <2>3, <2>4, <2>5, FlashTypes DEF BootTypeOK, Init, FlashInit
  <1> QED
    BY <1>1, <1>2, <1>3, <1>4
    DEF Init, CountInv, ErasedOK, CounterOK, Counts, WriteOK, DescOK, AddressOK, GestureOK

-----------------------------------------------------------------------------

\* What a step that does not write the flash leaves.
LEMMA CountUntouched ==
  ASSUME CountInv, UNCHANGED flashVars
  PROVE  /\ FlashInv'
         /\ Stored' = Stored /\ Requested' = Requested /\ FlashIdle' = FlashIdle
         /\ StoredArgs' = StoredArgs
         /\ segment' \in [Segments -> [bytes : [Addresses -> Byte], vnum : Int8]]
         /\ newSegment' \in Segments
         /\ newPtr' \in 0 .. Size + 1
         /\ outcome' \in {"returned", "lost"}
         /\ resets' = resets => CounterOK'
  <1>1. FlashInv' /\ UNCHANGED <<Stored, Requested>> /\ FlashIdle' = FlashIdle
    BY FlashUntouched DEF CountInv
  <1>2. UNCHANGED <<segment, newSegment, newPtr, outcome>>
    BY DEF flashVars
  <1> QED BY <1>1, <1>2, FlashTypes DEF CountInv, BootTypeOK, StoredArgs, CounterOK

LEMMA LowVoltageCounts ==
  ASSUME CountInv, LowVoltage PROVE CountInv'
  <1> USE DEF CountInv, LowVoltage, loaderVars
  <1>1. BootTypeOK'
    BY CountUntouched DEF BootTypeOK
  <1> QED BY <1>1, CountUntouched DEF ErasedOK, WriteOK, DescOK, AddressOK, GestureOK

\* The third reset in a row.
LEMMA GestureCounts ==
  ASSUME CountInv, Gesture PROVE CountInv'
  <1> USE DEF CountInv, Gesture
  <1>1. /\ args' = StartedArgs /\ StartedArgs \in ArgsType
        /\ IsGesture(args') /\ Stored[gestureCount] = 1
    BY StartedArgsAre
  <1>2. resets' = TOSBOOT_GESTURE_MAX_COUNT
    BY <1>1 DEF CounterOK, Counts, OneMoreReset, TOSBOOT_GESTURE_MAX_COUNT, BootTypeOK
  <1>3. CounterOK'
    BY <1>1, <1>2, CountUntouched DEF CounterOK, Counts, TOSBOOT_GESTURE_MAX_COUNT
  <1>4. /\ source' \in Volumes /\ page' \in 0 .. Pages /\ ~erased' /\ erased' \in BOOLEAN
        /\ stage' \in {"writePages", "startupLeds"}
    BY PageNumbers DEF programImage
  <1>5. intended' \in AllImages /\ resets' \in 0 .. TOSBOOT_GESTURE_MAX_COUNT
    BY <1>2 DEF AllImages, TOSBOOT_GESTURE_MAX_COUNT
  <1>6. BootTypeOK'
    BY <1>1, <1>4, <1>5, CountUntouched DEF BootTypeOK, ArgsType
  <1> QED
    BY <1>1, <1>2, <1>3, <1>4, <1>6, CountUntouched DEF ErasedOK, WriteOK, DescOK, AddressOK, GestureOK

\* A boot is counted.
LEMMA CountCounts ==
  ASSUME CountInv, Count PROVE CountInv'
  <1> USE DEF CountInv, Count
  <1>1. /\ args' = StartedArgs /\ StartedArgs \in ArgsType
        /\ StartedArgs.imageAddr = Stored[imageAddr]
        /\ StartedArgs.noReprogram = Stored[noReprogram]
        /\ StartedArgs.gestureCount = Increment(Stored[gestureCount])
        /\ \/ Stored[gestureCount] = 255 /\ StartedArgs.gestureCount = 0
           \/ Stored[gestureCount] = 0 /\ StartedArgs.gestureCount = 1
    BY StartedArgsAre DEF CounterOK
  <1>2. /\ FlashInv' /\ FlashIdle /\ ~FlashIdle' /\ Stored' = Stored
        /\ Holds(Requested', StartedArgs) /\ outcome' = outcome
    BY <1>1, ArgWrite
  <1>3. /\ resets' \in 0 .. TOSBOOT_GESTURE_MAX_COUNT /\ resets' >= resets
        /\ args'.gestureCount < resets'
    BY <1>1 DEF CounterOK, Counts, OneMoreReset, TOSBOOT_GESTURE_MAX_COUNT, BootTypeOK
  <1>4. CounterOK'
    BY <1>1, <1>2, <1>3 DEF CounterOK, Counts, BootTypeOK
  <1>5. BootTypeOK'
    BY <1>1, <1>2, <1>3, FlashTypes DEF BootTypeOK, ArgsType, FlashInv, FlashTypeOK, SegmentType
  <1>6. WriteOK'
    BY <1>1, <1>2, <1>3 DEF WriteOK
  <1> QED
    BY <1>1, <1>2, <1>4, <1>5, <1>6 DEF ErasedOK, DescOK, AddressOK, GestureOK

\* The volume that programImage is called with is the one that is stored.
LEMMA CountedCounts ==
  ASSUME CountInv, Counted PROVE CountInv'
  <1> USE DEF CountInv, Counted, historyVars
  <1>1. Holds(Stored, args) /\ ~IsGesture(args)
    BY DEF WriteOK, IsGesture, TOSBOOT_GESTURE_MAX_COUNT
  <1>2. /\ source' \in Volumes /\ page' \in 0 .. Pages
        /\ (erased' => erased /\ page' = page) /\ erased' \in BOOLEAN
    <2>1. CASE args.noReprogram = 0
      BY <1>1, <2>1, PageNumbers DEF Holds, AddressOK, programImage
    <2>2. CASE args.noReprogram # 0
      BY <2>2 DEF BootTypeOK
    <2> QED BY <2>1, <2>2
  <1>3. stage' \in {"writePages", "startupLeds"}
    BY DEF programImage
  <1>4. BootTypeOK'
    BY <1>2, <1>3, CountUntouched DEF BootTypeOK
  <1> QED
    BY <1>1, <1>2, <1>3, <1>4, CountUntouched DEF ErasedOK, WriteOK, DescOK, AddressOK, GestureOK, Holds

LEMMA ErasePageCounts ==
  ASSUME CountInv, ErasePage PROVE CountInv'
  <1> USE DEF CountInv, ErasePage, historyVars
  <1>1. BootTypeOK'
    <2>1. program' \in [AllPages -> AllImages]
      BY DEF BootTypeOK, AllImages
    <2> QED BY <2>1, CountUntouched DEF BootTypeOK
  <1> QED BY <1>1, CountUntouched DEF ErasedOK, WriteOK, DescOK, AddressOK, GestureOK

LEMMA WritePageCounts ==
  ASSUME CountInv, WritePage PROVE CountInv'
  <1> USE DEF CountInv, WritePage, historyVars
  <1>1. page' \in 0 .. Pages
    BY PageNumbers DEF ErasedOK, BootTypeOK
  <1>2. (IF page < volume[source].good THEN volume[source].image ELSE NoImage)
          \in AllImages
    BY DEF BootTypeOK, AllImages
  <1>3. program' \in [AllPages -> AllImages]
    BY <1>2 DEF BootTypeOK
  <1>4. BootTypeOK'
    BY <1>1, <1>3, CountUntouched DEF BootTypeOK
  <1> QED BY <1>4, CountUntouched DEF ErasedOK, WriteOK, DescOK, AddressOK, GestureOK

LEMMA ProgrammedCounts ==
  ASSUME CountInv, Programmed PROVE CountInv'
  <1> USE DEF CountInv, Programmed, loaderVars, historyVars
  <1>1. BootTypeOK'
    BY CountUntouched DEF BootTypeOK
  <1> QED BY <1>1, CountUntouched DEF ErasedOK, WriteOK, DescOK, AddressOK, GestureOK

\* The count is to be reset.
LEMMA ResetArgsCounts ==
  ASSUME CountInv, ResetArgs PROVE CountInv'
  <1> DEFINE a == [args EXCEPT !.gestureCount = 255, !.noReprogram = 1]
  <1> USE DEF CountInv
  <1>1. a \in ArgsType /\ a.gestureCount = 255 /\ a.noReprogram = 1
    BY ByteValues DEF BootTypeOK, ArgsType
  <1>2. StartWrite(ArgBytes(a)) /\ args' = a /\ stage' = "resetArgs"
    BY DEF ResetArgs
  <1> HIDE DEF a
  <1>3. /\ FlashInv' /\ FlashIdle /\ ~FlashIdle' /\ Stored' = Stored
        /\ Holds(Requested', a) /\ outcome' = outcome
    BY <1>1, <1>2, ArgWrite
  <1>4. UNCHANGED <<source, page, erased, program, volume, rebootDelay, historyVars>>
    BY DEF ResetArgs
  <1>5. BootTypeOK'
    BY <1>1, <1>2, <1>3, <1>4, FlashTypes
    DEF BootTypeOK, ArgsType, FlashInv, FlashTypeOK, SegmentType, historyVars
  <1>6. WriteOK'
    BY <1>2, <1>3, <1>1 DEF WriteOK, Holds
  <1>7. DescOK' /\ AddressOK'
    BY <1>2, <1>3, <1>4 DEF DescOK, AddressOK, ResetArgs
  <1> QED
    BY <1>2, <1>3, <1>4, <1>5, <1>6, <1>7
    DEF ErasedOK, CounterOK, GestureOK, historyVars

LEMMA runAppCounts ==
  ASSUME CountInv, runApp PROVE CountInv'
  <1> USE DEF CountInv, runApp, LeaveLoader
  <1>1. /\ args' \in ArgsType /\ source' \in Volumes /\ page' \in 0 .. Pages /\ ~erased'
        /\ erased' \in BOOLEAN
    BY PageNumbers, BootAssumption, ByteValues DEF NoArgs, ArgsType
  <1>2. BootTypeOK'
    BY <1>1, CountUntouched DEF BootTypeOK, ArgsType
  <1> QED BY <1>1, <1>2, CountUntouched DEF ErasedOK, WriteOK, DescOK, AddressOK, GestureOK

\* A byte of the segment that is not in use.
LEMMA CopyByteCounts ==
  ASSUME CountInv, FlashStep, CopyByte PROVE CountInv'
  <1> USE DEF CountInv
  <1>1. /\ FlashInv' /\ ~FlashIdle /\ ~FlashIdle' /\ Stored' = Stored /\ Requested' = Requested
        /\ outcome' = outcome
    BY CopyByteStep
  <1>2. /\ UNCHANGED <<stage, loaderVars, program, volume, completed>>
        /\ rebootDelay' = rebootDelay /\ resets' = resets /\ intended' = intended
    BY <1>1 DEF FlashStep
  <1>3. BootTypeOK'
    BY <1>1, <1>2, FlashTypes
    DEF BootTypeOK, loaderVars, FlashInv, FlashTypeOK, SegmentType
  <1>4. StoredArgs' = StoredArgs
    BY <1>1 DEF StoredArgs
  <1>5. WriteOK'
    BY <1>1, <1>2, <1>4 DEF WriteOK, loaderVars
  <1> QED
    BY <1>1, <1>2, <1>3, <1>5 DEF ErasedOK, CounterOK, DescOK, AddressOK, GestureOK, loaderVars

\* The version number: what is stored is what the stage asked for.
LEMMA WriteVersionCounts ==
  ASSUME CountInv, FlashStep, WriteVersion PROVE CountInv'
  <1> USE DEF CountInv
  <1>1. FlashInv' /\ ~FlashIdle /\ FlashIdle' /\ Stored' = Requested
    BY WriteVersionStep
  <1>2. /\ UNCHANGED <<stage, args, source, page, erased, program, volume, rebootDelay, completed>>
        /\ resets' = IF stage \in {"resetArgs", "reprogram"} THEN 0 ELSE resets
        /\ intended' = IF stage = "reprogram" THEN Promised(Requested[imageAddr]) ELSE intended
        /\ outcome' = "returned"
    BY <1>1 DEF FlashStep, WriteVersion, loaderVars, Promised
  <1>3. stage \in {"count", "resetArgs", "writeInfo", "writeDesc", "reprogram"}
    BY <1>1 DEF WriteOK, BootTypeOK
  <1>4. intended' \in AllImages /\ resets' \in 0 .. TOSBOOT_GESTURE_MAX_COUNT
    <2>1. Promised(Requested[imageAddr]) \in AllImages
      BY DEF BootTypeOK, Promised, Complete, ImageAt, AllImages
    <2>2. intended' \in AllImages
      <3>1. CASE stage = "reprogram"
        BY <1>2, <2>1, <3>1, Zenon
      <3>2. CASE stage # "reprogram"
        BY <1>2, <3>2, Zenon DEF BootTypeOK
      <3> QED BY <3>1, <3>2
    <2>3. resets' \in {0, resets} /\ resets \in 0 .. TOSBOOT_GESTURE_MAX_COUNT
      BY <1>2, Zenon DEF BootTypeOK
    <2> QED
      BY <2>2, <2>3 DEF TOSBOOT_GESTURE_MAX_COUNT
  <1>5. BootTypeOK'
    BY <1>1, <1>2, <1>4, FlashTypes DEF BootTypeOK, FlashInv, FlashTypeOK, SegmentType
  <1>6. CASE stage = "count"
    <2>1. /\ Holds(Requested, args) /\ args.gestureCount \in {0, 1} /\ args.gestureCount < resets
          /\ Stored[imageAddr] = args.imageAddr /\ Stored[noReprogram] = args.noReprogram
      BY <1>1, <1>6 DEF WriteOK
    <2>2. CounterOK'
      BY <1>1, <1>2, <1>6, <2>1 DEF Holds, CounterOK, Counts, BootTypeOK
    <2>3. AddressOK'
      BY <1>1, <1>2, <1>6, <2>1 DEF Holds, AddressOK
    <2> QED
      BY <1>1, <1>2, <1>5, <1>6, <2>1, <2>2, <2>3 DEF ErasedOK, WriteOK, DescOK, GestureOK
  <1>7. CASE stage \in {"resetArgs", "reprogram"}
    <2>1. Requested[gestureCount] = 255 /\ (Requested[noReprogram] = 0 => stage = "reprogram")
      <3>1. CASE stage = "resetArgs"
        BY <1>1, <3>1 DEF WriteOK, Holds, Increment
      <3>2. CASE stage = "reprogram"
        BY <1>1, <3>2 DEF WriteOK, Holds, Increment
      <3> QED BY <1>7, <3>1, <3>2
    <2>2. CounterOK'
      <3>1. resets' = 0
        BY <1>2, <1>7
      <3> QED BY <1>1, <2>1, <3>1 DEF CounterOK, Counts
    <2>3. AddressOK'
      BY <1>1, <1>2, <1>7, <2>1 DEF AddressOK
    <2> QED
      BY <1>1, <1>2, <1>5, <1>7, <2>1, <2>2, <2>3 DEF ErasedOK, WriteOK, DescOK, GestureOK
  <1>8. CASE stage \in {"writeInfo", "writeDesc"}
    <2>1. Holds(Requested, StoredArgs)
      BY <1>1, <1>8 DEF WriteOK
    <2>2. /\ Requested[imageAddr] = Stored[imageAddr]
          /\ Requested[gestureCount] = Stored[gestureCount]
          /\ Requested[noReprogram] = Stored[noReprogram]
      BY <2>1 DEF Holds, StoredArgs
    <2>3. CounterOK' /\ AddressOK'
      BY <1>1, <1>2, <1>8, <2>2 DEF CounterOK, AddressOK
    <2>4. DescOK'
      BY <1>1, <1>2, <1>8 DEF DescOK
    <2> QED
      BY <1>1, <1>2, <1>5, <1>8, <2>3, <2>4 DEF ErasedOK, WriteOK, GestureOK
  <1> QED BY <1>3, <1>6, <1>7, <1>8

LEMMA writeTOSinfoCounts ==
  ASSUME CountInv, writeTOSinfo PROVE CountInv'
  <1> USE DEF CountInv
  <1>1. StartWrite([b \in {tosInfo} |-> 1]) /\ stage = "program" /\ stage' = "writeInfo"
    BY DEF writeTOSinfo
  <1>2. UNCHANGED <<loaderVars, program, volume, rebootDelay, historyVars>>
    BY DEF writeTOSinfo
  <1>3. /\ FlashInv' /\ FlashIdle /\ ~FlashIdle' /\ Stored' = Stored
        /\ Holds(Requested', StoredArgs) /\ outcome' = outcome
        /\ Requested'[nodeDesc] = Stored[nodeDesc]
    <2>1. 1 \in Byte /\ tosInfo \in {tosInfo, nodeDesc} /\ tosInfo # nodeDesc
      BY ByteValues DEF tosInfo, nodeDesc
    <2> QED BY <1>1, <2>1, InfoWrite
  <1>4. BootTypeOK'
    BY <1>1, <1>2, <1>3, FlashTypes
    DEF BootTypeOK, loaderVars, historyVars, FlashInv, FlashTypeOK, SegmentType
  <1> QED
    BY <1>1, <1>2, <1>3, <1>4
    DEF ErasedOK, CounterOK, WriteOK, DescOK, AddressOK, GestureOK, loaderVars, historyVars, StoredArgs

\* A newer node descriptor comes.
LEMMA receiveNodeDescCounts ==
  ASSUME CountInv, NEW v \in Volumes, receiveNodeDesc(v) PROVE CountInv'
  <1> USE DEF CountInv
  <1>1. StartWrite([b \in {nodeDesc} |-> v]) /\ stage = "program" /\ stage' = "writeDesc"
    BY DEF receiveNodeDesc, Started
  <1>2. UNCHANGED <<loaderVars, program, volume, rebootDelay, historyVars>>
    BY DEF receiveNodeDesc
  <1>3. /\ FlashInv' /\ FlashIdle /\ ~FlashIdle' /\ Stored' = Stored
        /\ Holds(Requested', StoredArgs) /\ outcome' = outcome
        /\ Requested'[nodeDesc] = v
    BY <1>1, InfoWrite, ByteValues
  <1>4. BootTypeOK'
    BY <1>1, <1>2, <1>3, FlashTypes
    DEF BootTypeOK, loaderVars, historyVars, FlashInv, FlashTypeOK, SegmentType
  <1> QED
    BY <1>1, <1>2, <1>3, <1>4
    DEF ErasedOK, CounterOK, WriteOK, DescOK, AddressOK, GestureOK, loaderVars, historyVars,
        StoredArgs

\* What the program does without the flash.
LEMMA ProgramCounts ==
  ASSUME CountInv, FlashIdle,
         UNCHANGED <<flashVars, loaderVars, program, resets, completed>>,
         stage \in {"program", "writeInfo", "writeDesc", "reprogram"},
         stage' \in {stage, "program", "reset"},
         volume' \in [Volumes -> [image : AllImages, good : 0 .. Pages]],
         intended' \in AllImages,
         rebootDelay' \in 0 .. DELUGE_REBOOT_DELAY,
         rebootDelay' > 0 => stage' \in {"program", "writeInfo", "writeDesc"}
                             /\ Stored[nodeDesc] \in Volumes
  PROVE  CountInv'
  <1> USE DEF CountInv, loaderVars
  <1>1. BootTypeOK'
    BY CountUntouched DEF BootTypeOK
  <1>2. DescOK'
    BY CountUntouched DEF DescOK
  <1> QED BY <1>1, <1>2, CountUntouched DEF ErasedOK, WriteOK, AddressOK, GestureOK

\* The volumes keep their type.
LEMMA VolumeTypes ==
  ASSUME CountInv, NEW v \in Slots, NEW i \in AllImages \ {NoImage},
         setupNewImage(v) \/ eraseDone(v, i) \/ verifyDone(v)
  PROVE  volume' \in [Volumes -> [image : AllImages, good : 0 .. Pages]]
  <1> DEFINE T == [image : AllImages, good : 0 .. Pages]
  <1>1. v \in Volumes /\ volume \in [Volumes -> T] /\ volume[v] \in T
    BY DEF CountInv, BootTypeOK, Volumes
  <1>2. NoVolume \in T
    BY PageNumbers DEF NoVolume, AllImages
  <1>3. [volume[v] EXCEPT !.image = i] \in T
    BY <1>1 DEF AllImages
  <1>4. volume[v].good < Pages => [volume[v] EXCEPT !.good = @ + 1] \in T
    BY <1>1, PageNumbers
  <1>5. \E x \in T : volume' = [volume EXCEPT ![v] = x]
    <2>1. CASE setupNewImage(v)
      BY <1>2, <2>1 DEF setupNewImage
    <2>2. CASE eraseDone(v, i)
      BY <1>3, <2>2 DEF eraseDone
    <2>3. CASE verifyDone(v)
      BY <1>4, <2>3 DEF verifyDone
    <2> QED BY <2>1, <2>2, <2>3
  <1> HIDE DEF T
  <1>6. volume' \in [Volumes -> T]
    BY <1>1, <1>5
  <1> QED BY <1>6 DEF T

\* checkReboot starts a countdown for one of the volumes only.
LEMMA checkRebootCounts ==
  ASSUME CountInv, NEW images, checkReboot(images)
  PROVE  /\ rebootDelay' \in 0 .. DELUGE_REBOOT_DELAY
         /\ rebootDelay' # rebootDelay => Stored[nodeDesc] \in Volumes
  BY BootAssumption DEF checkReboot, CountInv, BootTypeOK

\* The volumes change, and with them perhaps the countdown.
LEMMA VolumeCounts ==
  ASSUME CountInv, NEW v \in Slots, NEW i \in AllImages \ {NoImage},
         setupNewImage(v) \/ eraseDone(v, i) \/ verifyDone(v)
  PROVE  CountInv'
  <1>1. /\ UNCHANGED <<flashVars, loaderVars, program, resets, completed>>
        /\ stage = "program" /\ stage' = stage /\ intended' \in AllImages
    BY DEF setupNewImage, eraseDone, verifyDone, Started, historyVars, CountInv, BootTypeOK, AllImages
  <1>2. /\ rebootDelay' \in 0 .. DELUGE_REBOOT_DELAY
        /\ rebootDelay' # rebootDelay => Stored[nodeDesc] \in Volumes
    <2>1. CASE setupNewImage(v)
      BY <2>1 DEF setupNewImage, CountInv, BootTypeOK
    <2>2. CASE eraseDone(v, i) \/ verifyDone(v)
      <3>1. checkReboot(volume')
        BY <2>2 DEF eraseDone, verifyDone
      <3> QED BY <3>1, checkRebootCounts
    <2> QED BY <2>1, <2>2
  <1>3. FlashIdle /\ (rebootDelay > 0 => Stored[nodeDesc] \in Volumes)
    BY <1>1 DEF CountInv, WriteOK, DescOK
  <1>4. rebootDelay' > 0 => Stored[nodeDesc] \in Volumes
    BY <1>2, <1>3
  <1> QED BY <1>1, <1>2, <1>3, <1>4, VolumeTypes, ProgramCounts

\* The descriptor is written: it names one of the volumes.
LEMMA nodeDescWrittenCounts ==
  ASSUME CountInv, nodeDescWritten PROVE CountInv'
  <1>1. /\ UNCHANGED <<flashVars, loaderVars, program, resets, completed, volume, intended>>
        /\ FlashIdle /\ stage = "writeDesc" /\ stage' = "program"
    BY DEF nodeDescWritten, historyVars
  <1>2. Stored[nodeDesc] \in Volumes
    BY <1>1 DEF CountInv, DescOK
  <1>3. rebootDelay' \in 0 .. DELUGE_REBOOT_DELAY
    BY checkRebootCounts, BootAssumption DEF nodeDescWritten
  <1> QED BY <1>1, <1>2, <1>3, ProgramCounts DEF CountInv, BootTypeOK

\* The program asks for an image.
LEMMA TimerfiredCounts ==
  ASSUME CountInv, Timer_fired PROVE CountInv'
  <1> DEFINE v == Stored[nodeDesc]
             a == [imageAddr |-> v, gestureCount |-> 255, noReprogram |-> 0]
  <1> USE DEF CountInv
  <1>1. /\ stage = "program" /\ FlashIdle /\ v \in Volumes
        /\ rebootDelay' \in 0 .. DELUGE_REBOOT_DELAY
    BY BootAssumption DEF Timer_fired, Started, WriteOK, DescOK, BootTypeOK
  <1>2. UNCHANGED <<loaderVars, program, volume, historyVars>>
    BY DEF Timer_fired
  <1>3. CASE rebootDelay' # 0
    BY <1>1, <1>2, <1>3, ProgramCounts DEF Timer_fired, BootTypeOK, historyVars
  <1>4. CASE rebootDelay' = 0
    <2>1. a \in ArgsType /\ a.imageAddr = v /\ a.gestureCount = 255 /\ a.noReprogram = 0
      BY <1>1, ByteValues DEF ArgsType
    <2>2. StartWrite(ArgBytes(a)) /\ stage' = "reprogram"
      BY <1>4 DEF Timer_fired, programImgAndReboot
    <2> HIDE DEF a
    <2>3. /\ FlashInv' /\ FlashIdle /\ ~FlashIdle' /\ Stored' = Stored
          /\ Holds(Requested', a) /\ outcome' = outcome
      BY <2>1, <2>2, ArgWrite
    <2>4. BootTypeOK'
      BY <1>1, <1>2, <2>2, <2>3, FlashTypes
      DEF BootTypeOK, loaderVars, historyVars, FlashInv, FlashTypeOK, SegmentType
    <2>5. AddressOK'
      BY <1>1, <2>1, <2>2, <2>3 DEF AddressOK, Holds
    <2>6. WriteOK' /\ DescOK'
      BY <1>4, <2>1, <2>2, <2>3 DEF WriteOK, DescOK, Holds
    <2> QED
      BY <1>1, <1>2, <2>2, <2>3, <2>4, <2>5, <2>6
      DEF ErasedOK, CounterOK, GestureOK, Holds, loaderVars, historyVars
  <1> QED BY <1>3, <1>4

\* A reset loses the write in progress, and nothing that is stored.
LEMMA ResetCounts ==
  ASSUME CountInv, Reset PROVE CountInv'
  <1> USE DEF CountInv, Reset, LeaveLoader, historyVars
  <1>1. FlashInv' /\ FlashIdle' /\ Stored' = Stored /\ outcome' = "lost"
    BY PowerLossStep DEF PowerLoss
  <1>2. /\ args' \in ArgsType /\ source' \in Volumes /\ page' \in 0 .. Pages /\ ~erased'
        /\ erased' \in BOOLEAN
    BY PageNumbers, BootAssumption, ByteValues DEF NoArgs, ArgsType
  <1>3. BootTypeOK'
    BY <1>1, <1>2, FlashTypes, BootAssumption
    DEF BootTypeOK, ArgsType, FlashInv, FlashTypeOK, SegmentType
  <1> QED
    BY <1>1, <1>2, <1>3 DEF ErasedOK, CounterOK, WriteOK, DescOK, AddressOK, GestureOK

LEMMA StutterCounts ==
  ASSUME CountInv, UNCHANGED vars PROVE CountInv'
  <1> USE DEF CountInv
  <1>1. UNCHANGED <<flashVars, stage, loaderVars, program, volume, rebootDelay, historyVars>>
    BY DEF vars
  <1>2. BootTypeOK'
    BY <1>1, CountUntouched DEF BootTypeOK, loaderVars, historyVars
  <1> QED
    BY <1>1, <1>2, CountUntouched
    DEF ErasedOK, WriteOK, DescOK, AddressOK, GestureOK, loaderVars, historyVars, Holds, Increment,
        IsGesture

LEMMA CountStep == CountInv /\ [Next]_vars => CountInv'
  <1> SUFFICES ASSUME CountInv, [Next]_vars PROVE CountInv'
    OBVIOUS
  <1>1. CASE Loader
    <2>1. CASE FlashStep
      BY <2>1, CopyByteCounts, WriteVersionCounts DEF FlashStep, WriteStep
    <2>2. CASE InfoWritten
      <3>1. /\ UNCHANGED <<flashVars, loaderVars, program, volume, rebootDelay, historyVars>>
            /\ FlashIdle /\ stage = "writeInfo" /\ stage' = "program"
        BY <2>2 DEF InfoWritten
      <3>2. rebootDelay > 0 => Stored[nodeDesc] \in Volumes
        BY DEF CountInv, DescOK
      <3> QED BY <3>1, <3>2, ProgramCounts DEF CountInv, BootTypeOK, historyVars
    <2>3. CASE netprog_reboot
      <3>1. /\ UNCHANGED <<flashVars, loaderVars, program, volume, rebootDelay, historyVars>>
            /\ FlashIdle /\ stage = "reprogram" /\ stage' = "reset"
        BY <2>3 DEF netprog_reboot
      <3>2. ~(rebootDelay > 0)
        BY <3>1 DEF CountInv, DescOK
      <3> QED BY <3>1, <3>2, ProgramCounts DEF CountInv, BootTypeOK, historyVars
    <2> QED
      BY <1>1, <2>1, <2>2, <2>3, LowVoltageCounts, GestureCounts, CountCounts, CountedCounts,
         ErasePageCounts, WritePageCounts, ProgrammedCounts, ResetArgsCounts, runAppCounts,
         nodeDescWrittenCounts
      DEF Loader
  <1>2. CASE writeTOSinfo
    BY <1>2, writeTOSinfoCounts
  <1>3. CASE \E v \in Slots : setupNewImage(v) \/ verifyDone(v)
    <2>1. PICK v \in Slots : setupNewImage(v) \/ verifyDone(v)
      BY <1>3
    <2>2. Factory \in AllImages \ {NoImage}
      BY BootAssumption DEF AllImages
    <2> QED BY <2>1, <2>2, VolumeCounts
  <1>4. CASE \E v \in Slots, i \in Images : eraseDone(v, i)
    BY <1>4, VolumeCounts, BootAssumption DEF AllImages
  <1>5. CASE \E v \in Volumes : receiveNodeDesc(v)
    BY <1>5, receiveNodeDescCounts
  <1>6. CASE Timer_fired
    BY <1>6, TimerfiredCounts
  <1>7. CASE Reset
    BY <1>7, ResetCounts
  <1>8. CASE UNCHANGED vars
    BY <1>8, StutterCounts
  <1> QED
    BY <1>1, <1>2, <1>3, <1>4, <1>5, <1>6, <1>7, <1>8 DEF Next

\* The loader's count of resets, what it writes, and what it goes by.
THEOREM BootInvariant == Spec => []CountInv
  BY CountInit, CountStep, PTL DEF Spec

\* BootTypeOK of TOSBootM.nc's startupSequence with InternalFlashC.nc and NetProgM.nc.
THEOREM BootTypeCorrect == Spec => []BootTypeOK
  <1>1. CountInv => BootTypeOK
    BY DEF CountInv
  <1> QED BY <1>1, BootInvariant, PTL

\* The golden image is loaded only after three boots in a row that did not reach
\* the end (TOSBootM.nc:204 and :231), for any number of pages, images and
\* volumes, wherever the resets fall, whatever the golden image's state.
THEOREM GestureIsThreeResets == Spec => []GestureTakesResets
  <1>1. CountInv => GestureTakesResets
    BY DEF CountInv, GestureOK, GestureTakesResets, IsGesture, Holds, TOSBOOT_GESTURE_MAX_COUNT
  <1> QED BY <1>1, BootInvariant, PTL

-----------------------------------------------------------------------------
(***************************************************************************)
(* The invariant of the images: what is stored, what the stage of the      *)
(* loader is, and what the program memory holds determine each other.      *)
(***************************************************************************)

AllIntended == \A p \in AllPages : program[p] = intended

\* The golden image is in its volume, and a volume with a good page has an image.
VolumesOK ==
  /\ volume[DELUGE_GOLDEN_IMAGE_NUM].image = Factory
  /\ \A v \in Volumes : volume[v].good > 0 => volume[v].image # NoImage

\* Volume v is what the program memory is to hold.
Provides(v) == Complete(v) /\ intended = volume[v].image

\* Unless the next boot loads the golden image, it programs the intended one, or
\* that is in the program memory already.
IntendedOK ==
  intended # NoImage /\ Stored[gestureCount] # 1 =>
    /\ Stored[noReprogram] = 0 => Provides(Stored[imageAddr])
    /\ Stored[noReprogram] # 0 => AllIntended

\* A loader that writes pages is asked for them by what is stored: if it is cut
\* short, the next boot writes them again.
WritingOK ==
  stage = "writePages" /\ intended # NoImage =>
    /\ Stored[gestureCount] = 1 \/ Stored[noReprogram] = 0
    /\ Provides(source)
    /\ \A p \in AllPages : p < page => program[p] = intended

LoaderOK ==
  intended # NoImage =>
    /\ stage = "count" =>
         /\ args.noReprogram = 0 => Provides(args.imageAddr)
         /\ args.noReprogram # 0 => AllIntended
    /\ stage \in {"startupLeds", "resetArgs"} => AllIntended
    /\ stage \in {"program", "writeInfo", "writeDesc"} /\ completed => AllIntended

ImageInv == VolumesOK /\ IntendedOK /\ WritingOK /\ LoaderOK

-----------------------------------------------------------------------------

\* A complete volume passes verifyImage, and is what a request for it promises.
LEMMA CompleteIsValid ==
  ASSUME CountInv, VolumesOK, NEW v, Complete(v)
  PROVE  verifyImage(v) /\ ImageAt(v) = volume[v].image
  <1>1. v \in Volumes /\ volume[v].good = Pages /\ Pages > 0
    BY BootAssumption DEF Complete
  <1>2. volume[v].image # NoImage
    BY <1>1 DEF VolumesOK
  <1> QED BY <1>1, <1>2, BootAssumption DEF verifyImage, ImageAt

LEMMA PromisedIs ==
  ASSUME NEW v
  PROVE  Promised(v) # NoImage => Complete(v) /\ Promised(v) = volume[v].image
  BY DEF Promised, Complete, ImageAt

\* What depends on neither the flash nor the loader.
LEMMA ImagesUntouched ==
  ASSUME ImageInv, UNCHANGED <<program, volume, intended>>
  PROVE  /\ VolumesOK'
         /\ AllIntended' <=> AllIntended
         /\ \A v : Provides(v)' <=> Provides(v)
         /\ Stored' = Stored => IntendedOK'
  <1>1. VolumesOK' /\ (AllIntended' <=> AllIntended) /\ \A v : Provides(v)' <=> Provides(v)
    BY DEF ImageInv, VolumesOK, AllIntended, Provides, Complete
  <1>2. ASSUME Stored' = Stored PROVE IntendedOK'
    BY <1>1, <1>2 DEF ImageInv, IntendedOK, Provides, Complete
  <1> QED BY <1>1, <1>2

LEMMA ImageInit == Init => ImageInv
  <1> SUFFICES ASSUME Init PROVE ImageInv
    OBVIOUS
  <1>1. Stored[noReprogram] = 255
    BY ChoiceIsSegment, ArgAddresses, BootAssumption DEF Init, FlashInit, Stored, ErasedSegment
  <1>2. VolumesOK
    BY BootAssumption DEF Init, VolumesOK, Volumes, NoVolume, DELUGE_GOLDEN_IMAGE_NUM
  <1>3. AllIntended
    BY DEF Init, AllIntended
  <1> QED
    BY <1>1, <1>2, <1>3 DEF Init, ImageInv, IntendedOK, WritingOK, LoaderOK

LEMMA LowVoltageImages ==
  ASSUME CountInv, ImageInv, LowVoltage PROVE ImageInv'
  <1>1. Stored' = Stored
    BY CountUntouched DEF LowVoltage
  <1> QED
    BY <1>1, ImagesUntouched DEF LowVoltage, ImageInv, WritingOK, LoaderOK

\* After a gesture a whole golden image is intended, and what is stored has the
\* next boot load it too.
LEMMA GestureImages ==
  ASSUME CountInv, ImageInv, Gesture PROVE ImageInv'
  <1> DEFINE g == DELUGE_GOLDEN_IMAGE_NUM
  <1>1. Stored' = Stored /\ Stored[gestureCount] = 1
    BY CountUntouched, StartedArgsAre DEF Gesture
  <1>2. /\ UNCHANGED <<program, volume>>
        /\ intended' = IF Complete(g) THEN Factory ELSE NoImage
        /\ volume[g].image = Factory
    BY DEF Gesture, ImageInv, VolumesOK
  <1>3. VolumesOK'
    BY <1>2 DEF ImageInv, VolumesOK
  <1>4. ASSUME intended' # NoImage
        PROVE  Provides(g)' /\ stage' = "writePages" /\ source' = g /\ page' = 0
    <2>1. Complete(g)
      BY <1>2, <1>4
    <2>2. verifyImage(g)
      BY <2>1, CompleteIsValid DEF ImageInv
    <2> QED BY <1>2, <2>1, <2>2 DEF Gesture, programImage, Provides, Complete
  <1>5. WritingOK'
    <2>1. \A p \in AllPages : ~(p < 0)
      BY DEF AllPages
    <2> QED BY <1>1, <1>4, <2>1 DEF WritingOK
  <1>6. IntendedOK' /\ LoaderOK'
    BY <1>1, <1>4 DEF IntendedOK, LoaderOK
  <1> QED
    BY <1>3, <1>5, <1>6 DEF ImageInv

LEMMA CountImages ==
  ASSUME CountInv, ImageInv, Count PROVE ImageInv'
  <1>1. /\ args' = StartedArgs /\ StartedArgs \in ArgsType
        /\ StartedArgs.imageAddr = Stored[imageAddr]
        /\ StartedArgs.noReprogram = Stored[noReprogram]
        /\ Stored[gestureCount] # 1
    BY StartedArgsAre DEF Count
  <1>2. Stored' = Stored
    BY <1>1, ArgWrite DEF Count, CountInv
  <1>3. UNCHANGED <<program, volume, intended>> /\ stage' = "count"
    BY DEF Count
  <1>4. LoaderOK'
    BY <1>1, <1>3, ImagesUntouched DEF ImageInv, IntendedOK, LoaderOK, Provides, Complete
  <1> QED
    BY <1>2, <1>3, <1>4, ImagesUntouched DEF ImageInv, WritingOK

\* A whole image that is asked for is programmed; if none is, it runs already.
LEMMA CountedImages ==
  ASSUME CountInv, ImageInv, Counted PROVE ImageInv'
  <1>1. Stored' = Stored
    BY CountUntouched DEF Counted
  <1>2. Stored[imageAddr] = args.imageAddr /\ Stored[noReprogram] = args.noReprogram
    BY DEF Counted, CountInv, WriteOK, Holds
  <1>3. UNCHANGED <<args, program, volume, intended>> /\ stage = "count"
    BY DEF Counted, historyVars
  <1>4. stage' \in {"writePages", "startupLeds"}
    BY DEF Counted, programImage
  <1>5. CASE intended = NoImage
    BY <1>1, <1>3, <1>5, ImagesUntouched DEF ImageInv, WritingOK, LoaderOK
  <1>6. CASE intended # NoImage /\ args.noReprogram = 0
    <2> DEFINE v == args.imageAddr
    <2>1. Provides(v)
      BY <1>3, <1>6 DEF ImageInv, LoaderOK
    <2>2. verifyImage(v)
      BY <2>1, CompleteIsValid DEF ImageInv, Provides
    <2>3. stage' = "writePages" /\ source' = v /\ page' = 0
      BY <1>6, <2>2 DEF Counted, programImage
    <2>4. \A p \in AllPages : ~(p < 0)
      BY DEF AllPages
    <2>5. Provides(source)'
      BY <1>3, <2>1, <2>3 DEF Provides, Complete
    <2>6. WritingOK'
      <3>1. Stored'[noReprogram] = 0
        BY <1>1, <1>2, <1>6
      <3> QED BY <2>3, <2>4, <2>5, <3>1 DEF WritingOK
    <2> QED
      BY <1>1, <1>3, <2>3, <2>6, ImagesUntouched DEF ImageInv, LoaderOK
  <1>7. CASE intended # NoImage /\ args.noReprogram # 0
    <2>1. stage' = "startupLeds" /\ AllIntended
      BY <1>3, <1>7 DEF ImageInv, LoaderOK, Counted
    <2> QED
      BY <1>1, <1>3, <2>1, ImagesUntouched DEF ImageInv, WritingOK, LoaderOK
  <1> QED BY <1>5, <1>6, <1>7

LEMMA ErasePageImages ==
  ASSUME CountInv, ImageInv, ErasePage PROVE ImageInv'
  <1>1. Stored' = Stored
    BY CountUntouched DEF ErasePage
  <1>2. /\ stage = "writePages" /\ stage' = "writePages" /\ page' = page /\ source' = source
        /\ volume' = volume /\ intended' = intended
        /\ program' = [program EXCEPT ![page] = NoImage]
    BY DEF ErasePage, historyVars
  <1>3. VolumesOK'
    BY <1>2 DEF ImageInv, VolumesOK
  <1>4. \A p \in AllPages : p < page => program'[p] = program[p]
    BY <1>2 DEF CountInv, BootTypeOK, AllPages
  <1>5. WritingOK'
    BY <1>1, <1>2, <1>4 DEF ImageInv, WritingOK, Provides, Complete
  <1>6. IntendedOK'
    BY <1>1, <1>2 DEF ImageInv, IntendedOK, WritingOK, Provides, Complete
  <1> QED
    BY <1>2, <1>3, <1>5, <1>6 DEF ImageInv, LoaderOK

LEMMA WritePageImages ==
  ASSUME CountInv, ImageInv, WritePage PROVE ImageInv'
  <1>1. Stored' = Stored
    BY CountUntouched DEF WritePage
  <1>2. /\ stage = "writePages" /\ stage' = "writePages" /\ page' = page + 1 /\ source' = source
        /\ volume' = volume /\ intended' = intended
        /\ page \in 0 .. Pages /\ page < Pages
    BY DEF WritePage, historyVars, CountInv, ErasedOK, BootTypeOK
  <1>3. VolumesOK'
    BY <1>2 DEF ImageInv, VolumesOK
  <1>4. IntendedOK'
    BY <1>1, <1>2 DEF ImageInv, IntendedOK, WritingOK, Provides, Complete
  <1>5. WritingOK'
    <2> SUFFICES ASSUME intended # NoImage PROVE WritingOK'
      BY <1>2 DEF WritingOK
    <2>1. /\ Provides(source)
          /\ \A p \in AllPages : p < page => program[p] = intended
      BY <1>2 DEF ImageInv, WritingOK
    <2>2. program' = [program EXCEPT ![page] = intended]
      BY <1>2, <2>1 DEF WritePage, Provides, Complete
    <2>3. \A p \in AllPages : p < page + 1 => program'[p] = intended
      BY <1>2, <2>1, <2>2, BootAssumption DEF CountInv, BootTypeOK, AllPages
    <2> QED BY <1>1, <1>2, <2>1, <2>3 DEF ImageInv, WritingOK, Provides, Complete
  <1> QED
    BY <1>2, <1>3, <1>4, <1>5 DEF ImageInv, LoaderOK

LEMMA ProgrammedImages ==
  ASSUME CountInv, ImageInv, Programmed PROVE ImageInv'
  <1>1. Stored' = Stored
    BY CountUntouched DEF Programmed
  <1>2. UNCHANGED <<program, volume, intended>> /\ stage' = "startupLeds"
    BY DEF Programmed, historyVars
  <1>3. \A p \in AllPages : p < Pages
    BY BootAssumption DEF AllPages
  <1>4. intended # NoImage => AllIntended
    BY <1>3 DEF Programmed, ImageInv, WritingOK, AllIntended
  <1> QED
    BY <1>1, <1>2, <1>4, ImagesUntouched DEF ImageInv, WritingOK, LoaderOK

LEMMA ResetArgsImages ==
  ASSUME CountInv, ImageInv, ResetArgs PROVE ImageInv'
  <1>1. UNCHANGED <<program, volume, intended>> /\ stage = "startupLeds" /\ stage' = "resetArgs"
    BY DEF ResetArgs, historyVars
  <1>2. Stored' = Stored
    <2> DEFINE a == [args EXCEPT !.gestureCount = 255, !.noReprogram = 1]
    <2>1. a \in ArgsType
      BY ByteValues DEF CountInv, BootTypeOK, ArgsType
    <2>2. StartWrite(ArgBytes(a))
      BY DEF ResetArgs
    <2> HIDE DEF a
    <2> QED BY <2>1, <2>2, ArgWrite DEF CountInv
  <1> QED
    BY <1>1, <1>2, ImagesUntouched DEF ImageInv, WritingOK, LoaderOK

LEMMA runAppImages ==
  ASSUME CountInv, ImageInv, runApp PROVE ImageInv'
  <1>1. Stored' = Stored
    BY CountUntouched DEF runApp
  <1>2. UNCHANGED <<program, volume, intended>> /\ stage = "resetArgs" /\ stage' = "program"
    BY DEF runApp
  <1> QED
    BY <1>1, <1>2, ImagesUntouched DEF ImageInv, WritingOK, LoaderOK

LEMMA CopyByteImages ==
  ASSUME CountInv, ImageInv, FlashStep, CopyByte PROVE ImageInv'
  <1>1. ~FlashIdle /\ ~FlashIdle' /\ Stored' = Stored
    BY CopyByteStep DEF CountInv
  <1>2. /\ UNCHANGED <<stage, args, program, volume, completed>>
        /\ intended' = intended
    BY <1>1 DEF FlashStep, loaderVars
  <1>3. stage # "writePages"
    BY <1>1 DEF CountInv, WriteOK
  <1>4. LoaderOK'
    BY <1>2, ImagesUntouched DEF ImageInv, LoaderOK, Provides, Complete
  <1> QED
    BY <1>1, <1>2, <1>3, <1>4, ImagesUntouched DEF ImageInv, WritingOK

\* What becomes stored is what the next boot is to go by.
LEMMA WriteVersionImages ==
  ASSUME CountInv, ImageInv, FlashStep, WriteVersion PROVE ImageInv'
  <1>1. ~FlashIdle /\ FlashIdle' /\ Stored' = Requested
    BY WriteVersionStep DEF CountInv
  <1>2. /\ UNCHANGED <<stage, args, program, volume, completed>>
        /\ intended' = IF stage = "reprogram" THEN Promised(Requested[imageAddr]) ELSE intended
    BY <1>1 DEF FlashStep, loaderVars, Promised
  <1>3. stage \in {"count", "resetArgs", "writeInfo", "writeDesc", "reprogram"}
    BY <1>1 DEF CountInv, WriteOK, BootTypeOK
  <1>4. VolumesOK' /\ WritingOK'
    BY <1>2, <1>3 DEF ImageInv, VolumesOK, WritingOK
  <1>5. CASE stage = "reprogram"
    <2> DEFINE v == Requested[imageAddr]
    <2>1. Requested[noReprogram] = 0 /\ intended' = Promised(v)
      BY <1>1, <1>2, <1>5 DEF CountInv, WriteOK
    <2>2. intended' # NoImage => Complete(v) /\ intended' = volume[v].image
      BY <2>1, PromisedIs
    <2>3. IntendedOK'
      BY <1>1, <1>2, <2>1, <2>2 DEF IntendedOK, Provides, Complete
    <2> QED BY <1>2, <1>4, <1>5, <2>3 DEF ImageInv, LoaderOK
  <1>6. CASE stage # "reprogram"
    <2>1. UNCHANGED <<program, volume, intended>>
      BY <1>2, <1>6
    <2>2. LoaderOK'
      BY <1>2, <1>3, <2>1, ImagesUntouched DEF ImageInv, LoaderOK, Provides, Complete
    <2>3. CASE stage \in {"count", "writeInfo", "writeDesc"}
      <3>1. /\ Requested[imageAddr] = Stored[imageAddr]
            /\ Requested[noReprogram] = Stored[noReprogram]
            /\ Requested[gestureCount] # 1 => Stored[gestureCount] # 1
        BY <1>1, <2>3 DEF CountInv, WriteOK, Holds, StoredArgs, CounterOK, Increment
      <3>2. IntendedOK'
        BY <1>1, <2>1, <3>1, ImagesUntouched DEF ImageInv, IntendedOK, Provides, Complete
      <3> QED BY <1>4, <2>2, <3>2 DEF ImageInv
    <2>4. CASE stage = "resetArgs"
      <3>1. Requested[noReprogram] = 1 /\ (intended # NoImage => AllIntended)
        BY <1>1, <2>4 DEF CountInv, WriteOK, ImageInv, LoaderOK
      <3>2. IntendedOK'
        BY <1>1, <2>1, <3>1, ImagesUntouched DEF IntendedOK
      <3> QED BY <1>4, <2>2, <3>2 DEF ImageInv
    <2> QED BY <1>3, <1>6, <2>3, <2>4
  <1> QED BY <1>5, <1>6

\* The start of a write by the program.
LEMMA StartedWriteImages ==
  ASSUME CountInv, ImageInv, Stored' = Stored, stage = "program",
         stage' \in {"program", "writeInfo", "writeDesc", "reprogram"},
         UNCHANGED <<program, volume, intended, completed>>
  PROVE  ImageInv'
  BY ImagesUntouched DEF ImageInv, WritingOK, LoaderOK

\* An image is promised no longer once its volume changes.
LEMMA VolumeImages ==
  ASSUME CountInv, ImageInv, NEW v \in Slots, NEW i \in AllImages \ {NoImage},
         setupNewImage(v) \/ eraseDone(v, i) \/ verifyDone(v)
  PROVE  ImageInv'
  <1>1. Stored' = Stored
    BY CountUntouched DEF setupNewImage, eraseDone, verifyDone
  <1>2. /\ stage = "program" /\ stage' = "program" /\ UNCHANGED <<program, completed>>
        /\ intended' \in {intended, NoImage}
    BY DEF setupNewImage, eraseDone, verifyDone, historyVars, Started
  <1>3. /\ v \in Volumes
        /\ volume \in [Volumes -> [image : AllImages, good : 0 .. Pages]]
    BY DEF Volumes, CountInv, BootTypeOK
  <1>4. \A w : w \in Volumes /\ w # v => volume'[w] = volume[w]
    BY <1>3 DEF setupNewImage, eraseDone, verifyDone
  <1>5. volume'[v].good > 0 => volume'[v].image # NoImage
    <2>1. CASE setupNewImage(v)
      BY <1>3, <2>1 DEF setupNewImage, NoVolume
    <2>2. CASE eraseDone(v, i)
      BY <1>3, <2>2 DEF eraseDone
    <2>3. CASE verifyDone(v)
      BY <1>3, <2>3 DEF verifyDone
    <2> QED BY <2>1, <2>2, <2>3
  <1>6. VolumesOK'
    <2>1. DELUGE_GOLDEN_IMAGE_NUM \in Volumes /\ DELUGE_GOLDEN_IMAGE_NUM # v
      BY BootAssumption DEF Volumes, DELUGE_GOLDEN_IMAGE_NUM
    <2> QED BY <1>3, <1>4, <1>5, <2>1 DEF ImageInv, VolumesOK
  <1>7. ASSUME intended' # NoImage, Stored[noReprogram] = 0, Provides(Stored[imageAddr])
        PROVE  Stored[imageAddr] # v
    <2>1. CASE setupNewImage(v)
      BY <1>7, <2>1 DEF setupNewImage, Awaited
    <2>2. CASE eraseDone(v, i)
      <3>1. ~(volume[v].good > 0)
        BY <1>3, <2>2 DEF ImageInv, VolumesOK, eraseDone
      <3> QED BY <1>7, <3>1, BootAssumption DEF Provides, Complete
    <2>3. CASE verifyDone(v)
      BY <1>3, <1>7, <2>3, BootAssumption DEF Provides, Complete, verifyDone
    <2> QED BY <2>1, <2>2, <2>3
  <1>8. intended' # NoImage => intended' = intended
    BY <1>2
  <1>9. intended' # NoImage => (AllIntended' <=> AllIntended)
    BY <1>2, <1>8 DEF AllIntended
  <1>10. IntendedOK'
    BY <1>1, <1>4, <1>7, <1>8, <1>9 DEF ImageInv, IntendedOK, Provides, Complete
  <1>11. LoaderOK'
    BY <1>2, <1>8, <1>9 DEF ImageInv, LoaderOK
  <1> QED
    BY <1>2, <1>6, <1>10, <1>11 DEF ImageInv, WritingOK

\* A request, or one firing less before it.
LEMMA TimerfiredImages ==
  ASSUME CountInv, ImageInv, Timer_fired PROVE ImageInv'
  <1> DEFINE v == Stored[nodeDesc]
             a == [imageAddr |-> v, gestureCount |-> 255, noReprogram |-> 0]
  <1>1. /\ stage = "program" /\ v \in Volumes
        /\ UNCHANGED <<program, volume, intended, completed>>
    BY DEF Timer_fired, Started, historyVars, CountInv, DescOK
  <1>2. CASE rebootDelay' # 0
    <2>1. Stored' = Stored /\ stage' = stage
      BY <1>2, CountUntouched DEF Timer_fired
    <2> QED BY <1>1, <2>1, StartedWriteImages
  <1>3. CASE rebootDelay' = 0
    <2>1. a \in ArgsType
      BY <1>1, ByteValues DEF ArgsType
    <2>2. StartWrite(ArgBytes(a)) /\ stage' = "reprogram"
      BY <1>3 DEF Timer_fired, programImgAndReboot
    <2> HIDE DEF a
    <2>3. Stored' = Stored
      BY <2>1, <2>2, ArgWrite DEF CountInv
    <2> QED BY <1>1, <2>2, <2>3, StartedWriteImages
  <1> QED BY <1>2, <1>3

\* A reset, wherever it falls.
LEMMA ResetImages ==
  ASSUME CountInv, ImageInv, Reset PROVE ImageInv'
  <1>1. Stored' = Stored
    BY PowerLossStep DEF Reset, CountInv
  <1>2. stage' = "reset" /\ UNCHANGED <<program, volume, intended>>
    BY DEF Reset, historyVars
  <1> QED
    BY <1>1, <1>2, ImagesUntouched DEF ImageInv, WritingOK, LoaderOK

\* The write has returned, or nothing happens.
LEMMA QuietImages ==
  ASSUME CountInv, ImageInv,
         InfoWritten \/ nodeDescWritten \/ netprog_reboot \/ UNCHANGED vars
  PROVE  ImageInv'
  <1>1. /\ UNCHANGED <<flashVars, args, source, page, program, volume, intended, completed>>
        /\ \/ stage' = stage
           \/ stage \in {"writeInfo", "writeDesc"} /\ stage' = "program"
           \/ stage' = "reset"
    BY DEF InfoWritten, nodeDescWritten, netprog_reboot, vars, loaderVars, historyVars
  <1>2. Stored' = Stored
    BY <1>1, CountUntouched
  <1>3. WritingOK'
    BY <1>1, <1>2 DEF ImageInv, WritingOK, Provides, Complete
  <1>4. LoaderOK'
    BY <1>1, ImagesUntouched DEF ImageInv, LoaderOK, Provides, Complete
  <1> QED BY <1>1, <1>2, <1>3, <1>4, ImagesUntouched DEF ImageInv

LEMMA ImageStep == CountInv /\ ImageInv /\ [Next]_vars => ImageInv'
  <1> SUFFICES ASSUME CountInv, ImageInv, [Next]_vars PROVE ImageInv'
    OBVIOUS
  <1>1. CASE Loader
    <2>1. CASE FlashStep
      BY <2>1, CopyByteImages, WriteVersionImages DEF FlashStep, WriteStep
    <2> QED
      BY <1>1, <2>1, LowVoltageImages, GestureImages, CountImages, CountedImages, ErasePageImages,
         WritePageImages, ProgrammedImages, ResetArgsImages, runAppImages, QuietImages
      DEF Loader
  <1>2. CASE writeTOSinfo
    <2>1. Stored' = Stored
      BY <1>2, InfoWrite, ByteValues DEF writeTOSinfo, CountInv
    <2> QED BY <1>2, <2>1, StartedWriteImages DEF writeTOSinfo, historyVars
  <1>3. CASE \E v \in Slots : setupNewImage(v) \/ verifyDone(v)
    <2>1. Factory \in AllImages \ {NoImage}
      BY BootAssumption DEF AllImages
    <2> QED BY <1>3, <2>1, VolumeImages
  <1>4. CASE \E v \in Slots, i \in Images : eraseDone(v, i)
    BY <1>4, VolumeImages, BootAssumption DEF AllImages
  <1>5. CASE \E v \in Volumes : receiveNodeDesc(v)
    <2>1. PICK v \in Volumes : receiveNodeDesc(v)
      BY <1>5
    <2>2. Stored' = Stored
      BY <2>1, InfoWrite, ByteValues DEF receiveNodeDesc, CountInv
    <2> QED BY <2>1, <2>2, StartedWriteImages DEF receiveNodeDesc, Started, historyVars
  <1>6. CASE Timer_fired
    BY <1>6, TimerfiredImages
  <1>7. CASE Reset
    BY <1>7, ResetImages
  <1>8. CASE UNCHANGED vars
    BY <1>8, QuietImages
  <1> QED
    BY <1>1, <1>2, <1>3, <1>4, <1>5, <1>6, <1>7, <1>8 DEF Next

\* A boot that reaches the end runs every page of the image that was asked for
\* last, or of the golden image after a gesture, wherever the boots before it were
\* cut short (startupSequence, TOSBootM.nc:186-237, and programImgAndReboot of
\* NetProgM.nc), for any number of pages, images and volumes, any length of the
\* countdown and any golden image, whenever Deluge replaces a volume: if the image
\* was whole when it was asked for and is not replaced before it is programmed.
THEOREM CompletedBootRunsIntended == Spec => []RunsIntendedImage
  <1>1. ImageInv => RunsIntendedImage
    BY DEF ImageInv, LoaderOK, RunsIntendedImage, AllIntended
  <1> QED BY <1>1, ImageInit, ImageStep, BootInvariant, PTL DEF Spec

\* Every write of the loader and of NetProgM takes effect whole or not at all.
THEOREM BootFlashIsAtomic == Spec => ImplementsAtomicFlash
  <1>1. Init => Atomic!Init
    <2> SUFFICES ASSUME Init PROVE Atomic!Init
      OBVIOUS
    <2>1. Stored \in [Addresses -> Byte]
      BY InitInv, StoredType DEF Init
    <2> QED
      BY <2>1 DEF Init, FlashInit, FlashIdle, Requested, Atomic!Init, Atomic!Contents
  <1>2. CountInv /\ [Next]_vars => [Atomic!Next]_(Atomic!vars)
    <2> SUFFICES ASSUME CountInv, [Next]_vars PROVE [Atomic!Next]_(Atomic!vars)
      OBVIOUS
    <2>1. ASSUME NEW a \in ArgsType, StartWrite(ArgBytes(a)) PROVE Atomic!Ask
      BY <2>1, ArgWrite DEF CountInv
    <2>2. CASE Count
      BY <2>1, <2>2, StartedArgsAre DEF Count, Atomic!Next
    <2>3. CASE ResetArgs
      <3>1. [args EXCEPT !.gestureCount = 255, !.noReprogram = 1] \in ArgsType
        BY ByteValues DEF CountInv, BootTypeOK, ArgsType
      <3> QED BY <2>1, <2>3, <3>1 DEF ResetArgs, Atomic!Next
    <2>4. CASE writeTOSinfo
      BY <2>4, InfoWrite, ByteValues DEF writeTOSinfo, CountInv, Atomic!Next
    <2>5. CASE Timer_fired /\ rebootDelay' = 0
      <3>1. Stored[nodeDesc] \in Volumes
        BY <2>5 DEF Timer_fired, CountInv, DescOK
      <3>2. [imageAddr |-> Stored[nodeDesc], gestureCount |-> 255, noReprogram |-> 0] \in ArgsType
        BY <3>1, ByteValues DEF ArgsType
      <3> QED BY <2>1, <2>5, <3>2 DEF Timer_fired, programImgAndReboot, Atomic!Next
    <2>10. CASE \E v \in Volumes : receiveNodeDesc(v)
      BY <2>10, InfoWrite, ByteValues DEF receiveNodeDesc, CountInv, Atomic!Next
    <2>6. CASE FlashStep
      BY <2>6, CopyByteStep, WriteVersionStep DEF FlashStep, WriteStep, CountInv,
         Atomic!vars, Atomic!Next
    <2>7. CASE Reset
      BY <2>7, PowerLossStep DEF Reset, CountInv, Atomic!Next
    <2>8. CASE UNCHANGED flashVars
      BY <2>8, FlashUntouched DEF CountInv, flashVars, Atomic!vars
    <2>9. \/ Count \/ ResetArgs \/ writeTOSinfo \/ FlashStep \/ Reset \/ UNCHANGED flashVars
          \/ Timer_fired /\ rebootDelay' = 0
          \/ \E v \in Volumes : receiveNodeDesc(v)
      BY DEF Next, Loader, vars, LowVoltage, Gesture, Counted, ErasePage, WritePage, Programmed,
             runApp, InfoWritten, nodeDescWritten, netprog_reboot, setupNewImage, verifyDone,
             eraseDone, Timer_fired
    <2> QED
      BY <2>2, <2>3, <2>4, <2>5, <2>6, <2>7, <2>8, <2>9, <2>10
  <1> QED
    BY <1>1, <1>2, BootInvariant, PTL DEF Spec, ImplementsAtomicFlash, Atomic!Spec

=============================================================================
