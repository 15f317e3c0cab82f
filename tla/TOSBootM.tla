------------------------------ MODULE TOSBootM ------------------------------
(***************************************************************************)
(* The boot loader (tos/lib/Deluge/TOSBoot/TOSBootM.nc) with its arguments *)
(* in the information memory (InternalFlashC), the images in the external  *)
(* flash, the program memory, and the program that downloads images and    *)
(* asks for them (NetProgM.nc, the image handling of DelugeMetadataM.nc,   *)
(* and the node descriptor and the countdown to a reboot of DelugeM.nc).   *)
(*                                                                         *)
(* Every reset comes here.  Power may be lost, or the reset button pressed, *)
(* between any two accesses of a flash.  One assumption: not while the     *)
(* page of the program memory with the reset vector is erased, for then    *)
(* the loader is not reached again (ProgFlashM writes the vector last).    *)
(***************************************************************************)
EXTENDS InternalFlashC

CONSTANTS
  Pages,       \* pages of an image
  Images,      \* what the pages of an image that Deluge downloads hold
  Factory,     \* the golden image
  NoImage,     \* an erased page, or one that is not what its CRC says
  Slots,       \* the image volumes, numbered from 1; 0 is DELUGE_GOLDEN_IMAGE_NUM
  GoldenPages, \* how many pages of the golden image are in its volume
  DELUGE_REBOOT_DELAY \* firings of Deluge's timer between a decision and the reboot

TOSBOOT_GESTURE_MAX_COUNT == 3
DELUGE_GOLDEN_IMAGE_NUM == 0

\* NetProg_TOSInfo, the fields of tosboot_args_t, and the image number of
\* DelugeNodeDesc, as addresses of the information memory.
tosInfo == 0
imageAddr == 1
gestureCount == 2
noReprogram == 3
nodeDesc == 4

ASSUME BootAssumption ==
  /\ Size >= 5
  /\ Slots \union {0, 1, 2, 255} \subseteq Byte
  /\ Blank = 255
  /\ Pages \in Nat \ {0}
  /\ NoImage \notin Images \union {Factory}
  /\ Slots \subseteq 1 .. 254
  /\ GoldenPages \in 0 .. Pages
  /\ DELUGE_REBOOT_DELAY \in Nat \ {0}

VARIABLES
  stage,       \* where the loader or the program is
  args,        \* the loader's copy of its arguments
  source,      \* the volume that is being programmed
  page,        \* the next page of it
  erased,      \* that page is erased and not yet written
  program,     \* the program memory, page by page
  volume,      \* volume -> its image, and how many of the pages are good
  rebootDelay, \* firings of Deluge's timer until it asks for a reprogramming
  resets,      \* history: boots since the arguments were last reset
  intended,    \* history: the image that the program memory is to hold, NoImage if
               \* it was not whole when it was asked for, or is replaced since
  completed    \* history: the last boot went through the whole sequence

loaderVars == <<args, source, page, erased>>
historyVars == <<resets, intended, completed>>
vars == <<flashVars, stage, loaderVars, program, volume, rebootDelay, historyVars>>

Volumes == Slots \union {DELUGE_GOLDEN_IMAGE_NUM}
AllPages == 0 .. Pages - 1
AllImages == Images \union {Factory, NoImage}
NoVolume == [image |-> NoImage, good |-> 0]

NoArgs == [imageAddr |-> Blank, gestureCount |-> Blank, noReprogram |-> Blank]

Init ==
  /\ FlashInit
  /\ stage = "reset"
  /\ args = NoArgs
  /\ source = DELUGE_GOLDEN_IMAGE_NUM
  /\ page = 0
  /\ erased = FALSE
  /\ program = [p \in AllPages |-> Factory]
  /\ volume = [v \in Volumes |->
                 IF v = DELUGE_GOLDEN_IMAGE_NUM THEN [image |-> Factory, good |-> GoldenPages]
                 ELSE NoVolume]
  /\ rebootDelay = 0
  /\ resets = 0
  /\ intended = Factory
  /\ completed = FALSE

\* The loader's variables are gone.
LeaveLoader ==
  /\ args' = NoArgs
  /\ source' = DELUGE_GOLDEN_IMAGE_NUM
  /\ page' = 0
  /\ erased' = FALSE

OneMoreReset == IF resets < TOSBOOT_GESTURE_MAX_COUNT THEN resets + 1 ELSE resets

\* Byte + 1, as a uint8_t.
Increment(b) == IF b = 255 THEN 0 ELSE b + 1

ArgBytes(a) ==
  [b \in {imageAddr, gestureCount, noReprogram} |->
     CASE b = imageAddr -> a.imageAddr
       [] b = gestureCount -> a.gestureCount
       [] b = noReprogram -> a.noReprogram]

StoredArgs ==
  [imageAddr |-> Stored[imageAddr], gestureCount |-> Stored[gestureCount],
   noReprogram |-> Stored[noReprogram]]

\* What an address of the external flash holds.
ImageAt(v) == IF v \in Volumes THEN volume[v].image ELSE NoImage

\* Every page is good: what Deluge takes for a complete image.
Complete(v) == v \in Volumes /\ volume[v].good = Pages

\* verifyImage: numPgs is neither 0 nor 0xff, and the loop over the pages has
\* reached numPgs: i counts the first bad page too, so the last page is not
\* checked.
verifyImage(v) ==
  /\ ImageAt(v) # NoImage
  /\ volume[v].good >= Pages - 1

-----------------------------------------------------------------------------
(***************************************************************************)
(* startupSequence.                                                        *)
(***************************************************************************)

\* The battery is too low to write the flash: the program runs as it is.
LowVoltage ==
  /\ stage = "reset"
  /\ stage' = "program"
  /\ completed' = FALSE
  /\ UNCHANGED <<flashVars, loaderVars, program, volume, rebootDelay, resets, intended>>

\* The stage after programImage(v) has verified the image: it programs it, or
\* goes on with R_INVALID_IMAGE_ERROR.
programImage(v) ==
  /\ source' = v
  /\ page' = 0
  /\ erased' = FALSE
  /\ stage' = IF verifyImage(v) THEN "writePages" ELSE "startupLeds"

StartedArgs == [StoredArgs EXCEPT !.gestureCount = Increment(StoredArgs.gestureCount)]

IsGesture(a) == a.gestureCount >= TOSBOOT_GESTURE_MAX_COUNT - 1

\* The gesture: the golden image is loaded.
Gesture ==
  /\ stage = "reset"
  /\ IsGesture(StartedArgs)
  /\ args' = StartedArgs
  /\ programImage(DELUGE_GOLDEN_IMAGE_NUM)
  /\ resets' = OneMoreReset
  /\ intended' = IF Complete(DELUGE_GOLDEN_IMAGE_NUM) THEN Factory ELSE NoImage
  /\ completed' = FALSE
  /\ UNCHANGED <<flashVars, program, volume, rebootDelay>>

\* A faulty first write that also marks the image as programmed.
CountAndClear ==
  /\ stage = "reset"
  /\ ~IsGesture(StartedArgs)
  /\ args' = StartedArgs
  /\ StartWrite(ArgBytes([StartedArgs EXCEPT !.noReprogram = 1]))
  /\ stage' = "count"
  /\ resets' = OneMoreReset
  /\ completed' = FALSE
  /\ UNCHANGED <<source, page, erased, program, volume, rebootDelay, intended>>

\* No gesture: the counter is written.
Count ==
  /\ stage = "reset"
  /\ ~IsGesture(StartedArgs)
  /\ args' = StartedArgs
  /\ StartWrite(ArgBytes(StartedArgs))
  /\ stage' = "count"
  /\ resets' = OneMoreReset
  /\ completed' = FALSE
  /\ UNCHANGED <<source, page, erased, program, volume, rebootDelay, intended>>

\* The counter is written: reprogram if it was asked for.
Counted ==
  /\ stage = "count"
  /\ FlashIdle
  /\ IF args.noReprogram = 0
       THEN programImage(args.imageAddr)
       ELSE stage' = "startupLeds" /\ UNCHANGED <<source, page, erased>>
  /\ UNCHANGED <<flashVars, args, program, volume, rebootDelay, historyVars>>

\* ProgFlash.write erases a page and writes it.
ErasePage ==
  /\ stage = "writePages"
  /\ page < Pages
  /\ ~erased
  /\ program' = [program EXCEPT ![page] = NoImage]
  /\ erased' = TRUE
  /\ UNCHANGED <<flashVars, stage, args, source, page, volume, rebootDelay, historyVars>>

WritePage ==
  /\ stage = "writePages"
  /\ erased
  /\ program' = [program EXCEPT ![page] =
                   IF page < volume[source].good THEN volume[source].image ELSE NoImage]
  /\ erased' = FALSE
  /\ page' = page + 1
  /\ UNCHANGED <<flashVars, stage, args, source, volume, rebootDelay, historyVars>>

\* A faulty programImage that reports an error after the golden image.
ProgrammedThenError ==
  /\ stage = "writePages"
  /\ page = Pages
  /\ stage' = IF source = DELUGE_GOLDEN_IMAGE_NUM THEN "reset" ELSE "startupLeds"
  /\ UNCHANGED <<flashVars, loaderVars, program, volume, rebootDelay, historyVars>>

\* programImage returns R_SUCCESS.
Programmed ==
  /\ stage = "writePages"
  /\ page = Pages
  /\ stage' = "startupLeds"
  /\ UNCHANGED <<flashVars, loaderVars, program, volume, rebootDelay, historyVars>>

\* A faulty second write that leaves the counter alone.
ResetFlagOnly ==
  /\ stage = "startupLeds"
  /\ args' = [args EXCEPT !.noReprogram = 1]
  /\ StartWrite(ArgBytes([args EXCEPT !.noReprogram = 1]))
  /\ stage' = "resetArgs"
  /\ UNCHANGED <<source, page, erased, program, volume, rebootDelay, historyVars>>

\* After the lights, the counter and the flag are reset.
ResetArgs ==
  /\ stage = "startupLeds"
  /\ args' = [args EXCEPT !.gestureCount = 255, !.noReprogram = 1]
  /\ StartWrite(ArgBytes([args EXCEPT !.gestureCount = 255, !.noReprogram = 1]))
  /\ stage' = "resetArgs"
  /\ UNCHANGED <<source, page, erased, program, volume, rebootDelay, historyVars>>

\* runApp.
runApp ==
  /\ stage = "resetArgs"
  /\ FlashIdle
  /\ stage' = "program"
  /\ completed' = TRUE
  /\ LeaveLoader
  /\ UNCHANGED <<flashVars, program, volume, rebootDelay, resets, intended>>

\* InternalFlash.write goes on, for the loader or for the program.
FlashStep ==
  /\ WriteStep
  /\ resets' = IF FlashIdle' /\ stage \in {"resetArgs", "reprogram"} THEN 0 ELSE resets
  /\ intended' = IF FlashIdle' /\ stage = "reprogram"
                   THEN IF Complete(Stored'[imageAddr]) THEN ImageAt(Stored'[imageAddr])
                        ELSE NoImage
                   ELSE intended
  /\ UNCHANGED <<stage, loaderVars, program, volume, rebootDelay, completed>>

-----------------------------------------------------------------------------
(***************************************************************************)
(* The program.                                                            *)
(***************************************************************************)

\* NetProgM's StdControl.init stores the node's address and group.
writeTOSinfo ==
  /\ stage = "program"
  /\ Stored[tosInfo] = Blank
  /\ StartWrite([b \in {tosInfo} |-> 1])
  /\ stage' = "writeInfo"
  /\ UNCHANGED <<loaderVars, program, volume, rebootDelay, historyVars>>

InfoWritten ==
  /\ stage = "writeInfo"
  /\ FlashIdle
  /\ stage' = "program"
  /\ UNCHANGED <<flashVars, loaderVars, program, volume, rebootDelay, historyVars>>

\* Deluge runs once StdControl.init is through.
Started == stage = "program" /\ Stored[tosInfo] # Blank

\* checkReboot: a complete image that the node descriptor names starts the
\* countdown, if their unique identifiers agree.
checkReboot(images) ==
  LET v == Stored[nodeDesc]
  IN  \/ rebootDelay' = rebootDelay
      \/ /\ v \in Volumes
         /\ images[v].good = Pages
         /\ rebootDelay' = DELUGE_REBOOT_DELAY

\* ReceiveAdvMsg.receive of a newer node descriptor, naming any volume.
receiveNodeDesc(v) ==
  /\ Started
  /\ StartWrite([b \in {nodeDesc} |-> v])
  /\ stage' = "writeDesc"
  /\ UNCHANGED <<loaderVars, program, volume, rebootDelay, historyVars>>

\* The descriptor is written.  The golden image is not checked.
nodeDescWritten ==
  /\ stage = "writeDesc"
  /\ FlashIdle
  /\ stage' = "program"
  /\ IF Stored[nodeDesc] = DELUGE_GOLDEN_IMAGE_NUM
       THEN rebootDelay' = DELUGE_REBOOT_DELAY
       ELSE checkReboot(volume)
  /\ UNCHANGED <<flashVars, loaderVars, program, volume, historyVars>>

Awaited(v) == Stored[noReprogram] = 0 /\ Stored[imageAddr] = v

\* Metadata.setupNewImage for a volume other than the golden image's, whatever
\* the countdown and the loader's arguments say: the volume is erased.
setupNewImage(v) ==
  /\ Started
  /\ volume' = [volume EXCEPT ![v] = NoVolume]
  /\ intended' = IF Awaited(v) THEN NoImage ELSE intended
  /\ UNCHANGED <<flashVars, stage, loaderVars, program, rebootDelay, resets, completed>>

\* eraseDone: the descriptor is written.  Metadata.updateDone follows, here and
\* in verifyDone, and checks the node descriptor if the image it names is the one
\* that last received a page.
eraseDone(v, i) ==
  /\ Started
  /\ volume[v].image = NoImage
  /\ volume' = [volume EXCEPT ![v].image = i]
  /\ checkReboot(volume')
  /\ UNCHANGED <<flashVars, stage, loaderVars, program, historyVars>>

\* verifyDone: one more page has come, and passes its check.
verifyDone(v) ==
  /\ Started
  /\ volume[v].image # NoImage
  /\ volume[v].good < Pages
  /\ volume' = [volume EXCEPT ![v].good = @ + 1]
  /\ checkReboot(volume')
  /\ UNCHANGED <<flashVars, stage, loaderVars, program, historyVars>>

\* NetProg.programImgAndReboot, for whatever is in the volume.
programImgAndReboot(v) ==
  /\ StartWrite(ArgBytes([imageAddr |-> v, gestureCount |-> 255, noReprogram |-> 0]))
  /\ stage' = "reprogram"

\* Timer.fired counts down, and at the end asks for the image that the node
\* descriptor names by then.
Timer_fired ==
  /\ Started
  /\ rebootDelay > 0
  /\ rebootDelay' = rebootDelay - 1
  /\ IF rebootDelay' = 0
       THEN programImgAndReboot(Stored[nodeDesc])
       ELSE UNCHANGED <<flashVars, stage>>
  /\ UNCHANGED <<loaderVars, program, volume, historyVars>>

netprog_reboot ==
  /\ stage = "reprogram"
  /\ FlashIdle
  /\ stage' = "reset"
  /\ UNCHANGED <<flashVars, loaderVars, program, volume, rebootDelay, historyVars>>

\* The reset button, or power that fails and comes back: what is in RAM is lost.
Reset ==
  /\ stage # "reset"
  /\ ~(erased /\ page = Pages - 1)
  /\ PowerLoss
  /\ LeaveLoader
  /\ rebootDelay' = 0
  /\ stage' = "reset"
  /\ UNCHANGED <<program, volume, historyVars>>

Loader ==
  \/ LowVoltage
  \/ Gesture
  \/ Count
  \/ Counted
  \/ ErasePage
  \/ WritePage
  \/ Programmed
  \/ ResetArgs
  \/ runApp
  \/ InfoWritten
  \/ nodeDescWritten
  \/ netprog_reboot
  \/ FlashStep

Next ==
  \/ Loader
  \/ writeTOSinfo
  \/ \E v \in Slots : setupNewImage(v) \/ verifyDone(v)
  \/ \E v \in Slots, i \in Images : eraseDone(v, i)
  \/ \E v \in Volumes : receiveNodeDesc(v)
  \/ Timer_fired
  \/ Reset

Spec == Init /\ [][Next]_vars

\* The loader, and a write once begun, go on as long as there is power.
FairSpec == Spec /\ WF_vars(Loader)

-----------------------------------------------------------------------------
(***************************************************************************)
(* Properties.                                                             *)
(***************************************************************************)

BootTypeOK ==
  /\ segment \in [Segments -> [bytes : [Addresses -> Byte], vnum : Int8]]
  /\ newSegment \in Segments
  /\ newPtr \in 0 .. Size + 1
  /\ outcome \in {"returned", "lost"}
  /\ stage \in {"reset", "count", "writePages", "startupLeds", "resetArgs", "program",
                "writeInfo", "writeDesc", "reprogram"}
  /\ args \in [imageAddr : Byte, gestureCount : Byte, noReprogram : Byte]
  /\ source \in Volumes
  /\ page \in 0 .. Pages
  /\ erased \in BOOLEAN
  /\ program \in [AllPages -> AllImages]
  /\ intended \in AllImages
  /\ volume \in [Volumes -> [image : AllImages, good : 0 .. Pages]]
  /\ rebootDelay \in 0 .. DELUGE_REBOOT_DELAY
  /\ resets \in 0 .. TOSBOOT_GESTURE_MAX_COUNT
  /\ completed \in BOOLEAN

\* A boot that went through the whole sequence leaves in the program memory
\* every page of the image that was asked for last, or of the golden image after
\* a gesture, however many boots before it were cut short, and wherever: if that
\* image was whole when it was asked for, and Deluge has not replaced it since.
RunsIntendedImage ==
  stage = "program" /\ completed /\ intended # NoImage =>
    \A p \in AllPages : program[p] = intended

\* The golden image takes at least three resets none of which let the loader
\* finish: a node that is reset now and then keeps its program.
GestureTakesResets ==
  stage \in {"writePages", "startupLeds"} /\ IsGesture(args)
    => resets >= TOSBOOT_GESTURE_MAX_COUNT

\* When the resets end, a program runs, whatever the last of them interrupted.
EventuallyRuns == <>[][~Reset]_vars => []<>(stage = "program")

=============================================================================
