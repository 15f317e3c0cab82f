# TLA+ models and proofs for TinyOS 1.x

TinyOS is an operating system for sensor nodes of a few kilobytes of memory: one
stack, tasks that run to completion, interrupt handlers, and split-phase
commands whose completion is an event. This directory models the parts of it on
which every program rests, checks them with TLC and proves part of them with
TLAPS.

The repository keeps the core tree of TinyOS 1.x under
`src/contrib/boomerang/tinyos-1.x/tos/`, written `tos/` below. The directories
`src/apps`, `src/beta` and the rest of `src/contrib` hold applications, ports,
forks and experiments.

## 1. The system

### 1.1 How a node runs

`main()` (`tos/system/RealMain.nc`) initialises the components with interrupts
disabled, enables interrupts and enters the scheduler's loop. From then on
everything happens in one of two contexts:

* **tasks**, called one at a time by the scheduler, never preempted by another
  task;
* **interrupt handlers**, which may strike between any two atomic sections of a
  task, of the scheduler and of `main()`.

A long operation is a *command* that returns at once and an *event* signalled
later, usually from a task. `post` may fail, since the task queue is bounded,
and so may most commands. Nearly every defect of such a program is therefore a
matter of order, of atomicity, or of a failed post that nobody looked at; hence
the models keep every atomic section, every post and its result.

### 1.2 Components

| component | state | operations | hard parts | what makes it correct |
|---|---|---|---|---|
| task scheduler `system/sched.c`, `RealMain.nc` | ring of function pointers, two indices | `TOS_post`, `TOSH_run_next_task`, sleep | posts from interrupts; a full ring looks like an empty one; the sleep | a bounded FIFO, each post run once, no sleep over a waiting task |
| timers `system/TimerM.nc`, `platform/mica/HPLClock.nc` | table of timers, ticks not yet handled, compare value, queue of timers to signal | `start`, `stop`, `Clock.fire`, `HandleFire`, `signalOneTimer` | ticks go on while the task runs; failed posts; `uint8_t` arithmetic; stale queue entries | timers fire, in time, for ever if they repeat |
| active messages `system/AMStandard.nc` | one message, a busy flag | `send`, `sendTask`, `sendDone`, `start`, `stop` | refusals, failed posts, sends from handlers, lost completions | one message at a time, buffers not shared, each send reported once |
| queued send `lib/Queue/QueuedSendM.nc` | ring of messages, idle flag | `send`, `QueueServiceTask`, `sendDone` | completions of other clients; handlers that send; retransmission | a FIFO that keeps moving |
| serial framer `system/FramerM.nc` | transmit and receive state machines, pending flags, two buffers | `send`, `ReflectToken`, byte interrupts, `PacketSent`, `PacketRcvd` | the transmitter is idle before `PacketSent` runs; two buffers between interrupt and task | received frames not forgotten, packets sent before they are reported |
| base station `apps/TOSBase/TOSBaseM.nc` | two rings of copies | `receive`, send tasks, `sendDone` | one mover per queue, failed sends, acknowledgements | order kept, no stall, only what is queued is acknowledged |
| Maté `lib/VM` | contexts, lock sets, three queues | run, yield, sleep, send, halt, install | lock sets given up and retaken, new code under running contexts | mutual exclusion, no deadlock, no lost wake-up |
| Drip `lib/Drip` | keys, sequence numbers, Trickle timers | change, receive, send | wrap of sequence numbers, lost announcements, restarts | numbers order the data, no node goes back, announcements never cease |
| boot loader `lib/Deluge/TOSBoot` | arguments in two flash segments, program memory | start-up sequence, reprogramming | power lost between any two flash accesses | the intended image runs whole, in the end |
| Deluge `lib/Deluge` | images, pages, metadata in flash | advertise, request, send, write | loss, restarts in the middle | only complete images are used |
| Matchbox `lib/FS`, storage `boomerang/tos/lib/Flash` | metadata and data blocks | create, append, commit | crashes | one good copy at any time |
| routing and dissemination `lib/Route`, `lib/MultiHopLQI`, `lib/MintRoute`, `lib/Broadcast`, `lib/Drain` | parents, forwarding buffers | send, forward | parent changes, duplicates | no cycles kept, no buffer leaked |
| Boomerang overlay `contrib/boomerang/tos` | task bits, arbiters, virtual timers, message pool | post, request, release | first-come first-served under interrupts | mutual exclusion, no starvation |
| radio stacks CC1000, CC2420; TinySec | bit and byte state machines | byte interrupts | timing | seen here through `BareSendMsg` only |
| TinyDB, attributes, commands, events | query tables | query processing | size | not modelled |
| PC simulator `platform/pc` | event queue | | a host program | not modelled |

They interact by commands and events (wired at compile time), by posting tasks
into the one task queue, and by handing over message buffers: who may touch a
buffer changes at `send` and at `sendDone`. A component is called back from
inside its own `sendDone` signal, so that handlers call commands of a component
that is in the middle of one.

`PROJECT.json` lists each component with its status, and the hazards of the code
at their lines.

### 1.3 Plan

Done, each with its proofs: the scheduler (`TaskFifo`, `Sched`, `SchedProofs`),
the timers (`TimerM`, `TimerHistory`, `TimerProofs`), messages (`AMStandard`,
`SendQueue`, `QueuedSendM`, `QueueProofs`), the boot loader (`AtomicFlash`,
`InternalFlashC`, `TOSBootM`, `BootProofs`), Drip (`DripStateM`, `DripM`,
`DripProofs`), Maté (`MContextSynch`, `MateEngineM`, `MateProofs`), the serial
line (`FramerM`, `SerialBridge`, `TOSBaseM`, `SerialProofs`).

Left, in this order:

1. *Proofs*: every safety property of the passing runs has its theorem now. What is
   left are statements beyond the runs, to be tried with TLC first: `QueuedSendM` when it
   is not the first to hear of a `sendDone` event, for clients that do not reuse the
   buffer in their handler; Maté after an install, for programs whose once context
   does not sleep.
2. *Deluge* page transfer between two nodes with loss and restarts.
3. *Matchbox*: the commit of its metadata blocks.
4. *Boomerang*: task bits of `SchedulerBasicP`, first-come first-served arbiter,
   `VirtualizeTimerC` compared with `TimerM`.

## 2. Modules

| module | models | role |
|---|---|---|
| `TaskFifo` | what the scheduler promises | abstract specification, and the scheduler under all other models |
| `Sched` | `sched.c`, the main loop, sleep | detailed scheduler |
| `SchedProofs` | | theorems about `Sched` |
| `TimerM` | `TimerM.nc` over the counter of `HPLClock.nc`, scheduled by `TaskFifo` | detailed timers |
| `TimerHistory` | | `TimerM` with history variables, for what `Timer.nc` promises |
| `TimerProofs` | | theorems about `TimerM` and `TimerHistory` |
| `AMStandard` | the sending half of `AMStandard.nc` over two channels | detailed message layer |
| `SendQueue` | what `lib/Queue` promises | abstract specification |
| `QueuedSendM` | `QueuedSendM.nc` on `AMStandard` | composed module |
| `QueueProofs` | | theorems about `AMStandard` and `QueuedSendM` |
| `AtomicFlash` | what `InternalFlash` promises: writes that happen whole or not at all | abstract specification |
| `InternalFlashC` | `TOSBoot/msp430/InternalFlashC.nc` | detailed store |
| `TOSBootM` | `TOSBootM.nc`, and `NetProgM.nc` and Deluge's image volumes as it sees them, on `InternalFlashC` | composed module |
| `BootProofs` | | theorems about `InternalFlashC` and `TOSBootM` |
| `DripStateM` | the functions of `DripStateM.nc` on one cache entry | operators of `DripM` |
| `DripM` | `DripM.nc` on several nodes and lossy links | protocol |
| `DripProofs` | | theorems about `DripM` |
| `MContextSynch` | `MContextSynch.nc`, `MLocks.nc`, `MQueue.nc` | locks and queues of Maté |
| `MateEngineM` | `MateEngineM.nc`, the instructions, contexts and capsules that use them | composed module |
| `MateProofs` | | theorems about `MateEngineM` |
| `FramerM` | `FramerM.nc` | detailed serial framer |
| `SerialBridge` | what TOSBase promises of one direction | abstract specification |
| `TOSBaseM` | `TOSBaseM.nc` on `FramerM` | composed module |
| `SerialProofs` | | theorems about `TOSBaseM` |
| `TaskCounts` | | lemmas about how often a task waits in a queue, for three of the above |
| `MCSched`, `MCTimer`, `MCAM`, `MCQueue`, `MCBoot`, `MCDrip`, `MCMate`, `MCFramer` | | instances for TLC |

### 2.1 Scheduler

`TOSH_queue`, `TOSH_sched_full` and `TOSH_sched_free` have the names of the code.
Each atomic section is one action: `TaskPosts` and `InterruptPosts` (`TOS_post`
in the two contexts), `RunTask` and `GoToSleep` (the two branches of
`TOSH_run_next_task`), `FunctionReturns`, and `InterruptOnly` for an interrupt
that posts nothing and wakes the processor. Since `__nesc_atomic_sleep` enables
interrupts and sleeps in one step, the test for an empty ring and the sleep
are one action. `running = Boot` stands for `main()` before its loop, when
interrupts are disabled. The mask `& TOSH_TASK_BITMASK` is the remainder, which
for the powers of two in the code is the same; nothing else depends on the power
of two, so the model and its proofs allow any size.

`ImplementsFifo` states that the ring, read from `TOSH_sched_full` on, is the
`fifo` of `TaskFifo`. The components above are then composed with `TaskFifo`,
which has far fewer states. `posted` holds the result of the last post.

### 2.2 Timers

The counter counts `TCNT0` up to `OCR0`, starts at 0 again and sets `OCF0`
(`Tick`). The interrupt handler `Clock_fire` is enabled while `OCF0` is set and
interrupts are enabled. `HandleFire` is split at its atomic sections: `HandleFire`
takes the ticks counted, `HandleTimer` is one turn of the loop, `CheckOutstanding`
the test after it, `AdjustInterval` the computation and writing of the next
compare value. Ticks and interrupts may come between any two of them, and between
the read of the counter and the write of the compare value inside an atomic
section (`SetInterval`). Numbers that the code keeps in a `uint8_t` or `uint16_t`
are taken modulo `CounterMod` and `OutstandingMod`.

The program calls `start`, `stop` and `StdControl.stop` from its start-up code,
from its own tasks (`App`) and from its `fired` handlers; the constant `Callers`
chooses which. With `Lag = FALSE` the processor finishes its work before the next
tick; with `Lag = TRUE` ticks come at any time, up to the backlog `MaxLag`.

Left out: `PowerManagement.adjustPower` (how deep to sleep) and `setIntervalFlag`
(written and never read).

### 2.3 Messages

`AMStandard` runs its commands and events in tasks, so each is an action. A
`sendDone` event is a fan-out to several handlers, and a handler may send: the
variable `calls` holds the handlers still to return, and the clients' sends come
between. `owner` says who may touch a buffer: the program (`app`) or a layer
below. `air` is what each channel sends. A channel accepts one message at a time,
may refuse any, and completes from a task that its interrupt handler posts,
trying again at the next interrupt when the post fails: this is what
`CC1000RadioIntM.nc` does in its state `TXSTATE_DONE`. `PowerCycle` is
`Control.stop` followed at once by `Control.start`; a channel that has not yet
posted its completion may lose the message. `restarted` is a history variable.

Left out of `AMStandard`: the receive path (a dispatch by message type), the
activity counter, and the refusal of a message that is too long, which changes
nothing.

`QueuedSendM` adds the ring and extends the handlers: a `sendDone` event goes to
`QueuedSendM` first and then to the direct clients. The handler of the client
whose message is done runs before the message leaves the ring
(`SignalSendDone`, then `Dequeue`), as in the code. `retransmit` is a variable
of the code that never changes; here it is a constant, and so is the bound
`MAX_RETRANSMIT_COUNT`. Only the buffers' pointers are kept; address, length and type
do not influence the control except through the channel.

### 2.4 Boot loader and internal flash

`InternalFlashC` keeps two segments of the msp430's information memory. A write
erases the segment not in use (`StartWrite`), copies byte after byte
(`CopyByte`) and ends with a newer version number (`WriteVersion`), which makes
the segment the one in use. Each access of the flash is a step, and power may
be lost between any two (`PowerLoss`). Version numbers are `int8_t`: `ToInt8`
wraps at `Half`, and 0xff is passed over because it is what an erased byte
holds. An erase and the programming of a byte are indivisible; a byte half
programmed is beyond the model.

`TOSBootM` is the loader above it. `stage` is where it is in `startupSequence`:
`Count` or `Gesture`, `Counted`, one `ErasePage` and one `WritePage` for each
page, `Programmed`, `ResetArgs`, `runApp`. `Reset` takes everything in RAM away
and leaves the flashes as they are. An image is a model value and the CRC check of a
page is whether the page is good. The loader's arithmetic on `gestureCount`, where
0xff plus 1 is 0, is kept.

While the X A node descriptor may come from the
radio at any time (`receiveNodeDesc`, stored by `nodeDescWritten`); `checkReboot` looks
whether the image it asks for is whole and starts a countdown of `DELUGE_REBOOT_DELAY`
firings, which is kept in RAM and lost with a reset; the last `Timer_fired` calls
`programImgAndReboot`, which looks at nothing any more. Between any two of these
steps image volumes may be erased, filled and completed (`setupNewImage`, `eraseDone`,
`verifyDone`), and another descriptor may come.

`intended` is a history variable: the image that was asked for last, or `NoImage`
if the volume did not hold it whole when it was asked for, or has been replaced since.
Then nothing is promised of what the loader finds there.

One assumption is left: power is not lost while the page with the reset vector is erased
(the loader would not be reached again; `ProgFlashM` writes the vector last).

### 2.5 Drip

`DripStateM` has the functions of the code on one cache entry: `trickleSet`,
`newMsg`, `incrementSeqno`, `updateCounters`. Sequence numbers are even numbers
modulo `SeqnoMod` with the wake-up bit as their last bit; `IsAhead` is the
comparison `(int16_t)(a - b) > 0`. `DripM` has nodes with one entry each, a client
that stores the data (here: which change it is), and the announcement that a node
is sending, `msgBuf`, which its neighbours may hear, hear twice or miss until
`sendDone`. One node is the source and does not restart; two sources may choose
the same number for different data, and so may a source that forgot its number.
`NoneFarBehind` keeps every node within half the number space, which the
comparison needs.

### 2.6 Maté

A context is a thread. `MContextSynch` has the code's three lock sets per
context, the lock table, the queues and the queue each context believes to be in.
The loop of `yieldContext` is taken round by round (`ResumeNext`,
`YieldReturns`), and a context that is not runnable is left in the state waiting,
as `resumeContext` leaves it; `yielder` and `halting` say which calls are under way, and
nothing else runs meanwhile, since all of it is in tasks.

`MateEngineM` has the tasks that call it: `RunTask` with its slices, sleep
timers, `sendDone`, timer contexts, the installation of capsules and the
`rebootTask` after each. Every chunk that completes a capsule stops the machine and
posts a `rebootTask`, so that a second installation may come before the
`rebootTask` of the first: `rebooting` counts those that wait in the task queue, and
`behind` those among them that were posted after a `RunTask` that waits, too.
A program is any sequence of the instructions that matter
to the locks: an access (`GetSetVar`), the two unlocks, sleep, send and halt.
It uses and releases only what it holds; an incorrect release is what the
manual excepts. `iCount` is kept only as far as it is compared.

### 2.7 Serial framer and base station

`FramerM` moves a frame out in two steps (payload read; closing flag out) and in
in three (flag; first byte; closing flag), each an interrupt. What comes in is a bad
frame or a good one, and a good one is whole, short (token and type only, which resets
the receiver), *empty* (its payload has length 0, which also says that a buffer is
free) or *long* (one byte more than the buffer, after which the receiver gives up).
`rcv` is what `PacketRcvd` saw in the buffer it works on; the history variables `odd` and
`spoiled` tell whether an empty or a long frame came in so far, and whether a received
frame or a token was written over. `tx` holds the
transmitter's variables of the code under their names. The frame that goes out is
read from its buffer in the first step (`wire`), so that a change of the buffer
afterwards would be seen. A message is its number, and its token too.

`TOSBaseM` adds the two queues. `PacketSent` and `PacketRcvd` are the framer's tasks
together with the `sendDone` and `receive` handlers of TOSBase they call. The
radio takes one message at a time, may refuse, and may fail.

`PacketRcvd` takes two steps, its look at the buffer and the atomic section that
empties it, because a frame may end between them. The other tasks are single steps:
their atomic sections only test and toggle flags that
interrupts do not change, and gTxState, which an interrupt changes only while it
is not idle. Left out: the task `PacketUnknown`, which reports a frame nobody knows
and changes nothing; what the build puts behind the second receive buffer, whose first
byte a long frame writes over; radio messages of another group or with a bad CRC, which change
nothing; the UART refusing a byte although none is under way.

## 3. What is checked

Every run finishes in a little over three minutes on two cores. Nine of the twelve pass; three look
for a disagreement with a document and find one.

| run | instance | what it shows |
|---|---|---|
| `sched` | 4 slots, 2 tasks | the ring implements the FIFO, is contiguous, never sleeps over a task, and every posted task is dispatched |
| `timer_lag` | 2 repeating timers, another task, backlog of 1 tick, task queue of 6 | while ticks and interrupts overlap `HandleFire`, elapsed ticks always have exactly one `HandleFire` waiting (`OutstandingIsHandled`), the interval arithmetic stays in its widths, and a timer left alone fires for ever, although `HandleFire` at times leaves the counter to a later one (`RepeatingTimersFire`) |
| `timer_prompt` | 2 timers, intervals 0 and 6, commands from all callers | the accounts of ticks are exact (`TimeIsAccounted`), timers fire from two ticks before to one tick after their time without drift (`OnTime`), a one-shot timer that expired stays queued until its event, and a timer left alone in the end neither runs nor has an event outstanding, or fires for ever (`TimersFire`) |
| `am` | 3 messages on 2 channels, task queue of 3, restarts | the layer is busy only for a reason; until a restart, one message in hand, every accepted message reported exactly once |
| `queue` | 3 messages, ring of 3, one retransmission, direct clients | refinement of `SendQueue`, contiguous ring, exactly one mover, every queued message reported |
| `boot` | 2 pages, 1 volume, 1 image and the factory's, 5 bytes of information memory, countdown of 1, version numbers -3 to 2, any number of resets | a boot that completes runs the whole image asked for last, if that was whole then and has not been replaced (`RunsIntendedImage`), the golden image takes three boots cut short, a program runs once the resets end; the store implements `AtomicFlash` |
| `drip` | 2 nodes, intervals of 2 and 4 ticks, numbers modulo 32 from 28 on, 3 changes, one restart | numbers order the data across the wrap and the reserved numbers, no node goes back, and a node announces what it has, or hears it announced, for ever (`KeepsAnnouncing`) |
| `mate` | 2 timer contexts, 1 once context, 2 locks, 2 installs, the second perhaps before the `rebootTask` of the first | until the first install: what contexts believe to hold is what they hold, no access is refused, no circle of waits; always: a context asks again only for what it releases, and none is left waiting for free locks |
| `framer` | 2 radio messages, 3 host frames of all four lengths, 1 failed byte, queues of 2 and 1 | a received frame always has a run of `PacketRcvd` that comes to its buffer, and is written over only where an empty or a long frame came in (`BuffersMatchTasks`), only queued messages are acknowledged, one mover per queue, the way to the serial line implements `SerialBridge`, what is queued leaves in the end |
| `sched_full` | as `sched` | violation of `OneSlotStaysEmpty`, see below |
| `mate_install` | 1 timer and 1 once context, 1 install | violation of `AccessAllowed`, see below |
| `framer_slow` | 3 radio messages, 2 host frames, whole or short, late tasks | violation of `LeavesOnTheOtherInterface`, see below |

`TimersFire` and `RepeatingTimersFire` say "unless the program itself keeps starting
or stopping the timer" and "unless no tick passes any more" (`TimeStops`): in the
models ticks wait for the processor, in `timer_prompt` until it is idle, in
`timer_lag` when the backlog is at its bound, and tasks of the program that follow each
other without end would keep them waiting. `QueuedIsSent` says "unless other
clients send for ever": a direct client that
always posts its next send first does starve the queue. `CHECK_DEADLOCK FALSE`
in `mate` is there because the virtual machine may stop in its error state after an
install, and in `framer` because all messages may have been delivered.

### 3.1 Disagreements with the documents

* `sched_full`. The header of `sched.c` (lines 51 to 53) says that equal indices mean an
  empty list, and that "the list keeps at least one empty slot; one cannot add a task
  if advancing free would make it equal to full". `TOS_post` looks at the slot
  instead, not at the indices, and fills them all. The code agrees with itself:
  `RingImplementsFifo` is proved for the code as it is.
* `mate_install`. Maté's manual says that the program analysis "ensures race-free
  execution". `EngineControl.reboot` frees all locks; `rebootTask` then halts the
  contexts, but the `rebooted` handler of a once context that has run before does
  nothing. If it sleeps across the install and its sleep ends before
  `rebootTask`, it goes on with the held set of before the reboot, and its next
  access stops the virtual machine with an error, although the program is correct.
* `framer_slow`. The README of TOSBase guarantees that "once a message enters a
  queue, it will eventually leave on the other interface". The transmitter is
  idle after the closing flag, before `PacketSent` runs. A token reflected in
  between starts a frame and overwrites `gTxProto`, by which `PacketSent` tells
  what was sent. If that frame ends as well before `PacketSent` runs, which takes
  other tasks as long as a few bytes on the line, there is one `PacketSent` more
  for data than there was data; it signals `sendDone` for a message that was never
  sent, and TOSBase drops it. With tasks that keep up (`framer`) the same order
  only sends a packet twice, which `SerialBridge` allows.

### 3.2 Observations without a run

They follow from the models with other constants, as given, or from the source.

* `TimerM`, full task queue (small `Capacity`, `MaxApps > 0`): the post of
  `HandleFire` in `Clock.fire` fails, `interval_outstanding` is counted up all the
  same, and no later interrupt posts it: every timer of the node is dead
  (`OutstandingIsHandled` fails).
* `TimerM`, more timers that expire together than the task queue has room for
  (`Capacity = 1`, two timers): a timer whose `signalOneTimer` cannot be posted is
  tried again when the others expire next, and the lower numbers are posted first:
  the last one never fires (`TimersFire` fails).
* `TimerHistory`, `Lag = TRUE`: a repeating timer expires twice before its first
  event, `enqueue` overruns, another timer's one-shot event is lost
  (`OneShotFires` fails).
* `Timer.stop` leaves the queue entry, and the timer fires after it was stopped
  (`StopPreventsFiring` fails).
* A processor that falls behind by more than a tick in each period (`MaxLag = 2`): it may
  never catch up, each `HandleFire` leaves the counter to the next, and a
  timer expires later and later (`RepeatingTimersFire` fails).
* A timer started between the interrupt and `HandleFire` is charged the ticks
  before its start (`OnTime` fails with more `Callers`). `Timer.start` with
  interval 0 and a tick between its two register accesses sets a compare value
  the counter has passed.
* A compare match between `HandleFire`'s last test and `adjustInterval` makes the
  interrupt read the new compare value for a period that had the old one. It is an
  action of the model; no document bounds the error.
* A repeating timer of 3 ticks, the least `Timer.start` accepts (its comment says that
  only timers faster than 3 ticks are not supported, `TimerM.nc:104-109`), falls
  behind by a tick each period, since a compare value of 3 is a period of 4 and
  `adjustInterval` asks for no less. `ticksLeft` sinks by one each period; once it is
  negative it is stored in a `uint8_t`, and the timer waits for up to 256 ticks
  (`Intervals = {3}`: `NeverAPeriodBehind` fails). The runs use intervals from 4,
  and so do the theorems about time.
* After a restart of `AMStandard` an accepted message may never be reported, and
  one still in hand may be overwritten. `QueuedSendM` ignores the result of its
  posts: with a full task queue it stops for good. It knows its own messages by the
  pointer alone: when a client hears of its `sendDone` first and gives the buffer
  just reported to the queue (`Handlers = <<"client", "queue">>`), the queue takes
  the event for its own and goes on twice (`OneMover` fails).
* Reprogramming. `NetProg.nc:43-51` says that `programImgAndReboot` assumes a downloaded
  image and returns `FAIL` for an incomplete one; `NetProgM.nc:110-131` reboots
  for any image number. `DelugeM` looks at the image in `checkReboot` only,
  `DELUGE_REBOOT_DELAY` firings before; in between the volume may be erased or another
  descriptor may come, hence the condition of `RunsIntendedImage`. A reset during the
  countdown forgets the reprogramming: nothing looks at the descriptor again
  until an image or a descriptor arrives.
* `TOSBootM.nc` checks `i == numPgs` after a loop that counts the bad page too: the
  last page's CRC does not matter. Line 209 says "if the golden image is invalid, forget
  about reprogramming", but when the program memory was erased by an attempt before, the
  loader then runs what is left in it, and so it does with a battery too low. For a
  section that is too long `programImage` returns `FAIL`, which is `R_SUCCESS`: both
  are 0. On the msp430 `R_PROGRAMMING_ERROR` is never returned.
* Drip with messages whose wake-up bits differ (`WakeupBits = {0, 1}`,
  `FirstSeqno = 27`): the number adopted may be `DRIP_SEQNO_OLDEST`,
  which no node accepts. That every node gets the newest message in the end is not stated:
  it depends on the links, and on who announces first. Intervals below 4 ticks
  have no random announcement time, so a neighbour that is always first can
  suppress a node in every interval. `DripSendM` tests `outBufBusy` and never sets it: a
  second send replaces the message of the first.
* `FramerM`, frames nobody means to send. A good frame with an empty payload posts
  `PacketRcvd` and moves the head, but its buffer still looks free: tasks outnumber
  full buffers, a later frame is delivered by the task of an earlier one or out of order,
  and the end of a `PacketRcvd` that saw an empty buffer erases a frame that came
  meanwhile, or sets its token to 0 (an acknowledgement for token 0). The test for a frame
  that is too long is `> HDLC_MTU` after the byte is stored, so its last byte is the first of
  the next buffer, which may hold a message. These are the two exceptions in
  `BuffersMatchTasks`.
* Maté: since locks are taken all or none and `yieldContext` rotates the ready
  queue, a context may be overtaken for ever. `clearAnalysis` swaps two arguments
  of `memset`, without effect. `executeContext` sets `taskRunning` without
  looking at its post. After an install a halted context may keep a lock; the
  error state survives `rebootTask`. With a slice of one instruction (`Slice = 1`)
  `AcquiresOnlyReleased` fails after an install: a context that `rebootTask` halted is
  still the one `RunTask` runs, and its slice puts it back into the ready queue. The
  repository uses `MATE_CPU_SLICE` (`MateEngineM.nc:174`) and does not define it.

### 3.3 Bounds

The safety properties of the passing runs are also proved for any sizes (section 4);
what follows matters for liveness, and where a theorem has hypotheses.

* `Sched`: 4 slots wrap and fill in all ways.
* `TimerM`: the longest interval is 4 instead of 230 and the counter of `timer_prompt`
  counts to 8 instead of 256, which keeps the proportions that matter: an interval below
  and above the longest (0 and 6), a margin of 3 ticks that fits, a
  counter that can wrap. In `timer_lag` it counts to 6, so that the margin does not
  always fit and the compare value wraps more often than in the code. Two timers are
  needed for one to disturb the other; the
  ring of timers to signal then wraps every two signals. With `MaxLag = 1` an interrupt
  comes in the middle of `HandleFire`, posts a second one, and makes the first leave
  the counter alone; a processor that is further behind may stay so (section 3.2), and
  `OutstandingCorrect` covers any `MaxLag`. A task queue of 6 is what that theorem asks
  for with two timers and one other task. `Overdue` stops following a timer that is
  late already.
* `AMStandard`: two radio messages and one serial message occupy both channels
  and leave one to be refused; a task queue of 3 with up to 3 other tasks makes
  every post fail somewhere.
* `QueuedSendM`: a ring of 3 holds two messages and, during a handler, wraps and
  fills; one retransmission shows the three outcomes. Its task queue of 6 is never
  full. `WordMod` is a multiple of the size, as 2^16 is of the default 32:
  `getOccupancy` needs that, and `QueueAssumption` states it.
* `TOSBootM`: two pages allow a program half old and half new; one volume besides
  the golden one a wrong choice between them; one image and the factory's a mixture of
  the two, and a volume that is replaced by the same image is empty in between. A
  countdown of 1 leaves a window, between the check and the last firing, in
  which volume and descriptor change; the theorems hold for any countdown.
  `Half = 3` leaves five version numbers, which wrap in a few writes.
* `DripM`: two nodes that hear each other, one of which restarts, hear old
  numbers and new ones, and suppress each other. With `DRIP_MAX_SEND_INTERVAL = 2` an
  interval grows to 4 ticks, with a random time, and ends by itself.
  Starting at 28 modulo 32 three changes cross the three reserved numbers;
  `MaxBehind = 2` lets a node miss a change and be told of a later one.
  `NumbersOrderData` and `NodesNeverGoBack` hold for any number of nodes.
* `MateEngineM`: three contexts allow a circle of three, two locks a set taken in
  parts. `Quantum = 1` and `Slice = 2` interleave at every instruction and let a
  slice end before or with a quantum. Two installs let the second come before and after
  the `rebootTask` of the first.
* `TOSBaseM`: three host frames are one more than there are receive buffers, so a
  buffer is filled again while tasks for earlier frames wait; each may be whole, short,
  empty or long, and the states where something was written over by an empty frame alone,
  and by a long one alone, are reached. The radio's queue of 1 overflows. The serial
  line's does not with two radio messages; `BridgeImplemented` holds for any
  number of them. `TaskSlots = 7` is enough for all posts. Messages and frames
  are bounded for `EventuallyLeaves` too: acknowledgements
  go first, and a host that never stops asking for them could starve the data.

### 3.4 Fairness

The scheduler's loop and each task run to completion (weak fairness); that no
task loops for ever is the programming rule of TinyOS. The counter counts and
its interrupt is served, except while a stated bound keeps it. A channel completes what
it accepts: its interrupt handler tries the post again at every interrupt, so
that it succeeds if there is room again and again, which is strong fairness of a
successful post. Nothing is assumed of the program: it may call no command at
all.

* `boot`: weak fairness of the loader, once there are no more resets (`stable`).
* `drip`: timers fire and `sendDone` comes (weak). Nothing is assumed of the links, nor of
  which of two timers fires first.
* `framer`: tasks run and a byte handed to the UART is sent (weak); a radio
  offered a message again and again accepts it and sends it in the end (strong).

## 4. What is proved

`SchedProofs` proves, for every ring size `MaxTasks >= 1` and every set of tasks
(assumptions `MaxTasksAssumption`, `TaskAssumption`):

| theorem | property |
|---|---|
| `TypeCorrect` | `TypeOK` |
| `RingIsContiguous` | `UsedSlotsAreContiguous` |
| `IndicesAlwaysAgree` | `IndicesAgree` |
| `NeverSleepsOverTask` | `NoSleepOverTask` |
| `RingImplementsFifo` | `ImplementsFifo`: every behaviour of the ring is one of `TaskFifo` |

The inductive invariant `IInv` is the conjunction of `TypeOK`, contiguity, the
agreement of the indices, and "the processor sleeps only with an empty
ring and no task running". None of the parts is inductive alone: a full ring and
an empty ring have equal indices, so the effect of a post on the occupancy needs
to know that slot `TOSH_sched_free` is empty exactly when fewer than `MaxTasks`
slots are used, which is contiguity and agreement together. Two lemmas state what
a post and a dispatch do to a ring that is contiguous (the occupancy grows or
shrinks by one and stays so); lemmas about the remainder carry the arithmetic.
For the refinement, the sequence `Waiting` read off the ring is shown to become
`Append(Waiting, t)` and `Tail(Waiting)`, and every other step to leave it.

`QueueProofs` proves of `AMStandard`, for any messages, handlers, services and size of the
task queue (assumption `AMAssumption`):

| theorem | property |
|---|---|
| `AMTypeCorrect` | `AMTypeOK`, restarts included |
| `NeverBusyInVain` | `BusyForAReason`, restarts included |
| `OneMessageAtATime` | `OneMessageInHand` |
| `BuffersStayApart` | `BuffersAreNotShared` |
| `ReportedOnce` | `SendDoneOnce` |

The invariant is `Types /\ Busy /\ (~restarted => OneJob)`. `Busy` relates `state`
to the message on its way. `OneJob` says that until a restart there is at most one
such message, waiting for `sendTask` or on one channel, with `state` set and its
buffer owned by the layer, and that each task waits at most once and a channel's
task only for a message on that channel. Two lemmas say what a post and a dispatch do to the question which
tasks wait, so that the proofs of the actions need no arithmetic of sequences.

It proves of `QueuedSendM`, for any size of the ring that divides 2^16
(`QueueAssumption`):

| theorem | property | hypotheses |
|---|---|---|
| `QueueTypeCorrect` | `QueueTypeOK`: no count of transmissions passes `MAX_RETRANSMIT_COUNT + 1` | none |
| `RingCorrect` | `RingIsContiguous` | none |
| `QueueRefinement` | `ImplementsSendQueue` | none |
| `QueueKeepsGoing` | `OneMover` | `~PowerCycles`, `Capacity >= MaxApps + 2`, `Handlers[1] = "queue"` |

The first three hold with restarts, failed posts and any wiring. Their invariant `QInv`
adds to the ring which handlers can be under way together (`Shape`): no second
`sendDone` of the queue's own message while its client's handler runs, so that
`Dequeue` removes the message that was reported. The refinement reads the queue's
messages off the ring; during that handler its oldest message has already left.
`OneMover` needs each hypothesis, which section 3.2 shows: a restart loses the event,
a full task queue the post, and a client that hears of the event first
can give the queue the buffer just reported. Two slots of the task queue suffice beside the
program's: `QueueServiceTask` and one task of the layer. `MInv` says that only the
oldest message is ever with `AMStandard`, that the queue's handler comes before
any other, and that of the five things that can move the queue no two exist
together, and one unless `fQueueIdle`.

`TimerProofs` proves, for any number of timers, intervals, width of the counter and
commands of the program (`TimerAssumption`):

| theorem | property | hypotheses |
|---|---|---|
| `TimerTypeCorrect` | `TypeOK` | none |
| `SignalsMatched` | `SignalsMatchQueue` | none |
| `OutstandingCorrect` | `OutstandingIsHandled` | `Capacity >= 2 * NUM_TIMERS + MaxApps + 1`, `OutstandingMod > MaxLag + CounterMod` |
| `TimeAccounted` | `TimeIsAccounted` | `KeepsUp` |
| `OneShotsFire` | `OneShotFires` | `KeepsUp` |
| `ExpiresOnTime` | `OnTime` | `KeepsUp` |
| `KeepsRate` | `NeverAPeriodBehind` | `KeepsUp` |

The first two hold however late the processor is and whatever posts fail. `TypeOK`
bounds `queue_size` by the length of the task queue, since each entry has its task there
(`SignalsMatchQueue`, which therefore is part of the invariant), and the two counts of
ticks by the width of their variables.
`OutstandingCorrect` is about a processor that falls behind by up to `MaxLag` ticks:
the hypotheses are that the task queue has room and the count does not overflow. How
much room that takes is the point of its invariant `RInv`. Tasks are served in order, so the
`signalOneTimer` tasks that wait stem from the last two runs of `HandleFire`, those
behind a waiting `HandleFire` from the last one only; each run posts at most
one per timer. In a task queue of 8, the default, that is three timers and one task of
the program.

`KeepsUp` says that the processor finishes its work before the next tick (`~Lag`) and no
other interrupt comes while ticks await `HandleFire` (`~Coincide`), that there is room
for one signal of each timer and the program's tasks, that the count holds a period, and
that no timer repeats every 3 ticks. With another interrupt (`Coincide = TRUE`) its task
may start a timer that is charged the ticks before; section 3.2 shows why the
others are there. The parts of `HInv`: what the node does when
ticks are counted (`Resting`), the counter stands at 0 until they are handled
(`Clock`), the compare value never exceeds what is left for any timer that runs
(`TimeLeft`), and the ring of timers to signal (`Ring`). `adjustInterval` takes the
least `ticksLeft` of all timers: that its loop, the recursive function `val`, exists and
computes it is proved from the least number for which it would not (`LeastElement`), since
the library's induction is out of the provers' reach.

`BootProofs` proves, for every `Size >= 4`, every set `Byte` that has the values the
loader uses, every `Half > 2`, and any pages, images and volumes (`FlashAssumption`,
`BootAssumption`; this includes the real 127 bytes of 0 to 255):

| theorem | property | hypotheses |
|---|---|---|
| `FlashImplementsAtomicFlash` | `ImplementsAtomicFlash` of `InternalFlashC` alone, any writes | none |
| `BootFlashIsAtomic` | the same of the store within `TOSBootM` | none |
| `BootTypeCorrect` | `BootTypeOK` | none |
| `GestureIsThreeResets` | `GestureTakesResets` | none |
| `CompletedBootRunsIntended` | `RunsIntendedImage` | none |

`FlashInv` says that the segment being written is invalid, the other one is in use, and
the bytes copied so far are those asked for. That the segment with the new number is
the one in use afterwards, also where numbers wrap, is a lemma about `ToInt8`; it is
where `Half > 2` is needed. Above the store, `CountInv` says for each stage of
`startupSequence` what the write under way is to leave and what is there as long as it
has not (`WriteOK`), hence that the stored count of resets is never more than the
resets there have been; and that the node descriptor names a volume while the countdown
runs (`DescOK`). `ImageInv` says what is promised as long as `intended` is an image: what is
stored determines what the next boot programs, and that this is the intended image, or
that image is in the program memory already (`IntendedOK`); a loader that writes pages will be
sent back to them by what is stored if it is cut short (`WritingOK`); and what it has
read into RAM, or done, agrees with that (`LoaderOK`).

`DripProofs` proves, for any nodes, links, modulus, number of changes and restarts
(`DripAssumption`, `DripStateAssumption`):

| theorem | property | hypotheses |
|---|---|---|
| `DripTypeCorrect` | `DripTypeOK` | none |
| `NumbersOrderData` | `SeqnoOrdersData` | `NearEnough`, `KeepsWakeupBit` |
| `NodesNeverGoBack` | `NeverGoesBack` | the same |

`DripTypeOK` is inductive. That intervals grow with their stage, 2^i <= 2^j, is read off
the subsets of `1 .. i` and `1 .. j` (`PowerGrows`); one of the four numbers that
`incrementSeqno` may try is not reserved (`IncrementType`).

`SeqnoOrdersData` is not inductive, since it does not say how far apart two numbers
are. `NumbersCount` does: the distance of two numbers is twice the number of changes
between their data, and 6 more where the three reserved numbers lie between
(`Apart`). The source has the newest number, what a node announces it has known
(`CachesOK`, `NoneTooOld`), and a lemma about `incrementSeqno` gives the next
number. `NearEnough` (`2 * MaxBehind + 6 < SeqnoMod \div 2`) says that nobody misses so
many changes that the comparison of an `int16_t` turns round: for the 2^16 of the code,
16,380 changes. `KeepsWakeupBit` (`0 \notin WakeupBits`) says that messages from outside
have the wake-up bit set; without it the source may adopt a reserved number (section 3.2).

`SerialProofs` proves, for any numbers of messages and frames and any lengths of the
two queues (`FramerAssumption`, `BaseAssumption`):

| theorem | property | hypotheses |
|---|---|---|
| `BaseTypeCorrect` | `BaseTypeOK` | none |
| `NeverAckedUnqueued` | `AckedOnlyIfQueued` | none |
| `BuffersCorrect` | `BuffersMatchTasks` | `KeepsUp` |
| `QueuesCorrect` | `QueuesHaveOneMover` | the same |
| `BridgeImplemented` | `ImplementsBridge` | the same |
| `LeavesCorrectly` | `LeavesOnTheOtherInterface` | the same |

`Sound` follows the tokens: every one on its way, or about to be, is that of a message
that was queued, or 0. `InStep` says that at most one `PacketSent` waits and that
`gTxProto` then tells what was sent, or a token was reflected meanwhile and the data is
pending still; that each queue has one mover; and of the receiver (`Receiver`) that the
two buffers and the runs of `PacketRcvd` that are due make a ring of two, in which a
buffer no run comes to is not full (`RxRing`), that without an empty frame each run
comes to a full one (`RxExact`), and that what is written over was written over by a run
for an empty frame or by a long frame (`RxOdd`). With empty frames there may be more runs due
than buffers; the ring is then read modulo 2.

`KeepsUp` says that tasks are not late (`~SlowTasks`) and that each finds room in the task
queue: one `PacketSent` and one send task of each queue, and two `PacketRcvd`, or as
many as frames if some are empty. The code has 8 slots. `LeavesCorrectly` is the
statement that `framer_slow` refutes for tasks that are late: the hypothesis is where
the two differ.

`MateProofs` proves, for any contexts, locks, programs and lengths of quantum and
slice (`ContextAssumption`, `EngineAssumption`):

| theorem | property |
|---|---|
| `MateRaceFree` | `RaceFree` |
| `MateDeadlockFree` | `DeadlockFree` |
| `MateTypeCorrect` | `MateTypeOK`, installs included |
| `MateNoLostWakeup` | `NoLostWakeup`, installs included |
| `MateAcquiresOnlyReleased` | `AcquiresOnlyReleased`, installs included, if `Slice > 1` |

The invariant `installs = 0 => Good` has a part for the types of the lock sets,
for the queues, for what each context may be doing in each state, for the engine,
for the locks, and `NoCircle`. The parts need each other. `RaceFree` includes that the
virtual machine is never in its error state, for which `Queue.enqueue` must never
find a context in a queue, which needs to know where contexts that sleep, send or
run are. `NoCircle` is inductive because of what the locks' part says of each way the
edges of the waits-for graph change: a lock is freed; it is taken by a context
that then waits for none; it is asked for by a context that holds none; or it
is asked for again by its holder, who gives it up before it waits. After an
install none of this holds, as `mate_install` shows.

The last three theorems are about what survives an install. `TypesOK` says that every
context is in the one queue it believes to be in, and that nobody is left waiting for free locks:
while `yieldContext` looks through the ready queue, the contexts from `start` to its end
have been tried and cannot run (`ReadyOK`). `CountsOK` says that a `rebootTask` runs only
if one waits, and that no more wait than installations, and the start of the machine, called for.
`SliceOK` says that who runs asks for
what it releases; for a slice of one instruction section 3.2 has the counterexample.

Only model-checked: liveness, which is outside what TLAPS proves under fairness:
`WaitingTaskRuns` of the scheduler, `RepeatingTimersFire`, `TimersFire`,
`EverySendIsReported`, `QueuedIsSent`, `EventuallyRuns`, `KeepsAnnouncing`,
`EventuallyLeaves`. `BuffersAreNotShared`, `IndicesAgree`, `SignalsMatchQueue`,
`NeverAPeriodBehind` and, with `KeepsUp`, `LeavesOnTheOtherInterface` are proved
and belong to no passing run. Where the hypotheses of a theorem
fail, TLC shows what happens (section 3.2); nothing is proved there.

## 5. What is not modelled

`PROJECT.json` gives every component its status and reason. In short:

* *Deluge's page transfer*: its states are sets of packets received per page, and
  its requests, timeouts and advertisements need at least two nodes with a page of
  several packets to lose; it is next after the proofs. What the boot loader sees
  of Deluge is in `TOSBootM`.
* *Drain, multihop routing, broadcast*: numerical link estimates, over queues and
  sequence numbers of the kinds modelled.
* *Matchbox, EEPROM, Boomerang's flash storage*: large data structures in flash,
  whose hazard, power lost between two writes, is the one of `InternalFlashC`.
* *The Boomerang overlay* (scheduler, arbiters, timers, SP): successors of
  components modelled here, of which the repository has only parts.
* *Registries, TinyAlloc, TinyDB, TinySec*: tables, pointer arithmetic, queries and
  cryptography, that is, data rather than control.
* *CC2420, I2C, ADC and the other drivers; the bit level of the CC1000*: the order of
  steps depends on the timing of hardware. They are seen through `BareSendMsg`.
* *The service scheduler and time, the applications other than TOSBase, the
  simulator, and the ports and forks* under `src/contrib` and `src/beta`.

Of modelled components the parts left out are named in section 2 and in
`PROJECT.json`. Posts of the components fail in `am` only: in the timers' runs the
task queue has room, and section 3.2 says what happens otherwise; in `queue`, `framer` and `mate` the task queue has room,
because the code does not look at the result and stops for good, as the README of
TOSBase admits.

## 6. How to run

    tlc -config MCTimerPrompt.cfg TimerHistory
    tlc -config boot.cfg MCBoot
    tlapm MateProofs.tla

`PROJECT.json` names the module and the configuration of each run, and for every
property a mutant: an operator defined in the module, just before the one
it replaces, that changes the code's behaviour the way a plausible bug would and
makes TLC find the property violated.
