# Verification of ewokos.machines

The repository holds the machine ports of EwokOS: for each board, the kernel's
board support code and the user-space drivers and libraries.  This directory
models the parts of those ports whose correctness depends on the order in which
several actors act (driver threads, the IPC thread of a vdevice, a device that
completes work on its own, timeouts) as TLA+ modules, checks them with TLC on
small instances, and proves the central results with TLAPS for all instances.

Paths below are relative to `src/`; `wlan/` stands for
`x86/system/drivers/wlan/`, `audio/` for `miyoo/system/drivers/audio/`.

## Inventory

| Part | Code | State and concurrency | Here |
|---|---|---|---|
| Frame queue | `wlan/utils/qbuf.c` (same file in raspi5 and raspix) | ring, two indexes, a mutex; two threads | `QBuf`, proved |
| Intel WLAN transport, receive side | `wlan/iwl/trans.c` | free and used rings shared with the NIC, one response slot, command queue; one thread that re-enters its own poll | `IwlRx`, safety proved but for the nesting bound |
| Intel WLAN transport, transmit side | `wlan/iwl/trans.c` | data ring written by two threads, read by the NIC | `IwlTxq`, proved |
| Intel WLAN data path | `wlan/mvm/data.c`, `wlan/main.c` | unlocked reads of the connection's state by the IPC thread while the worker changes it | `IwlData`, proved |
| Intel WLAN station | `wlan/mvm/mlme.c`, `wlan/mvm/scan.c`, `wlan/mvm/mvm.c`, `wlan/main.c` | association state, contexts and keys held by the firmware, request mailbox | `IwlSta`, proved |
| NVMe driver | `x86/system/libs/bsp/src/nvme.c` | two queue pairs shared with the controller, one DMA page | `NvmeQueue`, proved |
| xHCI transfers | `x86/system/libs/bsp/src/xhci.c` | command, transfer and event rings shared with the controller; timeouts, aborts, endpoint recovery | `Xhci`, model-checked |
| Audio | `audio/pcm_lib.c`, `audio/miyoo-dais.c` | PCM ring between a write handler, a polling loop and a DMA engine | `PcmStream`, proved |
| Intel WLAN bring-up | `wlan/iwl/pcie.c`, `wlan/iwl/fwfile.c`, parts of `trans.c` and `mvm.c` | register sequences, file parsing | not modelled |
| x86 AHCI, UHCI, Bluetooth | `x86/system/libs/bsp/src/{uhci,ahci,bsp_usb,bsp_usbbt}.c` | one request in flight, waited for | not modelled |
| Qualcomm board (q8b) | `q8b/system/libs/adreno`, `adrenonpu`, `q8b/system/drivers/wlan` | command rings, FastRPC listener, MHI and copy-engine rings | planned |
| Lego EV3, raspi sound, display, input, serial, fan daemons | `*/system/drivers/*` | mostly one thread, some with an interrupt handler | later candidates |
| Kernel board support | `*/kernel/bsp` | start-up, interrupts, timers; written against a kernel kept elsewhere | not modelled |
| Mesa compilers, firmware images, brcmfmac port | q8b, raspi5, raspix | vendored | not modelled |

`PROJECT.json` lists the same parts with their files, the hazards at their
lines, and which definition stands for which lines.

## How the modelled parts interact

The WLAN daemon has two threads.  The *worker* (`wlan_worker`) loops over: poll
the receive ring, take a request from the mailbox, auto-connect.  The *IPC
thread* runs the vdevice callbacks: it puts `scan` and `connect` requests into a
one-slot mailbox, queues the frames netd writes, and takes received frames from
a `qbuf`.  The NIC and its firmware run on their own: they fill receive buffers,
answer host commands, and transmit what is on the data ring.

`IwlRx`, `IwlSta` and `IwlData` are three views of this daemon at three levels
of detail.  `IwlRx` keeps the worker's call stack and the rings, and forgets what
commands mean.  `IwlSta` keeps what commands do to the firmware's contexts and
keys and abstracts a command to its outcome.  `IwlData` composes the transmit
queue `IwlTxq`, statement by statement, with netd's writes in one thread and the
worker's own frames, disconnects and joins in the other.

The NVMe and the xHCI driver are libraries called by one thread; their second
actor is the controller.  The audio driver is one thread too: its handlers run
as soft interrupts of its polling loop, and its other actors are the DMA engine
and the client process that writes, sleeps and may die.

## Modules

* **`QBuf`**, with **`BoundedFifo`** as its specification.  State: the slots,
  `push_idx`, `pop_idx`, the lock, and for each thread its place, its argument
  and its last result.  Every statement that touches shared state is an action
  (`PushStore`, `PushInc`, `PopCopy`, `PopInc`, the two statements of the index
  fold `WrapPush` and `WrapPop`, ...), so that the mutex is what makes the
  calls atomic and not the model.  `BoundedFifo` is a sequence with atomic push,
  pop, depth and reset; `FifoSpec` is the refinement.
* **`IwlRx`**.  State: the free ring (what the device knows of, and what is past
  the last doorbell), the used ring, the device's write index, `q->read`, the
  response slot, the command queue's pointers, and the worker's call stack.  The
  stack is needed because the handlers of the third handshake message and of a
  group message send host commands from inside a poll, and each command polls.
  `PollDispatch`, `PollRestock` and `PollReturn` are the loop and the end of
  `iwlm_trans_rx_poll`; `SendCmd` to `SendTimeout` are `iwlm_trans_send_cmd`.
  A poll's frame on the stack holds its locals: the two indexes, and the number
  of the buffer it has taken (`rbid`), which is what it puts back.
  One packet per receive buffer is modelled (the code walks packed packets in
  order).  A buffer that is part of a frame spread over several is a packet of
  kind "fragment": the poll passes it over and restocks it, so `log` holds what
  was taken off the ring, dispatched or passed over.  The answer to a command
  fits one buffer, and the device never names a buffer it does not own, so the early
  `break` for a garbage buffer number is not taken.  Answers come from the
  firmware's queue of commands only (`ScriptAssumption`).
* **`IwlSta`**.  State: `d->state` and the handshake flags, the scan cache, the
  firmware's contexts and keys, scans under way, the mailbox, and where the
  worker is.  Each host command of connect and disconnect is an action with an
  outcome: carried out or not, and reported or not (`FwFails`).  Packets are
  handled where the code polls (`Polling`), also inside the key commands; so
  `install` is the stack of the calls of `iwlm_mlme_rx_eapol` that wait for a key
  command, for a third message or a group message, and a message handled inside
  one pushes another.  MIC checks and key unwrapping are abstracted to frames that
  pass them.  `fresh` is a history: which of the nonce and the two keys the present
  attempt has brought.
* **`IwlTxq`**.  State: the ring, its two pointers, `tx_lock`, each sender's place
  in `iwlm_trans_tx_frame`, the device's index and doorbell, and the transmit
  responses on their way back.  `Reclaim` runs in the worker without the lock.
* **`IwlData`**, on top of `IwlTxq`.  State: `d->state`, `d->cur_ap`,
  `d->pairwise_key_set`, the worker's place on its way from one access point to
  the next, and the IPC thread's place in `net_write`.  `Check`, `Header` and
  `Flag` are the three unlocked reads of `iwlm_data_tx`; `SendFill` and `SendDone`
  are its call of `tx_frame`; `Leave` to `Up` are the worker's disconnect and
  join, `Alloc` the set-up of a new data queue.  `tags` is a history of the
  frames accepted.  A frame of `Odd`, which `iwlm_data_tx` refuses whatever the
  state, stops the batch in front of it, and netd's queue with it.
* **`NvmeQueue`**, with **`BlockDevice`** as its specification.  State: both queue
  pairs with heads, tails and phases on both sides, the DMA page, the contents of
  the disk, the request in progress.  Initialisation (four admin commands and
  the warm-up), the chunk loop of `bsp_nvme_read` and `bsp_nvme_write`, and the
  polls with their timeouts are actions; the controller (`Serve`) is external.
  `BlockDevice` performs one transfer at a time, which takes effect at one moment
  between call and return.  The constant `Slow` says whether the controller may
  answer after a poll has given up.
* **`PcmStream`**.  State: one record `pcm` for the substream, its runtime and the
  driver's count of what it handed to the engine, the engine's level register,
  the write call in progress, the client, and the loop's own variables.  The
  handlers (`Open`, `SetParams`, `PrepareStream`, `BufAvail`, ...) and the turns
  of the loop (`LoopWritable`, `LoopFull`, ...) are one step each, since the loop
  fences itself against handlers (`audio/pcm_lib.c:2017-2030`); the write is split
  where it drops the lock, because the engine plays on (`Drain`) or stops
  (`Hang`).  Counts are in frames, the level in words of `Miu` frames: a frame
  divides the engine's word of eight bytes (mono or stereo of 8, 16 or 32 bits, not
  24).  A period need not be a whole number of words.  `TO_MIUSIZE` then cuts what
  the engine is told while the driver books all of it; `fed` is a history of what
  the engine was told and `Slack` the difference, which the properties allow for.
* **`Xhci`**.  State: the producer's rings with cycle bits and link TRBs, the
  controller's positions and endpoint states, the event ring from both sides,
  `xhci_ep_t` and the pending command, and what the call in progress has still to
  do.  `ProcessEvents` is `xhci_process_events`; `PollReport` to `PollIdle` are the
  cases of `int_in_poll`; `IssueCmd` to `AbortDone` are a command, its timeout and
  its abort; `Exec...`, `CmdExec` and `CmdStop` are the controller, external.  A TD
  and its doorbell are one step (nothing in between waits or looks at the
  controller).  The controller follows the xHCI document: RESET_EP is carried out
  for a halted endpoint only, SET_TR_DEQ for one that is not running.  `Budget`
  bounds errors, late answers, faults and unplugging.
* **`MC...`** modules give constants their values; **`...Proofs`** modules hold
  the theorems.

## Runs

Passing runs:

| Run | Distinct states | Shows |
|---|---|---|
| `qbuf` | 370,416 | Two threads pushing, popping, measuring and resetting: `FifoSpec`, `DepthBound`. |
| `iwl_rx` | 14,925 | Time-outs, late answers and frames in any order, while no handler sends commands: no buffer posted twice (`RbOnce`), every packet taken off the ring once, in order and in the end (`InOrderOnce`, `EveryPacketHandled`), answers go to their own command (`AnswerMatches`, with commands of different kinds). |
| `iwl_rx_keys` | 237,050 | The handshake with its nested polls: the nesting is bounded by the command queue (`NestingBound`), no response buffer of a finished call stays armed (`RspBufferLive`), and the worker gets out (`WorkerReturns`). |
| `iwl_sta` | 707,576 | Failing commands, deauthentications, messages that come late or inside a key command, scans that time out: CONNECTED means that the contexts and both keys are in the firmware (`ConnectedIsReal`) and that the keys were installed in this attempt from a nonce of this attempt (`KeysOfThisAttempt`); requests are executed once, in order, and eventually. |
| `iwl_sta_orderly` | 26,831 | When commands succeed and the AP stays: each attempt starts with no context in the firmware, a ready scan has finished. |
| `iwl_txq` | 198,032 | Two senders, unlocked reclaim, a change of access point: no entry the device owns is overwritten (`NoOverwrite`); frames are sent in order, once, eventually (`SentInOrder`, `EveryFrameSent`); what netd was told is taken was queued once and in order (`NetdInOrder`), for the session its header names (`SessionFrames`); a connection that stays takes all (`NetdServed`). |
| `nvme` | 74,864 | A controller that answers in time: each poll ends with its own completion, requests move the blocks they name, the driver implements `BlockDevice`. |
| `nvme_slow` | 27,246 | A controller that may be late or never answer: requests still return, and initialisation ends. |
| `pcm` | 63,060 | Opens, refused and accepted configurations, repeated prepares, partial and blocked writes, a hung engine, a client that dies: `NoOverwrite`, `SourceOfTruth` (every frame in the ring is handed over or pending, counted once, and with periods of whole words all that is handed over reaches the engine), `GeometryAgrees`, `XrunMeansDrained`, `WriteReturns`, `PeriodsPlay`. |
| `xhci` | 145,406 | Control, bulk and armed IN transfers over wrapping rings, with stalls, slow transfers, lost commands, a fatal error and an unplugged device: own events end commands and transfers (`OwnCompletion`, `CommandsInStep`), reports and chunks arrive once and with their lengths (`ReportsOnce`, `LengthsTrue`, `ChunksOnce`), TDs are written to idle rings unless a recovery was refused (`WrittenIdle`), calls return, a halted endpoint comes back. |

Runs in which the code disagrees with what it says of itself:

| Run | Property | Shows |
|---|---|---|
| `iwl_rx_reentry` | `RbOnce` | The handler of the third handshake message polls again from the `q->read` the outer poll has not yet stored; its own buffer is dispatched and restocked a second time (`wlan/iwl/trans.c:739`; `wlan/iwlm.h:93`: "one RB per free RBD entry"). |
| `xhci_idle` | `TdsOnlyWhileIdle` | The 30 s self-heal sends RESET_EP to an endpoint that is running; the controller refuses it and the new dequeue pointer, and the next TD is written behind the old one (`xhci.c:1084`; `xhci.c:9-10`: "TDs are only written while their ring is idle"). |

### Further disagreements

The same modules reach these with the configurations named.  They are kept as
configurations and not listed as runs: each checks one property that the passing
runs show for the other setting of a constant.

* `MCIwlRxLate.cfg`, `AnswerMatches` (`Script` with the same command twice,
  `Tries = 1`): the late answer of a command completes the next one of the same
  kind, because `wlan/mvm/mvm.c:129` compares group and command;
  `wlan/iwl/trans.c:7` says "(group, cmd, sequence)".
* `MCIwlRxNested.cfg`, `AnswerMatches`: with commands nested by the handshake a
  call takes the nested command's answer for its own (`wlan/iwl/trans.c:455`:
  "wait for the response to (grp, cmd)").
* `MCIwlRxCmdq.cfg`, `CmdqNeverFull` (`Air` with messages 1 and 3): commands sent
  inside one poll are not freed until it returns; `wlan/iwl/trans.c:741`.
* `MCIwlRxFull.cfg`, `EqualIsDrained` (`MaxPending = Pool = N`): with every buffer
  filled the device's index has come round to `q->read`, and the full ring reads
  as empty.
* `MCIwlStaDeauth.cfg`, `CleanSlate`: a deauthentication sets the state and leaves
  the contexts; the next attempt adds them again.
* `MCIwlStaAddFails.cfg`, `CleanSlate` (`FwFails`, no deauthentication): the early
  returns of `wlan/mvm/mlme.c:724-750` skip the teardown at `fail`.
* `MCIwlStaZombie.cfg`, `ConnectedFromEapol`: a deauthentication handled while the
  keys are installed is overwritten by CONNECTED (`wlan/mvm/mlme.c:589`).  This is
  what the code does on every such path; `ConnectedIsReal` and `KeysOfThisAttempt`
  say what remains true of the station then.
* `MCIwlStaScanLate.cfg`, `ScanReadyFinished` (`ScanLate`, `MaxScans = 2`): the
  completion of a scan that timed out ends the next scan.
* `MCIwlTxqRealloc.cfg`, `SentInOrder`, and `MCIwlTxqStale.cfg`, `SessionFrames`
  (both `Overlap`): a `net_write` that outlasts the worker's way to its next join
  is inside `tx_frame` when `txq_alloc` rewrites the ring's pointers without
  `tx_lock`, or queues a frame with the old access point's header for the new one.
* `MCNvmeStale.cfg`, `OwnCompletion` (`Slow`): after a timeout the late completion
  is taken for the next command's: the ids are not compared, and the warm-up that
  should drain the queue is refused because `ready` is not yet set.
* `MCPcmWrap.cfg`, `XrunMeansDrained`: `play_avail` (`audio/pcm_lib.h:301`) does not
  handle an `appl_ptr` that has wrapped at the boundary before `hw_ptr`, so a full
  ring reads as drained and the stream goes into XRUN; `audio/pcm_lib.c:707` says
  "Playback XRUN means the hardware has drained all queued frames".  With the
  default geometry the boundary is 2^30 frames, 6.8 hours at 44.1 kHz.
* `MCPcmOdd.cfg`, `EngineTold` (a period of three frames, words of two): the engine
  is told less than is booked as handed over, because `audio/miyoo-dais.c:513` cuts
  to words and line 530 adds all bytes; the comment at 595-596 calls the pending ones
  "bytes userspace has produced but BACH has not yet been told about".
* `MCPcmTeardown.cfg`, `WriterWoken` (`SharedFd`): a close by one process does not
  wake a writer parked by another (`audio/pcm_lib.c:2034`, `2060`);
  `audio/pcm_lib.c:48-49` says "the loop must guarantee it a wakeup (writable, XRUN
  or teardown alike)".
* `MCPcmShort.cfg`, `WriteReturns`: a write shorter than a frame is told to retry
  although the ring has room (`audio/pcm_lib.c:1769`; the comment at 1771 says "Ring
  full and nothing consumed"), and is never served.
* `MCXhciLost.cfg`, `ArmedTdNext`: after a refused recovery the next report
  completes a TD the driver has given up; `xhci.c:1260-1261` says "so a permanently
  armed EP loses no reports".

## Bounds

* `qbuf`: three slots, the smallest ring in which the two ends can be one, two and
  a whole ring apart; two contents tell frames apart; sizes on both sides of the
  slot size; `IdxCap` cuts the growth of the indexes that resets allow, after the
  fold has been taken.
* `iwl_rx`, `iwl_rx_keys`: rings of four and eight buffers, so that indexes wrap;
  a doorbell every two restocks (eight in the code); a command queue of four,
  the smallest that accepts a command twice; one or two polls before a timeout.
  `MaxPkts` bounds the behaviours, `MaxPending` how far the device runs ahead.
* `iwl_sta`: two networks, one of them configured; two requests; one scan in the
  firmware at a time (two in the variation that shows the late completion); key
  handlers nested two deep (`MaxInstall`), so that a message interrupts another's
  installation; the proofs have no such bound.
* `iwl_txq`: a ring of four started at its last entry, five frames of netd's of
  which the fifth is refused, batches of up to two, one frame of the worker's and
  one change of access point: the ring wraps, fills and is set up anew.
* `nvme`: rings small enough to wrap within the run, so that both phases occur;
  requests of no block up to more than one chunk, in and past the namespace.
* `pcm`: rings of two and three periods of two frames, one with a stop threshold
  of its own, one of two periods of three frames, which are no whole words, and a configuration refused at each stage; writes of less, more and
  about the size of a ring; ten frames between two prepares go round it twice.
* `xhci`: rings of three TRBs and a link, so that a control TD straddles the link
  and the cycle bits toggle; two transfers, an error, a late answer, and the end of
  the device or the controller.  Instances with three transfers and with rings of
  eight have been checked too, for the safety properties.

Deadlock is not checked where a bounded behaviour simply ends (the packets,
requests or frames are used up) or where initialisation fails for good.

## Fairness

* The worker, the NVMe and the xHCI driver and the audio loop are threads that
  only ever wait by polling with a bounded count or a sleep of fixed length, so
  they are weakly fair; so is the end of every such wait (`Expire`), and the 30 s
  self-heal of an xHCI endpoint (`PollWedge`), which its caller's polling reaches.
* In `IwlSta` packets can interrupt the worker's own steps, but a poll reads the
  device's index once and ends: the worker is strongly fair, and so is each call of
  the key handler, by its depth.  In `IwlData` the
  worker's poll is strongly fair: between the frames it sends it always comes back
  to its loop.
* The devices go on: the NIC transmits what the doorbell covers, the firmware
  completes the scans it starts, the
  DMA engine drains unless it hangs, the xHCI controller answers unless it is
  late, faulty or gone (weak fairness).  It is not assumed that the firmware
  answers a command, that the NVMe controller serves one, that an AP answers a frame, or that a keyboard sends reports.
* A sender in `IwlTxq` may stop calling; a call that was begun is finished.  netd
  goes on writing while it has frames.  A client that was told to retry and is
  woken writes again; the vfs (external) loses no wakeup between the answer to
  retry and the sleep.

## Proofs

The only assumptions are the named `ASSUME`s of the component modules.  A theorem
that holds only for some settings of the constants says so in its statement; each
such condition is needed, as the configuration named with it shows.

**`QBufProofs`**, for every ring size, slot size, set of threads and frames, with
or without resets: `DepthBoundHolds`; `IndexBoundHolds` (without resets neither
index reaches two rings, so neither overflows; with resets this is false, which is
why it is not asked of the run); `RingImplementsFifo`.  The inductive invariant
`IndexInv` adds to the bounds who holds the lock and what each place in a call has
established; in particular that between the two statements of the fold `pop_idx`
may exceed `push_idx` by up to a ring.  `SlotInv` adds what a thread about to move
an index has stored or read.  The refinement needs, besides, that indexes less
than a ring apart select different slots (`DistinctSlots`) and that the fold does
not change slots (`SameSlot`).

**`NvmeQueueProofs`**, for every ring size, chunk size and capacity: `TypeCorrect`,
whether or not the controller is slow; `OwnCompletionHolds`, `RequestResultHolds`
and `DeviceRefined`, for a controller that is never late (`~Slow`; needed:
`MCNvmeStale.cfg`).  The inductive invariant is `TypeOK /\ RingInv /\ DataInv`.
`RingInv` says that each ring is idle, has one command queued, or has one
completion waiting, and which phase each completion entry carries: behind the
controller's index the current one, from it on the other.  It is what makes "the
phase matches" mean "this command is done" without ids.  `DataInv` says that the
DMA page holds the chunk in flight and that the blocks of finished chunks agree
with the buffer.

**`IwlDataProofs`**, for every ring size the code can configure (powers of two up
to 256) and any number of frames, batches and joins.  First the queue: `PointerInv`
orders the pointers round the ring (read, the device's index, write, with the
answers on their way in between and a sender's claim at least three entries short
of a full ring), and `FrameInv` says which frame each entry between them holds.
Every action of `IwlTxq` keeps them, the unlocked `Reclaim` because it only
shortens the distance a sender has measured; `txq_alloc` keeps them if no sender is
inside `tx_frame`.  Then the callers: `LinkInv` shows that this is so while no
`net_write` outlasts the worker's way to its next join, and `TagInv` that address
and flag read without a lock still belong to the session the frame enters.  From
these `NoOverwriteHolds`, `SentInOrderHolds` and `SessionFramesHolds`, each under
`~Overlap` (needed: `MCIwlTxqRealloc.cfg`, `MCIwlTxqStale.cfg`).
`NetdInOrderHolds` has no condition: `CallInv` says where a call can be with how
much of its batch taken, and `NumberInv` that netd's frames in the queue carry the
numbers 1, 2, ... up to what has been taken, the one inside `tx_frame` included.

**`IwlStaProofs`**, for any set of networks and any number of requests:
`ConnectedIsRealHolds`, `KeysOfThisAttemptHolds` and `CmdsInOrderHolds` whatever
fails and however deep key handlers nest; `CleanSlateHolds` under `~FwFails` and
`~ApLeaves`, `ScanReadyFinishedHolds` under `~FwFails` and `~ScanLate` (needed: the
`MCIwlSta...` configurations above; `ScanReadyFinished` also fails in
`MCIwlStaScanLate.cfg` with `FwFails` in place of `ScanLate`).  `PlaceInv` ties the worker's place to its job
and the mailbox, `ContextInv` the contexts in the firmware to those a connect or
disconnect has still to add or remove, `KeyInv` the keys to the calls that install
them: the pairwise key is in, and of this attempt, before any call asks for the group
key.  `NonceInv` says that a pairwise key that may be used, or is being installed,
was derived in this attempt; it holds across attempts because `have_ptk` is forgotten
before the first context is added and no call of the handler is left by then.
`SlateInv` and `ScanInv` are the additions for the orderly cases.

**`PcmProofs`** and **`PcmRingProofs`**, for any set of configurations, sizes of
writes and speed of the engine.  `GeometryAgreesHolds` from `GeometryInv`: what each
stage of a configuration, accepted or refused, leaves of ring and engine.
`NoOverwriteHolds`, `SourceOfTruthHolds` and `XrunMeansDrainedHolds` under `NoWrap`:
the frames written between two prepares stay below the boundary at which the
pointers wrap (needed: `MCPcmWrap.cfg`).  Periods need not be whole words: `Told`
says that the engine was told all that is booked if they are.  `Books` relates the engine's level to what
the driver has handed over and has seen played; `Ring` the two pointers to those
counts; `Stream` says that what the ring holds is what is handed over and unplayed,
pending, or not yet acknowledged; `CallInv` that the room a write has read is still
there, since only the engine has moved meanwhile.

**`IwlRxProofs`**, for every ring, pool, command queue, script and air traffic:
`RspBufferLiveHolds`, without condition.  `StackInv` describes the call stack:
handlers sit on polls; a send that is not the worker's own is a key command; and
whenever the worker is in its loop or back from a poll the command queue has been
reclaimed, so that the worker's own command is never refused.  `SlotInv` then says
that an armed slot with a response buffer leaves the worker's own call as the only
one that waits.  `UsedInv` types the rings, and with them the buffer a poll holds.

**`IwlRxRingProofs`**: `InOrderOnceHolds` and `RbOnceHolds` under `Flat` (no handler
sends commands from inside a poll: the station waits for no key message, or none is
on the air; needed: `iwl_rx_reentry`), `AnswerMatchesHolds` under `Flat` and
`SentOnce` (no command occurs twice in the script; needed: `MCIwlRxLate.cfg`).  Both
conditions hold in the run `iwl_rx`.  Packets are counted without wrapping: `At(k)`
is the buffer of packet `k`, delivered or still to come, and `RingInv` says that
`At` tells apart the packets of a window as long as the pool.  A delivery changes no
`At(k)`, a restock moves the window by one.  `PlaceInv` ties the indexes of ring and
poll, which wrap, to those counts, and the buffer a poll holds to the completion it
took it from, and `AnswerInv` says that the commands
outstanding (queued in the firmware, answered but not handed over, or waited for)
differ in name, so that a match of names is a match of commands.

### Model-checked only

* Every liveness property (`EveryPacketHandled`, `WorkerReturns`, `CmdCarriedOut`,
  `EveryFrameSent`, `NetdServed`, `RequestReturns`, `WriteReturns`, `PeriodsPlay`,
  `CallsReturn`, `Converges`, `ReportsReturned`): the prover has no rules for fairness
  and enabledness.
* `NestingBound` of `IwlRx`: re-entered polls put buffers on the free ring again, so
  how often one key message is handled has to be counted over the whole stack.
* The safety properties of `Xhci`: one call of the event loop handles all waiting
  events, a recursion over the event ring, and what a recursive definition computes
  for every input is out of this prover's reach.
* The runs with a slow NVMe controller, except for `TypeCorrect`.

## Not modelled

* WLAN: firmware loading and PCIe bring-up, which run before the first state of the
  models; cryptography (key derivation, AES key unwrap, HMAC), which is beyond model
  checking; byte layouts of commands and frames; the JSON reports; decapsulation of
  received data frames; sharing between processors below the level of single loads
  and stores of an index.
* xHCI: initialisation and BIOS hand-off, ports and port changes, attaching and
  detaching devices with their arenas, opening endpoints, hubs.
* Audio: capture, the unused `wait_avail`, the lengths of the loop's sleeps and its
  idle back-off, the `closing` flag, register sequences.

## Plan

1. `Xhci` with an event loop that handles one event a step, to bring its safety
   properties within reach of the prover; then attaching and detaching devices.
2. `IwlSta` over the receive ring of `IwlRx`, to show which of its behaviours the
   re-entrant poll adds; the receive queue as an instance of `QBuf`.
3. raspi5's NVMe driver as a second implementation of `BlockDevice`.
4. The Adreno command ring: space accounting and the wait for the fence.
