----------------------------- MODULE PcmStream -----------------------------
(***************************************************************************)
(* The playback stream of the miyoo audio driver: the ring and the state   *)
(* machine of pcm_lib.c, the feeding of the BACH DMA engine in             *)
(* miyoo-dais.c, the polling loop, the client that writes and the engine   *)
(* that plays.                                                             *)
(*                                                                         *)
(* The driver is one thread.  A handler (open, close, write, control) runs *)
(* as a soft interrupt of the polling loop, one handler at a time, and the *)
(* loop fences itself against them, so each of them is one step; only the  *)
(* write handler is split where it drops the lock, because the engine      *)
(* plays on meanwhile.                                                     *)
(*                                                                         *)
(* Byte counts are kept in frames (every one of them is a whole number of  *)
(* frames), the engine's level in MIU words of Miu frames.  A period need  *)
(* not be a whole number of words: what the engine is told is rounded down *)
(* to words, what the driver books as handed over is not.                  *)
(***************************************************************************)
EXTENDS Integers, FiniteSetsExt

CONSTANTS
    Configs,      \* what CTRL_PCM_DEV_HW may carry
    Default,      \* the configuration of snd_pcm_default_config
    Miu,          \* frames in a word of the engine's level (8 bytes)
    MaxDma,       \* PRE_ALLOCATED_PCM_BUF_MAX_SIZE in frames
    IntMax,       \* 0x7FFFFFFF
    StallTicks,   \* PCM_LOOP_STALL_TIMEOUT_US in ticks of the loop
    ReapInterval, \* PCM_LOOP_REAP_INTERVAL
    WriteSizes,   \* frames in a write; 0 is a write shorter than a frame
    SharedFd,     \* the writer is another process than the one that opened
    MayHang,      \* the engine may stop draining
    MaxFrames     \* bound: frames written between two prepares

(***************************************************************************)
(* A configuration: sizes and thresholds in frames; sane says that         *)
(* channels and bit depth pass the check, rate that the rate is in the     *)
(* table of the converter.                                                 *)
(***************************************************************************)
Config == [period : Nat, count : Nat, start : Nat, stop : Nat,
           sane : BOOLEAN, rate : BOOLEAN]

ASSUME ConfigsAssumption ==
    /\ Configs \subseteq Config
    /\ Default \in Configs /\ Default.sane /\ Default.rate
    /\ Default.period > 0 /\ Default.count > 0

ASSUME BoundsAssumption ==
    /\ {Miu, MaxDma, IntMax, StallTicks, ReapInterval} \subseteq Nat \ {0}
    /\ WriteSizes \subseteq Nat /\ MaxFrames \in Nat
    /\ SharedFd \in BOOLEAN /\ MayHang \in BOOLEAN

VARIABLES
    pcm,          \* substream, its runtime and the engine's bookkeeping;
                  \* its field fed is a history: the frames the engine was
                  \* told of since it was prepared
    level,        \* the engine's level register, in words
    hung,         \* the engine no longer drains
    written,      \* frames copied into the ring since its pointers were reset
    call,         \* the write handler in progress
    client,       \* the writing client: free, blocked in vfsd, or retrying
    alive,        \* the process that opened the stream lives
    parked,       \* _pcm_writer_parked
    wasWritable,  \* _pcm_loop_was_writable
    fullTicks,    \* _pcm_loop_full_us
    reapTick      \* reap_tick

vars == <<pcm, level, hung, written, call, client, alive, parked,
          wasWritable, fullTicks, reapTick>>

States == {"UNKOWN", "OPEN", "SETUP", "PREPARE", "RUNNING", "XRUN"}

\* No write handler is running.
Idle == [busy |-> FALSE, left |-> 0, avail |-> 0, done |-> 0]

\* Frames the engine has consumed since it was prepared.
Played == pcm.fed - Miu * level

-----------------------------------------------------------------------------
(* The engine's driver: miyoo-dais.c.                                      *)

\* mi_cpu_dai_trigger(PCM_TRIGER_STOP)
TriggerStop(s) == [s EXCEPT !.running = FALSE]

\* mi_cpu_dai_prepare: the bookkeeping is reset and the watermark derived
\* from the ring's geometry.
DaiPrepare(s) ==
    LET per == IF s.period > 0 THEN s.period ELSE s.dma
        room == IF s.dma > 0 /\ s.dma >= per THEN s.dma - per ELSE per
        low == Max({room, 2 * per})
        high == Min({low, s.dma})
    IN  [s EXCEPT !.lastAppl = 0, !.running = FALSE, !.pending = 0,
                  !.processed = 0, !.total = 0, !.fed = 0, !.devPeriod = per,
                  !.devSize = s.dma,
                  !.inflight = IF high <= 0 THEN per ELSE high]

\* msc313_bach_queue_bytes: n frames are handed to the engine unless its
\* level would pass the limit.
Queueable(s, n, lev) ==
    LET maxLevel == s.inflight \div Miu
    IN  maxLevel = 0 \/ lev + n \div Miu <= maxLevel + 2 * (s.devPeriod \div Miu)

\* Frames handed over stay pending.
QueueBytesKeep(s, n) ==
    [s EXCEPT !.total = @ + n, !.fed = @ + Miu * (n \div Miu)]

QueueBytes(s, n) ==
    [s EXCEPT !.total = @ + n, !.fed = @ + Miu * (n \div Miu),
              !.pending = Max({@ - n, 0})]

\* msc313_bach_queue_pending: how many of the pending frames to hand over,
\* after a resync when the engine is empty although the books say otherwise.
Cached(s) == Max({s.total - s.processed, 0})

Resync(s, lev) ==
    IF Cached(s) >= s.inflight /\ lev = 0
    THEN [s EXCEPT !.processed = s.total] ELSE s

ToQueue(s) ==
    LET n == Min({s.inflight - Cached(s), s.pending})
    IN  IF n > s.devPeriod THEN (n \div s.devPeriod) * s.devPeriod ELSE n

\* The pair of the new bookkeeping and the new level.
QueuePending(s, lev) ==
    LET r == Resync(s, lev)
        n == ToQueue(r)
    IN  IF s.devPeriod <= 0 \/ ~s.running \/ s.pending <= 0
        THEN <<s, lev>>
        ELSE IF \/ Cached(r) >= r.inflight
                \/ r.pending < r.devPeriod
                \/ n < r.devPeriod
                \/ ~Queueable(r, n, lev)
             THEN <<r, lev>>
             ELSE <<QueueBytes(r, n), lev + n \div Miu>>

\* mi_cpu_dai_pointer: frames played according to the level, never
\* backwards, as a position in the ring.
Pointed(s, lev) ==
    [s EXCEPT !.processed = Max({s.total - Min({Miu * lev, s.total}), @})]

Position(s) == IF s.dma > 0 THEN s.processed % s.dma ELSE 0

\* msc313_bach_pcm_ack: what was written since the last ack is pending.
Ack(s, lev) ==
    LET delta == s.appl - s.lastAppl
        a == [s EXCEPT !.lastAppl = s.appl, !.pending = @ + Max({delta, 0})]
    IN  IF delta > 0 /\ a.pending >= a.period
        THEN QueuePending(a, lev) ELSE <<a, lev>>

-----------------------------------------------------------------------------
(* The ring and the state machine: pcm_lib.h and pcm_lib.c.                *)

Clamp(n, size) == Max({0, Min({n, size})})

\* play_avail: the room for new frames.
PlayAvail(s) ==
    LET room == s.hw + s.buffer - s.appl
    IN  IF s.buffer <= 0 THEN 0
        ELSE Clamp(IF room < 0 THEN room + s.boundary ELSE room, s.buffer)

FramesReady(s) == s.buffer - PlayAvail(s)

\* update_hw_ptr, as every caller calls it (is_interrupt = 0): the new
\* pointer, a lap further when the position went back.
AdvanceHw(s) ==
    LET pos == IF Position(s) >= s.buffer THEN 0 ELSE Position(s)
        lap == s.base + pos < s.hw /\ s.base + s.buffer <= s.appl
        next == IF s.base + s.buffer >= s.boundary THEN 0 ELSE s.base + s.buffer
        base == IF lap THEN next ELSE s.base
        hw == base + pos
    IN  IF hw >= s.boundary
        THEN [s EXCEPT !.base = 0, !.hw = hw - s.boundary]
        ELSE [s EXCEPT !.base = base, !.hw = hw]

\* A stream with less than a period left taken for one that ran dry.
CheckXrunEarly(s) ==
    IF s.state = "RUNNING" /\ PlayAvail(s) > s.stop - s.period
    THEN [TriggerStop(s) EXCEPT !.state = "XRUN"] ELSE s

\* A running stream whose room has grown to the stop threshold ran dry.
CheckXrun(s) ==
    IF s.state = "RUNNING" /\ PlayAvail(s) >= s.stop
    THEN [TriggerStop(s) EXCEPT !.state = "XRUN"] ELSE s

\* A poll that only looks.
KickedNot(s, lev) == <<s, lev>>

Kicked(s, lev) == IF s.state = "RUNNING" THEN QueuePending(s, lev) ELSE <<s, lev>>

\* The poll of snd_pcm_buf_avail and of the write handler that finds the
\* ring full: update_hw_ptr refreshes the view of the hardware, then the
\* engine is fed.  The one pair of the view and of what feeding made of it;
\* a stage is a set of one element so that it is evaluated once.
Poll(s, lev) ==
    IF s.state = "RUNNING"
    THEN {<<v, Kicked(v, lev)>> :
            v \in {CheckXrun(u) : u \in {AdvanceHw(p) : p \in {Pointed(s, lev)}}}}
    ELSE {<<s, <<s, lev>>>>}

\* The boundary of snd_pcm_hw_sw_parms: the size doubled as long as the
\* sum of a pointer and the size is an int.
Boundary(size) ==
    size * 2 ^ Max({0} \cup {k \in 1..30 : 2 ^ k <= (IntMax - size) \div size})

StartThreshold(c, size) ==
    LET safe == Min({2 * c.period, size})
        start == IF c.count > 1 THEN Max({c.start, safe})
                 ELSE IF c.start <= 0 THEN c.period ELSE c.start
    IN  Min({start, size})

\* What snd_pcm_hw_sw_parms has set when it checks the configuration, and
\* when it has accepted one.
Given(s, c) ==
    LET size == c.period * c.count
    IN  [s EXCEPT !.period = c.period, !.buffer = size, !.rate = c.rate,
                  !.start = c.start, !.stop = IF c.stop = 0 THEN size ELSE c.stop]

\* A prepared stream stays prepared.
AcceptedPrepared(s, c) ==
    LET g == Given(s, c)
    IN  [g EXCEPT !.start = StartThreshold(c, g.buffer),
                  !.boundary = Boundary(g.buffer), !.dma = g.buffer,
                  !.state = IF @ = "PREPARE" THEN @ ELSE "SETUP"]

Accepted(s, c) ==
    LET g == Given(s, c)
    IN  [g EXCEPT !.start = StartThreshold(c, g.buffer),
                  !.boundary = Boundary(g.buffer), !.dma = g.buffer,
                  !.state = "SETUP"]

\* snd_pcm_hw_sw_parms, with the exits of a configuration that is refused.
HwSwParms(s, c) ==
    LET size == c.period * c.count
    IN  IF ~s.open \/ s.state \notin {"OPEN", "SETUP", "PREPARE"} THEN s
        ELSE IF ~c.sane THEN [Given(s, c) EXCEPT !.state = "OPEN"]
        ELSE IF size = 0 THEN [Given(s, c) EXCEPT !.boundary = 0]
        ELSE IF size > MaxDma
             THEN [Accepted(s, c) EXCEPT !.dma = 0, !.state = "OPEN"]
        ELSE Accepted(s, c)

\* snd_pcm_prepare: the pointers are reset unless frames may already be in
\* the ring of a prepared stream.
Preparable(s) == s.open /\ s.state \in {"SETUP", "PREPARE", "XRUN"}

Prepare(s) ==
    LET d == DaiPrepare(s)
        reset == [d EXCEPT !.base = 0, !.hw = 0, !.appl = 0]
    IN  IF ~s.rate THEN [reset EXCEPT !.state = "SETUP"]
        ELSE IF s.state = "PREPARE" THEN d
        ELSE [reset EXCEPT !.state = "PREPARE"]

Prepared(s) == IF Preparable(s) THEN Prepare(s) ELSE s

\* snd_pcm_ensure_default_hw, the first half of getting ready.
DefaultHw(s) == IF s.open /\ s.state = "OPEN" THEN HwSwParms(s, Default) ELSE s

\* snd_pcm_ensure_write_ready
WriteReady(s) ==
    LET d == DefaultHw(s) IN IF d.state = "SETUP" THEN Prepared(d) ELSE d

\* snd_pcm_open and mi_cpu_dai_open: a clean slate.
Opened ==
    [open |-> TRUE, state |-> "OPEN", hw |-> 0, base |-> 0, appl |-> 0,
     start |-> 0, stop |-> 0, boundary |-> 0, period |-> 0, buffer |-> 0,
     rate |-> FALSE, dma |-> 0, lastAppl |-> 0, running |-> FALSE,
     pending |-> 0, processed |-> 0, total |-> 0, fed |-> 0,
     devPeriod |-> 0, devSize |-> 0, inflight |-> 0]

\* snd_pcm_release: STOPED, hw_free, close; from XRUN the pointers go too.
Released(s) ==
    [s EXCEPT !.open = FALSE, !.state = "UNKOWN", !.dma = 0,
              !.hw = IF s.state = "XRUN" THEN 0 ELSE @,
              !.base = IF s.state = "XRUN" THEN 0 ELSE @,
              !.appl = IF s.state = "XRUN" THEN 0 ELSE @,
              !.lastAppl = 0, !.running = FALSE, !.pending = 0,
              !.processed = 0, !.total = 0, !.fed = 0, !.devPeriod = 0,
              !.inflight = 0]

-----------------------------------------------------------------------------
Init ==
    /\ pcm = [Opened EXCEPT !.open = FALSE, !.state = "UNKOWN"]
    /\ level = 0 /\ hung = FALSE /\ written = 0
    /\ call = Idle /\ client = "free" /\ alive = FALSE
    /\ parked = FALSE /\ wasWritable = FALSE
    /\ fullTicks = 0 /\ reapTick = 0

loopVars == <<parked, wasWritable, fullTicks, reapTick>>

\* A process lives that has the stream open and is not inside a call.
MayCall == ~call.busy /\ client = "free" /\ (alive \/ SharedFd)

\* fdev_open of a stream that is closed.
Open ==
    /\ ~call.busy /\ ~pcm.open
    /\ pcm' = Opened
    /\ level' = 0 /\ written' = 0 /\ alive' = TRUE
    /\ UNCHANGED <<hung, call, client, loopVars>>

\* fdev_close
Close ==
    /\ MayCall /\ pcm.open
    /\ pcm' = Released(pcm)
    /\ level' = 0
    /\ UNCHANGED <<hung, written, call, client, alive, loopVars>>

\* fdev_ctrl(CTRL_PCM_DEV_HW)
SetParams ==
    /\ MayCall /\ pcm.open
    /\ \E c \in Configs : pcm' = HwSwParms(pcm, c)
    /\ UNCHANGED <<level, hung, written, call, client, alive, loopVars>>

\* fdev_ctrl(CTRL_PCM_DEV_HW_FREE): snd_pcm_hw_free
HwFree ==
    /\ MayCall /\ pcm.open /\ pcm.state \in {"SETUP", "PREPARE"}
    /\ pcm' = [pcm EXCEPT !.dma = 0, !.state = "OPEN"]
    /\ UNCHANGED <<level, hung, written, call, client, alive, loopVars>>

\* fdev_ctrl(CTRL_PCM_DEV_PRPARE)
PrepareStream ==
    /\ MayCall /\ Preparable(pcm)
    /\ pcm' = Prepare(pcm)
    /\ level' = 0 /\ hung' = FALSE
    /\ written' = IF pcm'.appl = 0 THEN 0 ELSE written
    /\ UNCHANGED <<call, client, alive, loopVars>>

\* fdev_ctrl(CTRL_PCM_BUF_AVAIL): asking configures an open stream.
BufAvail ==
    /\ MayCall /\ pcm.open /\ pcm.state = "OPEN"
    /\ pcm' = DefaultHw(pcm)
    /\ UNCHANGED <<level, hung, written, call, client, alive, loopVars>>

-----------------------------------------------------------------------------
(* fdev_write, one step for each section between two unlocks.              *)

\* The stream is made ready and the room read; a stream that cannot be
\* made ready ends the call with an error.
WriteEnter ==
    /\ ~call.busy /\ client # "blocked" /\ (alive \/ SharedFd)
    /\ LET s == WriteReady(pcm)
           fresh == pcm.state \in {"OPEN", "SETUP"} /\ s.state \in {"PREPARE", "SETUP"}
           ready == s.open /\ s.dma > 0 /\ s.buffer > 0 /\ s.state \in {"PREPARE", "RUNNING"}
       IN  /\ pcm' = s
           /\ level' = IF fresh THEN 0 ELSE level
           /\ hung' = (hung /\ ~fresh)
           /\ written' = IF fresh THEN 0 ELSE written
           /\ \/ /\ ready
                 /\ \E n \in WriteSizes :
                       /\ written' + n <= MaxFrames
                       /\ call' = [busy |-> TRUE, left |-> n,
                                   avail |-> PlayAvail(s), done |-> 0]
              \/ ~ready /\ UNCHANGED call
    /\ client' = "free"
    /\ UNCHANGED <<alive, loopVars>>

\* No room is left in the value read before: look again, once.
Refreshed(s, k) ==
    /\ pcm' = k[1] /\ level' = k[2]
    /\ call' = IF s.state = "XRUN" \/ PlayAvail(s) = 0
               THEN [call EXCEPT !.left = 0]
               ELSE [call EXCEPT !.avail = PlayAvail(s)]

WriteRefresh ==
    /\ call.busy /\ call.left > 0 /\ call.avail = 0
    /\ \E p \in Poll(pcm, level) : Refreshed(p[1], p[2])
    /\ UNCHANGED <<hung, written, client, alive, loopVars>>

\* The room not asked for.
ChunkAll == Min({call.left, pcm.buffer - (pcm.appl % pcm.buffer)})

\* One chunk: copied, the stream started when enough is in the ring, the
\* engine told and fed.
Chunk == Min({call.left, call.avail, pcm.buffer - (pcm.appl % pcm.buffer)})

Copied(s, n) ==
    LET next == s.appl + n
    IN  [s EXCEPT !.appl = IF next >= s.boundary THEN next - s.boundary ELSE next]

Started(s) ==
    IF s.state = "PREPARE" /\ FramesReady(s) >= s.start
    THEN [s EXCEPT !.state = "RUNNING", !.running = TRUE] ELSE s

Acked(s, lev) == IF s.state = "RUNNING" THEN Ack(s, lev) ELSE <<s, lev>>

WriteCopy ==
    /\ call.busy /\ call.left > 0 /\ call.avail > 0
    /\ \E s \in {Started(Copied(pcm, Chunk))} :
       \E a \in {Acked(s, level)} :
       \E k \in {QueuePending(a[1], a[2])} :
          pcm' = k[1] /\ level' = k[2]
    /\ written' = written + Chunk
    /\ call' = [call EXCEPT !.left = @ - Chunk, !.avail = @ - Chunk,
                            !.done = @ + Chunk]
    /\ UNCHANGED <<hung, client, alive, loopVars>>

\* The handler returns: a count or an error, or, when nothing was taken and
\* nothing is wrong, VFS_ERR_RETRY, on which the client sleeps in vfsd.
Retry == call.done = 0 /\ pcm.state \in {"PREPARE", "RUNNING"}

WriteReturn ==
    /\ call.busy /\ call.left = 0
    /\ call' = Idle
    /\ IF Retry
       THEN /\ parked' = TRUE /\ wasWritable' = FALSE
            /\ client' = IF alive \/ SharedFd THEN "blocked" ELSE "free"
       ELSE UNCHANGED <<parked, wasWritable, client>>
    /\ UNCHANGED <<pcm, level, hung, written, alive, fullTicks, reapTick>>

\* The process that opened the stream dies without closing it.
Die ==
    /\ alive /\ pcm.open
    /\ alive' = FALSE
    /\ client' = IF SharedFd THEN client ELSE "free"
    /\ UNCHANGED <<pcm, level, hung, written, call, loopVars>>

-----------------------------------------------------------------------------
(* fdev_loop_step, one turn of the polling loop.                           *)

\* vfs_wakeup(VFS_EVT_WR) and the clearing of _pcm_writer_parked.
Wakeup ==
    /\ parked' = FALSE
    /\ client' = IF client = "blocked" THEN "retry" ELSE client

\* A parked writer is left to the next edge of writability.
WakeParkedNot == UNCHANGED <<parked, client>>

WakeParked == IF parked THEN Wakeup ELSE UNCHANGED <<parked, client>>

LoopClosed ==
    /\ ~call.busy /\ ~pcm.open
    /\ wasWritable' = FALSE
    /\ UNCHANGED <<pcm, level, hung, written, call, client, alive, parked,
                   fullTicks, reapTick>>

\* The owner is looked up every ReapInterval turns.
ReapDue == reapTick + 1 >= ReapInterval
ReapStep == reapTick' = IF ReapDue THEN 0 ELSE reapTick + 1

LoopReap ==
    /\ ~call.busy /\ pcm.open
    /\ ReapDue /\ ~alive
    /\ ReapStep
    /\ pcm' = Released(pcm)
    /\ level' = 0
    /\ wasWritable' = FALSE
    /\ UNCHANGED <<hung, written, call, client, alive, parked, fullTicks>>

LoopTurn ==
    /\ ~call.busy /\ pcm.open
    /\ ~(ReapDue /\ ~alive)
    /\ ReapStep
    /\ UNCHANGED <<hung, written, call, alive>>

\* Nothing to poll: a writer that is parked is woken to find out why.
LoopIdle ==
    /\ LoopTurn
    /\ pcm.state # "RUNNING"
    /\ wasWritable' = FALSE /\ fullTicks' = 0
    /\ WakeParked
    /\ UNCHANGED <<pcm, level>>

\* fdev_check_poll_events of a running stream: what snd_pcm_buf_avail says
\* after its refresh.
Writable(s) == s.state = "RUNNING" /\ PlayAvail(s) > 0

FoundRoom(s, k) == Writable(s) /\ pcm' = k[1] /\ level' = k[2]

LoopWritable ==
    /\ LoopTurn
    /\ pcm.state = "RUNNING"
    /\ \E p \in Poll(pcm, level) : FoundRoom(p[1], p[2])
    /\ fullTicks' = 0 /\ wasWritable' = TRUE
    /\ IF ~wasWritable \/ parked THEN Wakeup ELSE UNCHANGED <<parked, client>>

\* A ring that stays full for too long while running: the engine has
\* stalled and the stream is stopped.
Stalled == fullTicks >= StallTicks

FoundFull(s, k) ==
    /\ ~Writable(s)
    /\ pcm' = IF Stalled /\ s.state = "RUNNING"
              THEN [TriggerStop(k[1]) EXCEPT !.state = "XRUN"] ELSE k[1]
    /\ level' = k[2]

LoopFull ==
    /\ LoopTurn
    /\ pcm.state = "RUNNING"
    /\ \E p \in Poll(pcm, level) : FoundFull(p[1], p[2])
    /\ wasWritable' = FALSE
    /\ fullTicks' = (IF Stalled THEN 0 ELSE fullTicks) + 1
    /\ IF Stalled THEN WakeParked ELSE UNCHANGED <<parked, client>>

LoopStep == LoopClosed \/ LoopReap \/ LoopIdle \/ LoopWritable \/ LoopFull

-----------------------------------------------------------------------------
(* The engine.                                                             *)

Drain ==
    /\ pcm.running /\ ~hung /\ level > 0
    /\ level' = level - 1
    /\ UNCHANGED <<pcm, hung, written, call, client, alive, loopVars>>

Hang ==
    /\ MayHang /\ pcm.running /\ ~hung
    /\ hung' = TRUE
    /\ UNCHANGED <<pcm, level, written, call, client, alive, loopVars>>

-----------------------------------------------------------------------------
WriteStep == WriteRefresh \/ WriteCopy \/ WriteReturn

Next ==
    \/ Open \/ Close \/ SetParams \/ HwFree \/ PrepareStream \/ BufAvail
    \/ WriteEnter \/ WriteRefresh \/ WriteCopy \/ WriteReturn
    \/ LoopClosed \/ LoopReap \/ LoopIdle \/ LoopWritable \/ LoopFull
    \/ Die \/ Drain \/ Hang

\* device_run turns the loop for ever, a handler that started runs to its
\* end, an engine that is not hung plays what it was given, and libc's
\* write() tries again when vfsd wakes it.
Fairness ==
    /\ WF_vars(LoopStep)
    /\ WF_vars(WriteStep)
    /\ WF_vars(Drain)
    /\ WF_vars(client = "retry" /\ WriteEnter)

Spec == Init /\ [][Next]_vars /\ Fairness

-----------------------------------------------------------------------------
(* Properties.                                                             *)

\* Every field has its type; the pointers stay below the boundary, and the
\* sum play_avail forms is an int.
TypeOK ==
    /\ pcm.state \in States /\ pcm.open \in BOOLEAN /\ pcm.running \in BOOLEAN
    /\ pcm.rate \in BOOLEAN
    /\ {pcm.hw, pcm.base, pcm.appl, pcm.start, pcm.stop, pcm.boundary,
        pcm.period, pcm.buffer, pcm.dma, pcm.lastAppl, pcm.pending,
        pcm.processed, pcm.total, pcm.fed, pcm.devPeriod, pcm.devSize,
        pcm.inflight} \subseteq 0..IntMax
    /\ pcm.state = "RUNNING" =>
         /\ pcm.hw < pcm.boundary /\ pcm.appl < pcm.boundary
         /\ pcm.hw + pcm.buffer <= IntMax
    /\ level \in Nat /\ written \in 0..MaxFrames
    /\ hung \in BOOLEAN /\ alive \in BOOLEAN
    /\ call \in [busy : BOOLEAN, left : Nat, avail : Nat, done : Nat]
    /\ client \in {"free", "blocked", "retry"}
    /\ parked \in BOOLEAN /\ wasWritable \in BOOLEAN
    /\ fullTicks \in 0..StallTicks /\ reapTick \in 0..ReapInterval - 1

\* Frames booked as handed over that the engine was not told of.  There are
\* none as long as the period the engine is fed by is a whole number of words.
Slack == IF pcm.devPeriod % Miu = 0 THEN 0 ELSE pcm.total - pcm.fed

\* Frames in the ring the engine has still to play, the slack apart.
Unplayed == written - Played - Slack

\* The write path never copies over a frame the engine has still to play:
\* the room it works with, read before the lock was dropped and derived from
\* a level polled earlier, is never more than the room there is.  With periods
\* that are not whole words it is too much by the slack, and by no more.
NoOverwrite ==
    pcm.state \in {"PREPARE", "RUNNING"} => Unplayed <= pcm.devSize

\* While the stream runs, every frame in the ring is either handed to the
\* engine or counted as pending, and counted once: miyoo-dais.c calls
\* pending_bytes "the single source of truth" for what the engine has not
\* been told.  What is handed over reaches the engine, if periods are whole words.
SourceOfTruth ==
    pcm.state = "RUNNING" =>
        /\ pcm.total + pcm.pending = written
        /\ pcm.fed + Slack = pcm.total

\* The same without the slack: "bytes userspace has produced but BACH has not
\* yet been told about" are the pending ones, whatever the period.
EngineTold ==
    pcm.state = "RUNNING" => pcm.fed + pcm.pending = written

\* A stream that runs has the engine programmed with the geometry the write
\* path copies by, whatever configurations were accepted or refused before.
GeometryAgrees ==
    pcm.state = "RUNNING" =>
        /\ pcm.buffer > 0 /\ pcm.dma = pcm.buffer
        /\ pcm.devSize = pcm.buffer /\ pcm.devPeriod = pcm.period

\* The stream goes into XRUN only when the engine has played the ring down
\* to the stop threshold, the slack apart, or the loop saw it full for the
\* whole timeout.
XrunMeansDrained ==
    [][pcm.state = "RUNNING" /\ pcm'.state = "XRUN"
         => Stalled \/ Unplayed <= pcm.buffer - pcm.stop]_vars

\* A writer that vfsd put to sleep is woken: the loop "must guarantee it a
\* wakeup (writable, XRUN or teardown alike)" (pcm_lib.c).
WriterWoken == client = "blocked" ~> client # "blocked"

\* Waking is not enough: the write() a client is in returns, with a count
\* or an error, instead of going round between vfsd and the driver.
WriteReturns ==
    call.busy \/ client # "free" ~> ~call.busy /\ client = "free"

\* Whole periods in the ring are played, the slack apart, also when nobody
\* writes any more: the polls of the loop feed the engine.
PeriodsPlay ==
    pcm.state = "RUNNING" /\ Unplayed >= pcm.period
        ~> \/ Unplayed < pcm.period
           \/ pcm.state # "RUNNING" \/ hung
=============================================================================
