----------------------------- MODULE NvmeQueue -----------------------------
(***************************************************************************)
(* The NVMe driver of the x86 port (libs/bsp/src/nvme.c): an admin and an  *)
(* I/O queue pair in shared memory, each polled for one completion after   *)
(* each submission; the phase bit tells a new completion from an old one.  *)
(* Every transfer goes through one DMA page, MaxChunk blocks at a time.    *)
(***************************************************************************)
EXTENDS Naturals

CONSTANTS
    AsqSize,    \* ASQ_SIZE = ACQ_SIZE
    IoqSize,    \* IOQ_SIZE
    MaxChunk,   \* DATA_SIZE >> lba_shift
    Capacity,   \* nsze
    Values,     \* contents of a block
    Zero,       \* a block of zeros
    CidSpace,   \* number of command ids (2^16)
    Slow,       \* whether the controller may answer after the poll gave up
    MaxCount,   \* bound: blocks a request asks for
    MaxReqs     \* bound: number of requests

ASSUME SizeAssumption ==
    /\ AsqSize \in Nat /\ AsqSize > 1
    /\ IoqSize \in Nat /\ IoqSize > 1
ASSUME DataAssumption ==
    /\ MaxChunk \in Nat /\ MaxChunk > 0
    /\ Capacity \in Nat
    /\ Zero \in Values
    /\ CidSpace \in Nat /\ CidSpace > 0
    /\ Slow \in BOOLEAN
    /\ MaxCount \in Nat /\ MaxReqs \in Nat

VARIABLES
    sq, cq,             \* the rings in shared memory
    tail, head, phase,  \* asq_tail/iosq_tail, acq_head/iocq_head, .._phase
    fetch, post, tag,   \* the controller's SQ head, CQ tail and phase
    pc, step, ready,    \* where the driver is; admin commands done; ready
    cmd, cid,           \* the command being polled for; next_cid
    page, disk,         \* the DMA page; the contents of the namespace
    req, ret, nreq,     \* the request of nvmefsd, its result, their number
    last                \* what the last nvme_rw_blocks returned

rings == <<sq, cq, tail, head, phase>>
dev == <<fetch, post, tag>>
vars == <<rings, dev, pc, step, ready, cmd, cid, page, disk, req, ret, nreq, last>>

Queues == {"admin", "io"}
Size(q) == IF q = "io" THEN IoqSize ELSE AsqSize
Blocks == 0 .. Capacity - 1
Offsets(n) == 0 .. n - 1

Cmds == [op : {"admin", "read", "write"}, cid : Offsets(CidSpace),
         lba : Nat, n : 0 .. MaxChunk]
Cqes == [phase : {0, 1}, cid : Offsets(CidSpace), ok : BOOLEAN]

\* qmem is zeroed: no completion carries the first phase, 1.
EmptyCq(q) == [i \in Offsets(Size(q)) |-> [phase |-> 0, cid |-> 0, ok |-> FALSE]]
NoCmd == [op |-> "admin", cid |-> 0, lba |-> 0, n |-> 0]
Failed == [ok |-> FALSE, data |-> <<>>]
NoReq == [write |-> FALSE, start |-> 0, count |-> 0, left |-> 0, buf |-> <<>>]

Init ==
    /\ sq = [q \in Queues |-> [i \in Offsets(Size(q)) |-> NoCmd]]
    /\ cq = [q \in Queues |-> EmptyCq(q)]
    /\ tail = [q \in Queues |-> 0]
    /\ head = [q \in Queues |-> 0]
    /\ phase = [q \in Queues |-> 1]
    /\ fetch = [q \in Queues |-> 0]
    /\ post = [q \in Queues |-> 0]
    /\ tag = [q \in Queues |-> 1]
    /\ pc = "init"
    /\ step = 0
    /\ ready = FALSE
    /\ cmd = NoCmd
    /\ cid = 1 % CidSpace
    /\ page = [i \in Offsets(MaxChunk) |-> Zero]
    /\ disk \in [Blocks -> Values]
    /\ req = NoReq
    /\ ret = "none"
    /\ nreq = 0
    /\ last = Failed

(***************************************************************************)
(* The rings.                                                              *)
(***************************************************************************)
\* Write the entry, move the tail, ring the doorbell.
Submit(q, op, lba, n) ==
    LET c == [op |-> op, cid |-> cid, lba |-> lba, n |-> n]
    IN  /\ cmd' = c
        /\ cid' = (cid + 1) % CidSpace
        /\ sq' = [sq EXCEPT ![q][tail[q]] = c]
        /\ tail' = [tail EXCEPT ![q] = (tail[q] + 1) % Size(q)]

Visible(q) == cq[q][head[q]].phase = phase[q]

ConsumeNoFlip(q) ==
    /\ head' = [head EXCEPT ![q] = (head[q] + 1) % Size(q)]
    /\ UNCHANGED phase

\* The completion at the head is taken for the command's: its id is not read.
Consume(q) ==
    LET h == (head[q] + 1) % Size(q)
    IN  /\ head' = [head EXCEPT ![q] = h]
        /\ phase' = [phase EXCEPT ![q] = IF h = 0 THEN 1 - @ ELSE @]

(***************************************************************************)
(* bsp_nvme_controller_init: four admin commands, then the warm-up.        *)
(***************************************************************************)
AdminSubmit ==
    /\ pc = "init"
    /\ Submit("admin", "admin", 0, 0)
    /\ pc' = "admin"
    /\ UNCHANGED <<cq, head, phase, dev, step, ready, page, disk, req, ret, nreq, last>>

\* Identify controller, identify namespace (no capacity: give up), create the
\* I/O completion queue, create the I/O submission queue.
AdminDone ==
    /\ pc = "admin"
    /\ Visible("admin")
    /\ Consume("admin")
    /\ IF cq["admin"][head["admin"]].ok /\ ~(step = 1 /\ Capacity = 0)
       THEN /\ step' = step + 1
            /\ pc' = IF step = 3 THEN "warm" ELSE "init"
       ELSE /\ pc' = "failed"
            /\ UNCHANGED step
    /\ UNCHANGED <<sq, cq, tail, dev, ready, cmd, cid, page, disk, req, ret, nreq, last>>

AdminTimeout ==
    /\ Slow
    /\ pc = "admin"
    /\ ~Visible("admin")
    /\ pc' = "failed"
    /\ UNCHANGED <<rings, dev, step, ready, cmd, cid, page, disk, req, ret, nreq, last>>

\* nvme_rw_blocks refuses the probe read, ready being still false; the drain
\* loop then looks for its completion.
WarmUp ==
    /\ pc = "warm"
    /\ ready' = TRUE
    /\ pc' = "idle"
    /\ IF Visible("io") THEN Consume("io") ELSE UNCHANGED <<head, phase>>
    /\ UNCHANGED <<sq, cq, tail, dev, step, cmd, cid, page, disk, req, ret, nreq, last>>

(***************************************************************************)
(* bsp_nvme_read, bsp_nvme_write: one nvme_rw_blocks per chunk.            *)
(***************************************************************************)
Request(write, lba, buf, count) ==
    /\ pc = "idle"
    /\ nreq < MaxReqs
    /\ nreq' = nreq + 1
    /\ req' = [write |-> write, start |-> lba, count |-> count, left |-> count,
               buf |-> buf]
    /\ ret' = "none"
    /\ pc' = "chunk"
    /\ UNCHANGED <<rings, dev, step, ready, cmd, cid, page, disk, last>>

Done == req.count - req.left
ChunkLen == IF req.left > MaxChunk THEN MaxChunk ELSE req.left

ChunkLateCopy ==
    /\ pc = "chunk"
    /\ req.left > 0
    /\ Submit("io", IF req.write THEN "write" ELSE "read", req.start + Done, ChunkLen)
    /\ pc' = "io"
    /\ UNCHANGED <<cq, head, phase, dev, step, ready, page, disk, req, ret, nreq, last>>

\* A write is copied into the DMA page before the command is queued.
Chunk ==
    /\ pc = "chunk"
    /\ req.left > 0
    /\ ready
    /\ page' = IF req.write
               THEN [i \in Offsets(MaxChunk) |->
                        IF i < ChunkLen THEN req.buf[Done + i] ELSE page[i]]
               ELSE page
    /\ Submit("io", IF req.write THEN "write" ELSE "read", req.start + Done, ChunkLen)
    /\ pc' = "io"
    /\ UNCHANGED <<cq, head, phase, dev, step, ready, disk, req, ret, nreq, last>>

Finish ==
    /\ pc = "chunk"
    /\ req.left = 0
    /\ pc' = "idle"
    /\ ret' = "ok"
    /\ UNCHANGED <<rings, dev, step, ready, cmd, cid, page, disk, req, nreq, last>>

\* A read is copied out of the DMA page once its completion is in.
Copied ==
    IF req.write THEN req.buf
    ELSE [i \in Offsets(req.count) |->
             IF i \in Done .. Done + ChunkLen - 1 THEN page[i - Done] ELSE req.buf[i]]

IoDone ==
    /\ pc = "io"
    /\ Visible("io")
    /\ Consume("io")
    /\ IF cq["io"][head["io"]].ok
       THEN /\ req' = [req EXCEPT !.left = req.left - ChunkLen, !.buf = Copied]
            /\ last' = [ok |-> TRUE, data |-> [i \in Offsets(ChunkLen) |-> page[i]]]
            /\ pc' = "chunk"
            /\ UNCHANGED ret
       ELSE /\ last' = Failed
            /\ ret' = "failed"
            /\ pc' = "idle"
            /\ UNCHANGED req
    /\ UNCHANGED <<sq, cq, tail, dev, step, ready, cmd, cid, page, disk, nreq>>

IoTimeoutNever ==
    /\ Slow
    /\ pc = "io"
    /\ ~Visible("io")
    /\ UNCHANGED vars

\* The poll gives up; the command stays queued and the head stays where it is.
IoTimeout ==
    /\ Slow
    /\ pc = "io"
    /\ ~Visible("io")
    /\ last' = Failed
    /\ ret' = "failed"
    /\ pc' = "idle"
    /\ UNCHANGED <<rings, dev, step, ready, cmd, cid, page, disk, req, nreq>>

(***************************************************************************)
(* The controller: it serves a queue in order as long as its completion    *)
(* queue has room, and moves the data before it posts the completion.      *)
(***************************************************************************)
Serve(q, ok) ==
    LET c == sq[q][fetch[q]]
        p == (post[q] + 1) % Size(q)
    IN  /\ fetch[q] # tail[q]
        /\ p # head[q]
        /\ ok => c.lba + c.n <= Capacity
        /\ fetch' = [fetch EXCEPT ![q] = (fetch[q] + 1) % Size(q)]
        /\ post' = [post EXCEPT ![q] = p]
        /\ tag' = [tag EXCEPT ![q] = IF p = 0 THEN 1 - @ ELSE @]
        /\ cq' = [cq EXCEPT ![q][post[q]] =
                     [phase |-> tag[q], cid |-> c.cid, ok |-> ok]]
        /\ disk' = IF ok /\ c.op = "write"
                   THEN [b \in Blocks |-> IF b \in c.lba .. c.lba + c.n - 1
                                          THEN page[b - c.lba] ELSE disk[b]]
                   ELSE disk
        /\ page' = IF ok /\ c.op = "read"
                   THEN [i \in Offsets(MaxChunk) |->
                            IF i < c.n THEN disk[c.lba + i] ELSE page[i]]
                   ELSE page
        /\ UNCHANGED <<sq, tail, head, phase, pc, step, ready, cmd, cid, req, ret, nreq, last>>

Bufs(write, count) == [Offsets(count) -> IF write THEN Values ELSE {Zero}]

NewRequest ==
    \E write \in BOOLEAN, lba \in Blocks, count \in 0 .. MaxCount :
        \E buf \in Bufs(write, count) : Request(write, lba, buf, count)

Driver ==
    \/ AdminSubmit \/ AdminDone \/ AdminTimeout \/ WarmUp
    \/ Chunk \/ Finish \/ IoDone \/ IoTimeout

Controller == \E q \in Queues, ok \in BOOLEAN : Serve(q, ok)

Next == NewRequest \/ Driver \/ Controller

\* The driver runs on: both polls count their turns and give up.  Nothing is
\* asked of the controller, which may never answer.
Spec == Init /\ [][Next]_vars /\ WF_vars(Driver)

-----------------------------------------------------------------------------
\* Ring indexes stay inside their rings, a chunk inside the DMA page and the
\* caller's buffer, and requests are served only once init has run to its end.
TypeOK ==
    /\ DOMAIN sq = Queues /\ DOMAIN cq = Queues
    /\ tail \in [Queues -> Nat] /\ head \in [Queues -> Nat]
    /\ fetch \in [Queues -> Nat] /\ post \in [Queues -> Nat]
    /\ phase \in [Queues -> {0, 1}] /\ tag \in [Queues -> {0, 1}]
    /\ \A q \in Queues :
          /\ sq[q] \in [Offsets(Size(q)) -> Cmds]
          /\ cq[q] \in [Offsets(Size(q)) -> Cqes]
          /\ tail[q] \in Offsets(Size(q)) /\ head[q] \in Offsets(Size(q))
          /\ fetch[q] \in Offsets(Size(q)) /\ post[q] \in Offsets(Size(q))
    /\ pc \in {"init", "admin", "warm", "idle", "chunk", "io", "failed"}
    /\ step \in 0 .. 4
    /\ ready \in BOOLEAN
    /\ ready <=> pc \in {"idle", "chunk", "io"}
    /\ step = 4 <=> pc \in {"warm", "idle", "chunk", "io"}
    /\ cmd \in Cmds
    /\ cid \in Offsets(CidSpace)
    /\ page \in [Offsets(MaxChunk) -> Values]
    /\ disk \in [Blocks -> Values]
    /\ req = [write |-> req.write, start |-> req.start, count |-> req.count,
              left |-> req.left, buf |-> req.buf]
    /\ req.write \in BOOLEAN
    /\ req.start \in Nat /\ req.count \in Nat /\ req.left \in 0 .. req.count
    /\ req.buf \in [Offsets(req.count) -> Values]
    /\ ret \in {"none", "ok", "failed"}
    /\ nreq \in 0 .. MaxReqs

\* The completion that ends a poll (admin_submit, io_submit) is the one of the
\* command just submitted, although the driver never compares the ids.
OwnCompletion ==
    /\ pc = "admin" /\ Visible("admin") => cq["admin"][head["admin"]].cid = cmd.cid
    /\ pc = "io" /\ Visible("io") => cq["io"][head["io"]].cid = cmd.cid

\* A request for which bsp_nvme_read or bsp_nvme_write returns its count has
\* moved every block, chunk by chunk, between the caller's buffer and the
\* blocks it named.
RequestResult ==
    pc = "idle" /\ ret = "ok" =>
        \A i \in Offsets(req.count) : disk[req.start + i] = req.buf[i]

\* Every request returns, and initialisation ends, one way or the other, with
\* a controller that answers late or never: the polls of admin_submit and
\* io_submit are bounded, and no chunk is retried for ever.
RequestReturns ==
    /\ pc = "chunk" ~> pc = "idle"
    /\ pc = "init" ~> pc \in {"idle", "failed"}

Transfer ==
    [write |-> req.write, lba |-> req.start + Done, n |-> ChunkLen,
     data |-> [i \in Offsets(ChunkLen) |-> req.buf[Done + i]]]
NoTransfer == [write |-> FALSE, lba |-> 0, n |-> 0, data |-> <<>>]

Device == INSTANCE BlockDevice WITH
    store <- disk,
    busy <- pc = "io",
    call <- IF pc = "io" THEN Transfer ELSE NoTransfer,
    taken <- pc = "io" /\ Visible("io") /\ cq["io"][head["io"]].ok

\* Each nvme_rw_blocks is one transfer of an atomic block device: it moves its
\* blocks at one moment between its call and its return, and none after it.
DeviceSpec == Device!Spec
=============================================================================
