-------------------------- MODULE NvmeQueueProofs --------------------------
(***************************************************************************)
(* With a controller that answers before the poll gives up (~Slow), every  *)
(* completion is the command's own and each nvme_rw_blocks is a transfer   *)
(* of an atomic block device, for rings, chunks and namespaces of any size.*)
(***************************************************************************)
EXTENDS NvmeQueue, TLAPS

(***************************************************************************)
(* The states of a ring: nothing queued; a command queued and not served;  *)
(* a command served and its completion not consumed.                       *)
(***************************************************************************)
Succ(q, i) == (i + 1) % Size(q)

Idle(q) ==
    /\ tail[q] = head[q]
    /\ post[q] = head[q]
    /\ tag[q] = phase[q]

Queued(q) ==
    /\ tail[q] = Succ(q, head[q])
    /\ post[q] = head[q]
    /\ tag[q] = phase[q]
    /\ sq[q][head[q]] = cmd

Served(q) ==
    /\ tail[q] = Succ(q, head[q])
    /\ post[q] = tail[q]
    /\ tag[q] = IF tail[q] = 0 THEN 1 - phase[q] ELSE phase[q]
    /\ cq[q][head[q]].cid = cmd.cid

Waiting(q) == pc = q

\* Entries before the controller's tail carry its phase, the others the old one.
RingInv ==
    \A q \in Queues :
        /\ fetch[q] = post[q]
        /\ \A i \in Offsets(Size(q)) :
              cq[q][i].phase = IF i < post[q] THEN tag[q] ELSE 1 - tag[q]
        /\ IF Waiting(q) THEN Queued(q) \/ Served(q) ELSE Idle(q)

\* The chunk under way and the chunks done.
ChunkInv ==
    pc = "io" =>
        /\ req.left > 0
        /\ cmd.lba = req.start + Done
        /\ cmd.n = ChunkLen
        /\ cmd.op = IF req.write THEN "write" ELSE "read"
        /\ Queued("io") /\ req.write =>
              \A i \in Offsets(ChunkLen) : page[i] = req.buf[Done + i]
        /\ Served("io") /\ cq["io"][head["io"]].ok =>
              /\ cmd.lba + cmd.n <= Capacity
              /\ \A i \in Offsets(ChunkLen) :
                    /\ page[i] = disk[req.start + Done + i]
                    /\ req.write => page[i] = req.buf[Done + i]

AdminInv == pc = "admin" => cmd.op = "admin"

DoneInv ==
    /\ ret = "ok" => pc = "idle" /\ req.left = 0
    /\ pc \in {"chunk", "io"} \/ ret = "ok" =>
          /\ Done > 0 => req.start + Done <= Capacity
          /\ \A i \in Offsets(Done) : disk[req.start + i] = req.buf[i]

-----------------------------------------------------------------------------
USE DEF Queues

\* The range of a remainder.
LEMMA ModRange ==
    ASSUME NEW a \in Nat, NEW n \in Nat, n > 0
    PROVE  a % n \in Offsets(n)
  BY DEF Offsets

\* Facts about ring indices.
LEMMA SuccType ==
    ASSUME NEW q \in Queues, NEW i \in Offsets(Size(q))
    PROVE  /\ Succ(q, i) \in Offsets(Size(q))
           /\ Succ(q, i) # i
           /\ Succ(q, i) = IF i + 1 = Size(q) THEN 0 ELSE i + 1
  BY SizeAssumption DEF Succ, Size, Offsets

\* The numbers of the command and of the request.
LEMMA NumberTypes ==
    ASSUME TypeOK
    PROVE  /\ cmd.lba \in Nat /\ cmd.n \in Nat /\ cmd.n <= MaxChunk
           /\ req.start \in Nat /\ req.count \in Nat
           /\ req.left \in Nat /\ req.left <= req.count
           /\ cid \in Nat
<1>1. cmd \in Cmds /\ cid \in Offsets(CidSpace)
  BY Zenon DEF TypeOK
<1>2. req.start \in Nat /\ req.count \in Nat /\ req.left \in 0 .. req.count
  BY Zenon DEF TypeOK
<1>3. cmd.lba \in Nat /\ cmd.n \in 0 .. MaxChunk
  BY ONLY <1>1 DEF Cmds
<1>4. MaxChunk \in Nat /\ CidSpace \in Nat
  BY DataAssumption
<1>5. cid \in Nat
  BY ONLY <1>1, <1>4 DEF Offsets
<1> QED  BY ONLY <1>2, <1>3, <1>4, <1>5

\* The constants that bound blocks and chunks.
LEMMA BoundTypes ==
    /\ MaxChunk \in Nat /\ MaxChunk > 0 /\ Capacity \in Nat
    /\ \A n \in 0 .. MaxCount : n \in Nat
  BY DataAssumption

\* What a submission does to the type of the submission ring (Submit).
LEMMA SubmitType ==
    ASSUME TypeOK, NEW q \in Queues, NEW op \in {"admin", "read", "write"},
           NEW lba \in Nat, NEW n \in 0 .. MaxChunk, Submit(q, op, lba, n)
    PROVE  /\ DOMAIN sq' = Queues
           /\ \A r \in Queues : sq'[r] \in [Offsets(Size(r)) -> Cmds]
           /\ tail' \in [Queues -> Nat]
           /\ \A r \in Queues : tail'[r] \in Offsets(Size(r))
           /\ cmd' \in Cmds
           /\ cid' \in Offsets(CidSpace)
<1> DEFINE c == [op |-> op, cid |-> cid, lba |-> lba, n |-> n]
<1>1. c \in Cmds
  BY DEF TypeOK, Cmds
<1>2. cid' \in Offsets(CidSpace)
  <2>1. cid + 1 \in Nat
    <3>1. cid \in Nat
      BY NumberTypes
    <3> QED  BY ONLY <3>1
  <2>2. (cid + 1) % CidSpace \in Offsets(CidSpace)
    BY <2>1, DataAssumption, ModRange
  <2> QED  BY <2>2 DEF Submit
<1>3. tail[q] \in Offsets(Size(q)) /\ tail \in [Queues -> Nat]
  BY DEF TypeOK
<1>4. Succ(q, tail[q]) \in Offsets(Size(q))
  BY <1>3, SuccType
<1>5. tail' = [tail EXCEPT ![q] = Succ(q, tail[q])]
  BY DEF Submit, Succ
<1>6. tail' \in [Queues -> Nat] /\ \A r \in Queues : tail'[r] \in Offsets(Size(r))
  <2>1. Succ(q, tail[q]) \in Nat
    BY <1>4 DEF Offsets
  <2>2. \A r \in Queues : tail[r] \in Offsets(Size(r))
    BY DEF TypeOK
  <2> QED  BY <1>3, <1>4, <1>5, <2>1, <2>2
<1>7. sq' = [sq EXCEPT ![q] = [sq[q] EXCEPT ![tail[q]] = c]]
  BY DEF Submit
<1>8. [sq[q] EXCEPT ![tail[q]] = c] \in [Offsets(Size(q)) -> Cmds]
  BY <1>1 DEF TypeOK
<1>9. DOMAIN sq' = Queues /\ \A r \in Queues : sq'[r] \in [Offsets(Size(r)) -> Cmds]
  <2> HIDE DEF c
  <2> QED  BY <1>7, <1>8 DEF TypeOK
<1> QED  BY <1>1, <1>2, <1>6, <1>9 DEF Submit

\* What a consumed completion does to the types of head and phase (Consume).
LEMMA ConsumeType ==
    ASSUME TypeOK, NEW q \in Queues, Consume(q)
    PROVE  /\ head' \in [Queues -> Nat]
           /\ phase' \in [Queues -> {0, 1}]
           /\ \A r \in Queues : head'[r] \in Offsets(Size(r))
<1>1. head[q] \in Offsets(Size(q)) /\ head \in [Queues -> Nat] /\ phase \in [Queues -> {0, 1}]
  BY DEF TypeOK
<1>2. Succ(q, head[q]) \in Offsets(Size(q))
  BY <1>1, SuccType
<1>3. head' = [head EXCEPT ![q] = Succ(q, head[q])]
  BY DEF Consume, Succ
<1>4. Succ(q, head[q]) \in Nat
  BY <1>2 DEF Offsets
<1>5. \A r \in Queues : head[r] \in Offsets(Size(r))
  BY DEF TypeOK
<1>6. phase' \in [Queues -> {0, 1}]
  BY <1>1 DEF Consume
<1> QED  BY <1>1, <1>2, <1>3, <1>4, <1>5, <1>6

\* Lengths and places of a chunk (the loops of bsp_nvme_read/write).
LEMMA ChunkType ==
    ASSUME TypeOK
    PROVE  /\ Done \in Nat
           /\ Done + req.left = req.count
           /\ ChunkLen \in 0 .. MaxChunk
           /\ ChunkLen <= req.left
           /\ req.left > 0 => ChunkLen > 0
           /\ \A i \in Offsets(ChunkLen) : Done + i \in Offsets(req.count)
<1>1. req.count \in Nat /\ req.left \in 0 .. req.count
  BY DEF TypeOK
<1>2. MaxChunk \in Nat /\ MaxChunk > 0
  BY DataAssumption
<1> QED  BY <1>1, <1>2 DEF Done, ChunkLen, Offsets

\* Init establishes the types.
LEMMA InitType == Init => TypeOK
<1> SUFFICES ASSUME Init PROVE TypeOK
  OBVIOUS
<1>1. NoCmd \in Cmds
  BY DataAssumption DEF NoCmd, Cmds, Offsets
<1>2. \A q \in Queues : EmptyCq(q) \in [Offsets(Size(q)) -> Cqes]
  BY DataAssumption DEF EmptyCq, Cqes, Offsets
<1>3. cid \in Offsets(CidSpace)
  BY DataAssumption DEF Init, Offsets
<1>4. \A q \in Queues : 0 \in Offsets(Size(q))
  BY SizeAssumption DEF Offsets, Size
<1>5. page \in [Offsets(MaxChunk) -> Values]
  BY DataAssumption DEF Init
<1>6. /\ req = [write |-> req.write, start |-> req.start, count |-> req.count,
                left |-> req.left, buf |-> req.buf]
      /\ req.write \in BOOLEAN
      /\ req.start \in Nat /\ req.count \in Nat /\ req.left \in 0 .. req.count
      /\ req.buf \in [Offsets(req.count) -> Values]
  BY DEF Init, NoReq, Offsets
<1>7. DOMAIN sq = Queues /\ \A q \in Queues : sq[q] \in [Offsets(Size(q)) -> Cmds]
  BY <1>1 DEF Init
<1>8. DOMAIN cq = Queues /\ \A q \in Queues : cq[q] \in [Offsets(Size(q)) -> Cqes]
  BY <1>2 DEF Init
<1>9. /\ tail \in [Queues -> Nat] /\ head \in [Queues -> Nat]
      /\ fetch \in [Queues -> Nat] /\ post \in [Queues -> Nat]
      /\ phase \in [Queues -> {0, 1}] /\ tag \in [Queues -> {0, 1}]
      /\ \A q \in Queues :
            /\ tail[q] \in Offsets(Size(q)) /\ head[q] \in Offsets(Size(q))
            /\ fetch[q] \in Offsets(Size(q)) /\ post[q] \in Offsets(Size(q))
  BY <1>4 DEF Init
<1>10. /\ pc = "init" /\ step = 0 /\ ready = FALSE /\ cmd \in Cmds /\ ret = "none"
       /\ disk \in [Blocks -> Values] /\ nreq \in 0 .. MaxReqs
  BY <1>1, DataAssumption DEF Init
<1>11. /\ pc \in {"init", "admin", "warm", "idle", "chunk", "io", "failed"}
       /\ pc \notin {"warm", "idle", "chunk", "io"}
       /\ step \in 0 .. 4 /\ step # 4
       /\ ret \in {"none", "ok", "failed"}
  BY <1>10
<1>12. ready \in BOOLEAN /\ ~ready
  BY <1>10
<1> QED  BY <1>3, <1>5, <1>6, <1>7, <1>8, <1>9, <1>10, <1>11, <1>12 DEF TypeOK

\* Every step preserves the types, one action at a time.
LEMMA NextType == TypeOK /\ [Next]_vars => TypeOK'
<1> SUFFICES ASSUME TypeOK, [Next]_vars PROVE TypeOK'
  OBVIOUS
<1>1. CASE AdminSubmit
  <2> USE <1>1 DEF AdminSubmit
  <2>1. /\ DOMAIN sq' = Queues
        /\ \A r \in Queues : sq'[r] \in [Offsets(Size(r)) -> Cmds]
        /\ tail' \in [Queues -> Nat]
        /\ \A r \in Queues : tail'[r] \in Offsets(Size(r))
        /\ cmd' \in Cmds
        /\ cid' \in Offsets(CidSpace)
    BY SubmitType, DataAssumption
  <2> QED  BY <2>1 DEF TypeOK, dev
<1>2. CASE AdminDone
  <2> USE <1>2 DEF AdminDone
  <2>1. /\ head' \in [Queues -> Nat]
        /\ phase' \in [Queues -> {0, 1}]
        /\ \A r \in Queues : head'[r] \in Offsets(Size(r))
    BY ConsumeType
  <2>2. /\ pc' \in {"init", "warm", "failed"}
        /\ step' \in 0 .. 4
        /\ step' = 4 <=> pc' = "warm"
    BY DEF TypeOK
  <2> QED  BY <2>1, <2>2 DEF TypeOK, dev
<1>3. CASE AdminTimeout
  BY <1>3 DEF AdminTimeout, TypeOK, rings, dev
<1>4. CASE WarmUp
  <2> USE <1>4 DEF WarmUp
  <2>1. /\ head' \in [Queues -> Nat]
        /\ phase' \in [Queues -> {0, 1}]
        /\ \A r \in Queues : head'[r] \in Offsets(Size(r))
    <3>1. CASE Visible("io")
      BY <3>1, ConsumeType
    <3>2. CASE ~Visible("io")
      BY <3>2 DEF TypeOK
    <3> QED  BY <3>1, <3>2
  <2> QED  BY <2>1 DEF TypeOK, dev
<1>5. CASE NewRequest
  <2> PICK write \in BOOLEAN, lba \in Blocks, count \in 0 .. MaxCount :
         \E buf \in Bufs(write, count) : Request(write, lba, buf, count)
    BY <1>5 DEF NewRequest
  <2> PICK buf \in Bufs(write, count) : Request(write, lba, buf, count)
    OBVIOUS
  <2>1. /\ lba \in Nat /\ count \in Nat
        /\ buf \in [Offsets(count) -> Values]
    BY DataAssumption DEF Blocks, Bufs
  <2>2. /\ req' = [write |-> req.write, start |-> req.start, count |-> req.count,
                   left |-> req.left, buf |-> req.buf]'
        /\ req'.write \in BOOLEAN
        /\ req'.start \in Nat /\ req'.count \in Nat /\ req'.left \in 0 .. req'.count
        /\ req'.buf \in [Offsets(req'.count) -> Values]
    BY <2>1 DEF Request
  <2>3. nreq' \in 0 .. MaxReqs
    BY DataAssumption DEF Request, TypeOK
  <2> QED  BY <2>2, <2>3 DEF Request, TypeOK, rings, dev
<1>6. CASE Chunk
  <2> USE <1>6 DEF Chunk
  <2>1. req.start + Done \in Nat /\ ChunkLen \in 0 .. MaxChunk
    BY ChunkType DEF TypeOK
  <2>2. /\ DOMAIN sq' = Queues
        /\ \A r \in Queues : sq'[r] \in [Offsets(Size(r)) -> Cmds]
        /\ tail' \in [Queues -> Nat]
        /\ \A r \in Queues : tail'[r] \in Offsets(Size(r))
        /\ cmd' \in Cmds
        /\ cid' \in Offsets(CidSpace)
    BY <2>1, SubmitType
  <2>3. page' \in [Offsets(MaxChunk) -> Values]
    <3>1. CASE req.write
      <4>1. \A i \in Offsets(MaxChunk) : i < ChunkLen => Done + i \in Offsets(req.count)
        <5>1. \A i \in Offsets(MaxChunk) : i < ChunkLen => i \in Offsets(ChunkLen)
          BY <2>1 DEF Offsets
        <5> QED  BY <5>1, ChunkType
      <4> QED  BY <3>1, <4>1 DEF TypeOK
    <3>2. CASE ~req.write
      BY <3>2 DEF TypeOK
    <3> QED  BY <3>1, <3>2
  <2> QED  BY <2>2, <2>3 DEF TypeOK, dev
<1>7. CASE Finish
  BY <1>7 DEF Finish, TypeOK, rings, dev
<1>8. CASE IoDone
  <2> USE <1>8 DEF IoDone
  <2>1. /\ head' \in [Queues -> Nat]
        /\ phase' \in [Queues -> {0, 1}]
        /\ \A r \in Queues : head'[r] \in Offsets(Size(r))
    BY ConsumeType
  <2>2. Copied \in [Offsets(req.count) -> Values]
    <3>1. \A i \in Offsets(req.count) :
             i \in Done .. Done + ChunkLen - 1 => i - Done \in Offsets(MaxChunk)
      <4>1. Done \in Nat /\ ChunkLen \in 0 .. MaxChunk /\ req.count \in Nat /\ MaxChunk \in Nat
        BY ChunkType, DataAssumption DEF TypeOK
      <4> HIDE DEF Done, ChunkLen
      <4> QED  BY <4>1 DEF Offsets
    <3> QED  BY <3>1 DEF Copied, TypeOK
  <2>3. req.left - ChunkLen \in 0 .. req.count
    BY ChunkType DEF TypeOK
  <2>4. /\ req' = [write |-> req.write, start |-> req.start, count |-> req.count,
                   left |-> req.left, buf |-> req.buf]'
        /\ req'.write \in BOOLEAN
        /\ req'.start \in Nat /\ req'.count \in Nat /\ req'.left \in 0 .. req'.count
        /\ req'.buf \in [Offsets(req'.count) -> Values]
    <3>1. CASE cq["io"][head["io"]].ok
      <4>1. req' = [write |-> req.write, start |-> req.start, count |-> req.count,
                    left |-> req.left - ChunkLen, buf |-> Copied]
        BY <3>1 DEF TypeOK
      <4> QED  BY <4>1, <2>2, <2>3 DEF TypeOK
    <3>2. CASE ~cq["io"][head["io"]].ok
      BY <3>2 DEF TypeOK
    <3> QED  BY <3>1, <3>2
  <2>5. pc' \in {"chunk", "idle"} /\ ret' \in {"none", "ok", "failed"}
    BY DEF TypeOK
  <2> QED  BY <2>1, <2>4, <2>5 DEF TypeOK, dev
<1>9. CASE IoTimeout
  BY <1>9 DEF IoTimeout, TypeOK, rings, dev
<1>10. CASE Controller
  <2> PICK q \in Queues, ok \in BOOLEAN : Serve(q, ok)
    BY <1>10 DEF Controller
  <2> DEFINE c == sq[q][fetch[q]]
  <2>1. c \in Cmds
    BY DEF TypeOK
  <2>2. c.n \in 0 .. MaxChunk /\ c.lba \in Nat /\ c.cid \in Offsets(CidSpace)
    BY <2>1 DEF Cmds
  <2>3. ok => c.lba + c.n <= Capacity
    BY DEF Serve
  <2>4. Succ(q, fetch[q]) \in Offsets(Size(q)) /\ Succ(q, post[q]) \in Offsets(Size(q))
    BY SuccType DEF TypeOK
  <2>5. /\ fetch' = [fetch EXCEPT ![q] = Succ(q, fetch[q])]
        /\ post' = [post EXCEPT ![q] = Succ(q, post[q])]
    BY DEF Serve, Succ
  <2>6. Succ(q, fetch[q]) \in Nat /\ Succ(q, post[q]) \in Nat
    BY <2>4 DEF Offsets
  <2>7. /\ fetch' \in [Queues -> Nat] /\ post' \in [Queues -> Nat]
        /\ \A r \in Queues : fetch'[r] \in Offsets(Size(r)) /\ post'[r] \in Offsets(Size(r))
    BY <2>4, <2>5, <2>6 DEF TypeOK
  <2>8. tag' \in [Queues -> {0, 1}]
    <3>1. tag \in [Queues -> {0, 1}]
      BY Zenon DEF TypeOK
    <3>2. tag' = [tag EXCEPT ![q] = IF (post[q] + 1) % Size(q) = 0 THEN 1 - tag[q] ELSE tag[q]]
      BY DEF Serve
    <3>3. 1 - tag[q] \in {0, 1} /\ tag[q] \in {0, 1}
      BY ONLY <3>1, q \in Queues
    <3> QED  BY ONLY <3>1, <3>2, <3>3
  <2>9. DOMAIN cq' = Queues /\ \A r \in Queues : cq'[r] \in [Offsets(Size(r)) -> Cqes]
    <3> DEFINE e == [phase |-> tag[q], cid |-> c.cid, ok |-> ok]
    <3>1. e \in Cqes
      BY <2>2 DEF Cqes, TypeOK
    <3>2. cq' = [cq EXCEPT ![q] = [cq[q] EXCEPT ![post[q]] = e]]
      BY DEF Serve
    <3>3. [cq[q] EXCEPT ![post[q]] = e] \in [Offsets(Size(q)) -> Cqes]
      BY <3>1 DEF TypeOK
    <3> HIDE DEF e
    <3> QED  BY <3>2, <3>3 DEF TypeOK
  <2>10. disk' \in [Blocks -> Values]
    <3>1. CASE ok /\ c.op = "write"
      <4>1. \A b \in Blocks : b \in c.lba .. c.lba + c.n - 1 => b - c.lba \in Offsets(MaxChunk)
        BY <2>2, DataAssumption DEF Offsets, Blocks
      <4>2. disk' = [b \in Blocks |-> IF b \in c.lba .. c.lba + c.n - 1
                                      THEN page[b - c.lba] ELSE disk[b]]
        BY <3>1 DEF Serve
      <4> HIDE DEF c
      <4> QED  BY <4>1, <4>2 DEF TypeOK
    <3>2. CASE ~(ok /\ c.op = "write")
      BY <3>2 DEF Serve, TypeOK
    <3> QED  BY <3>1, <3>2
  <2>11. page' \in [Offsets(MaxChunk) -> Values]
    <3>1. CASE ok /\ c.op = "read"
      <4>1. \A i \in Offsets(MaxChunk) : i < c.n => c.lba + i \in Blocks
        BY <2>2, <2>3, <3>1, DataAssumption DEF Offsets, Blocks
      <4>2. page' = [i \in Offsets(MaxChunk) |-> IF i < c.n THEN disk[c.lba + i] ELSE page[i]]
        BY <3>1 DEF Serve
      <4> HIDE DEF c
      <4> QED  BY <4>1, <4>2 DEF TypeOK
    <3>2. CASE ~(ok /\ c.op = "read")
      BY <3>2 DEF Serve, TypeOK
    <3> QED  BY <3>1, <3>2
  <2> HIDE DEF c
  <2> QED  BY <2>7, <2>8, <2>9, <2>10, <2>11 DEF Serve, TypeOK
<1>11. CASE UNCHANGED vars
  BY <1>11 DEF vars, rings, dev, TypeOK
<1> QED
  BY <1>1, <1>2, <1>3, <1>4, <1>5, <1>6, <1>7, <1>8, <1>9, <1>10, <1>11 DEF Next, Driver

\* The types hold whether or not the controller is slow.
THEOREM TypeCorrect == Spec => []TypeOK
  BY InitType, NextType, PTL DEF Spec

-----------------------------------------------------------------------------
(***************************************************************************)
(* The rings.  A poll sees a completion exactly when the controller has    *)
(* served the command (io_submit's comparison of phases).                  *)
(***************************************************************************)
\* A queued command has no completion at the head, a served one has its own.
LEMMA VisibleIff ==
    ASSUME TypeOK, RingInv, NEW q \in Queues
    PROVE  /\ Queued(q) => ~Visible(q)
           /\ Served(q) => Visible(q)
           /\ Idle(q) => ~Visible(q)
           /\ ~(Queued(q) /\ Served(q))
<1>1. /\ head[q] \in Offsets(Size(q)) /\ post[q] \in Offsets(Size(q))
      /\ phase[q] \in {0, 1} /\ tag[q] \in {0, 1}
  BY DEF TypeOK
<1>2. cq[q][head[q]].phase = IF head[q] < post[q] THEN tag[q] ELSE 1 - tag[q]
  BY <1>1 DEF RingInv
<1>3. /\ Succ(q, head[q]) # head[q]
      /\ Succ(q, head[q]) = IF head[q] + 1 = Size(q) THEN 0 ELSE head[q] + 1
  BY <1>1, SuccType
<1>4. head[q] \in Nat /\ post[q] \in Nat
  BY <1>1 DEF Offsets
<1>5. ASSUME post[q] = head[q], tag[q] = phase[q] PROVE ~Visible(q)
  BY <1>1, <1>2, <1>4, <1>5 DEF Visible
<1>6. ASSUME Served(q) PROVE Visible(q)
  BY <1>1, <1>2, <1>3, <1>4, <1>6 DEF Visible, Served
<1>7. ~(Queued(q) /\ Served(q))
  BY <1>3 DEF Queued, Served
<1> QED  BY <1>5, <1>6, <1>7 DEF Queued, Idle

\* Init establishes the ring invariant.
LEMMA InitRing == Init => RingInv
<1> SUFFICES ASSUME Init PROVE RingInv
  OBVIOUS
<1>1. \A q \in Queues : \A i \in Offsets(Size(q)) : cq[q][i].phase = 0 /\ ~(i < 0)
  BY DEF Init, EmptyCq, Offsets
<1> QED  BY <1>1 DEF Init, RingInv, Idle, Waiting

\* A submission on an idle ring leaves it queued (Submit).
LEMMA SubmitRing ==
    ASSUME TypeOK, RingInv, NEW q \in Queues, NEW op, NEW lba, NEW n,
           ~Waiting(q), Submit(q, op, lba, n),
           UNCHANGED <<cq, head, phase, dev>>
    PROVE  /\ Queued(q)'
           /\ \A r \in Queues \ {q} : Idle(r) => Idle(r)'
<1>1. Idle(q)
  BY DEF RingInv
<1>2. /\ tail' = [tail EXCEPT ![q] = Succ(q, tail[q])]
      /\ sq' = [sq EXCEPT ![q][tail[q]] = cmd']
  BY DEF Submit, Succ
<1>3. /\ tail \in [Queues -> Nat]
      /\ DOMAIN sq = Queues
      /\ tail[q] \in DOMAIN sq[q]
  BY DEF TypeOK
<1>4. tail'[q] = Succ(q, head[q]) /\ sq'[q][head[q]] = cmd'
  BY <1>1, <1>2, <1>3 DEF Idle
<1>5. Queued(q)'
  BY <1>1, <1>4 DEF Idle, Queued, dev, Succ
<1>6. ASSUME NEW r \in Queues \ {q}, Idle(r) PROVE Idle(r)'
  BY <1>2, <1>3, <1>6 DEF Idle, dev
<1> QED  BY <1>5, <1>6

\* Consuming the completion of a served command leaves the ring idle (Consume).
LEMMA ConsumeRing ==
    ASSUME TypeOK, RingInv, NEW q \in Queues, Served(q), Consume(q),
           UNCHANGED <<tail, dev>>
    PROVE  /\ Idle(q)'
           /\ \A r \in Queues \ {q} : Idle(r) => Idle(r)'
<1>1. /\ head' = [head EXCEPT ![q] = Succ(q, head[q])]
      /\ phase' = [phase EXCEPT ![q] = IF Succ(q, head[q]) = 0 THEN 1 - @ ELSE @]
  BY DEF Consume, Succ
<1>2. head \in [Queues -> Nat] /\ phase \in [Queues -> {0, 1}]
  BY DEF TypeOK
<1>3. Idle(q)'
  BY <1>1, <1>2 DEF Idle, Served, dev
<1>4. ASSUME NEW r \in Queues \ {q}, Idle(r) PROVE Idle(r)'
  BY <1>1, <1>2, <1>4 DEF Idle, dev
<1> QED  BY <1>3, <1>4

\* The part of the ring invariant that only the controller writes.
PhaseInv ==
    \A q \in Queues :
        /\ fetch[q] = post[q]
        /\ \A i \in Offsets(Size(q)) :
              cq[q][i].phase = IF i < post[q] THEN tag[q] ELSE 1 - tag[q]

\* The phases of the completion ring depend on the controller's side only.
LEMMA PhaseKept == RingInv /\ UNCHANGED <<cq, dev>> => PhaseInv'
  BY DEF RingInv, PhaseInv, dev

\* A completion turns a queued command into a served one (Serve).
LEMMA ServeRing ==
    ASSUME TypeOK, RingInv, NEW q \in Queues, NEW ok \in BOOLEAN, Serve(q, ok)
    PROVE  /\ Waiting(q) /\ Queued(q)
           /\ Served(q)'
           /\ cq'[q][head[q]] = [phase |-> tag[q], cid |-> cmd.cid, ok |-> ok]
           /\ PhaseInv'
           /\ \A r \in Queues \ {q} :
                 /\ Idle(r) => Idle(r)'
                 /\ Queued(r) => Queued(r)'
                 /\ Served(r) => Served(r)'
<1> DEFINE e == [phase |-> tag[q], cid |-> sq[q][fetch[q]].cid, ok |-> ok]
<1>1. fetch[q] # tail[q] /\ fetch[q] = post[q]
  BY DEF Serve, RingInv
<1>2. Waiting(q) /\ Queued(q)
  <2>1. ~Idle(q) /\ ~Served(q)
    BY <1>1 DEF Idle, Served
  <2> QED  BY <2>1 DEF RingInv
<1>3. /\ post[q] \in Offsets(Size(q)) /\ post[q] = head[q] /\ fetch[q] = head[q]
      /\ tag[q] \in {0, 1} /\ post \in [Queues -> Nat] /\ fetch \in [Queues -> Nat]
      /\ tag \in [Queues -> {0, 1}] /\ tag[q] = phase[q]
      /\ sq[q][head[q]] = cmd /\ tail[q] = Succ(q, head[q])
      /\ DOMAIN cq = Queues /\ DOMAIN cq[q] = Offsets(Size(q))
  BY <1>1, <1>2 DEF TypeOK, Queued
<1>4. /\ fetch' = [fetch EXCEPT ![q] = Succ(q, fetch[q])]
      /\ post' = [post EXCEPT ![q] = Succ(q, post[q])]
      /\ tag' = [tag EXCEPT ![q] = IF Succ(q, post[q]) = 0 THEN 1 - @ ELSE @]
      /\ cq' = [cq EXCEPT ![q] = [cq[q] EXCEPT ![post[q]] = e]]
  BY DEF Serve, Succ
<1>5. UNCHANGED <<sq, tail, head, phase, pc, cmd>>
  BY DEF Serve
<1>6. cq'[q] = [cq[q] EXCEPT ![post[q]] = e] /\ cq'[q][head[q]] = e
  BY <1>3, <1>4
<1>7. e = [phase |-> tag[q], cid |-> cmd.cid, ok |-> ok]
  BY <1>3
<1>8. /\ post'[q] = Succ(q, head[q]) /\ fetch'[q] = post'[q]
      /\ tag'[q] = IF Succ(q, head[q]) = 0 THEN 1 - tag[q] ELSE tag[q]
  BY <1>3, <1>4
<1>9. Served(q)'
  <2> HIDE DEF e
  <2>1. cq'[q][head[q]].cid = cmd.cid
    BY <1>6, <1>7
  <2> QED  BY <1>3, <1>5, <1>8, <2>1 DEF Served, Succ
<1>10. \A i \in Offsets(Size(q)) :
          cq'[q][i].phase = IF i < post'[q] THEN tag'[q] ELSE 1 - tag'[q]
  <2> SUFFICES ASSUME NEW i \in Offsets(Size(q))
               PROVE  cq'[q][i].phase = IF i < post'[q] THEN tag'[q] ELSE 1 - tag'[q]
    OBVIOUS
  <2>1. cq[q][i].phase = IF i < head[q] THEN tag[q] ELSE 1 - tag[q]
    BY <1>3 DEF RingInv
  <2>2. Succ(q, head[q]) = IF head[q] + 1 = Size(q) THEN 0 ELSE head[q] + 1
    BY <1>3, SuccType
  <2>3. i \in Nat /\ i < Size(q) /\ head[q] \in Nat /\ head[q] < Size(q) /\ Size(q) \in Nat
    BY <1>3, SizeAssumption DEF Offsets, Size
  <2>4. cq'[q][i].phase = IF i = head[q] THEN tag[q] ELSE cq[q][i].phase
    <3>1. cq'[q][i] = IF i = head[q] THEN e ELSE cq[q][i]
      BY ONLY <1>3, <1>6, i \in Offsets(Size(q))
    <3>2. e.phase = tag[q]
      BY ONLY <1>7
    <3> HIDE DEF e
    <3> QED  BY ONLY <3>1, <3>2
  <2>5. /\ post'[q] = Succ(q, head[q])
        /\ tag'[q] = IF Succ(q, head[q]) = 0 THEN 1 - tag[q] ELSE tag[q]
        /\ tag[q] \in {0, 1}
    BY <1>3, <1>8
  <2>6. CASE head[q] + 1 = Size(q)
    <3>1. post'[q] = 0 /\ tag'[q] = 1 - tag[q]
      BY <2>2, <2>5, <2>6
    <3> QED  BY <2>1, <2>3, <2>4, <2>5, <2>6, <3>1
  <2>7. CASE head[q] + 1 # Size(q)
    <3>1. post'[q] = head[q] + 1 /\ tag'[q] = tag[q]
      BY <2>2, <2>3, <2>5, <2>7
    <3> QED  BY <2>1, <2>3, <2>4, <2>5, <2>7, <3>1
  <2> QED  BY ONLY <2>6, <2>7
<1>11. \A r \in Queues \ {q} :
          /\ fetch'[r] = fetch[r] /\ post'[r] = post[r] /\ tag'[r] = tag[r] /\ cq'[r] = cq[r]
  <2> TAKE r \in Queues \ {q}
  <2>1. fetch'[r] = fetch[r] /\ post'[r] = post[r]
    BY <1>3, <1>4
  <2>2. tag'[r] = tag[r]
    BY <1>3, <1>4
  <2> HIDE DEF e
  <2>3. cq'[r] = cq[r]
    BY <1>3, <1>4
  <2> QED  BY <2>1, <2>2, <2>3
<1>12. PhaseInv'
  BY <1>8, <1>10, <1>11 DEF PhaseInv, RingInv
<1>13. ASSUME NEW r \in Queues \ {q}
       PROVE  /\ Idle(r) => Idle(r)'
              /\ Queued(r) => Queued(r)'
              /\ Served(r) => Served(r)'
  BY <1>5, <1>11 DEF Idle, Queued, Served, Succ
<1> QED  BY <1>2, <1>6, <1>7, <1>9, <1>12, <1>13

\* Without a timeout every step preserves the ring invariant.
LEMMA NextRing ==
    ASSUME ~Slow, TypeOK, RingInv, [Next]_vars
    PROVE  RingInv'
<1> SUFFICES /\ PhaseInv'
             /\ \A q \in Queues : IF Waiting(q)' THEN Queued(q)' \/ Served(q)' ELSE Idle(q)'
  BY DEF RingInv, PhaseInv
<1> USE DEF Waiting
<1>0. \A q \in Queues : IF Waiting(q) THEN Queued(q) \/ Served(q) ELSE Idle(q)
  BY DEF RingInv
<1>1. CASE AdminSubmit
  <2>1. PhaseInv'
    BY <1>1, PhaseKept DEF AdminSubmit
  <2>2. Queued("admin")' /\ Idle("io")'
    BY <1>0, <1>1, SubmitRing DEF AdminSubmit
  <2> QED  BY <1>1, <2>1, <2>2 DEF AdminSubmit
<1>2. CASE AdminDone
  <2>1. PhaseInv'
    BY <1>2, PhaseKept DEF AdminDone
  <2>2. Served("admin")
    BY <1>0, <1>2, VisibleIff DEF AdminDone
  <2>3. Idle("admin")' /\ Idle("io")'
    BY <1>0, <1>2, <2>2, ConsumeRing DEF AdminDone
  <2> QED  BY <1>2, <2>1, <2>3 DEF AdminDone
<1>3. CASE WarmUp
  <2>1. PhaseInv'
    BY <1>3, PhaseKept DEF WarmUp
  <2>2. ~Visible("io") /\ Idle("admin") /\ Idle("io")
    BY <1>0, <1>3, VisibleIff DEF WarmUp
  <2>3. Idle("admin")' /\ Idle("io")'
    BY <1>3, <2>2 DEF WarmUp, Idle, dev
  <2> QED  BY <1>3, <2>1, <2>3 DEF WarmUp
<1>4. CASE NewRequest
  <2>1. UNCHANGED <<rings, dev>> /\ pc = "idle" /\ pc' = "chunk"
    BY <1>4 DEF NewRequest, Request
  <2>2. PhaseInv'
    BY <2>1, PhaseKept DEF rings
  <2> QED  BY <1>0, <2>1, <2>2 DEF Idle, rings, dev
<1>5. CASE Chunk
  <2>1. PhaseInv'
    BY <1>5, PhaseKept DEF Chunk
  <2>2. Queued("io")' /\ Idle("admin")'
    BY <1>0, <1>5, SubmitRing DEF Chunk
  <2> QED  BY <1>5, <2>1, <2>2 DEF Chunk
<1>6. CASE Finish
  <2>1. PhaseInv'
    BY <1>6, PhaseKept DEF Finish, rings
  <2> QED  BY <1>0, <1>6, <2>1 DEF Finish, Idle, rings, dev
<1>7. CASE IoDone
  <2>1. PhaseInv'
    BY <1>7, PhaseKept DEF IoDone
  <2>2. Served("io")
    BY <1>0, <1>7, VisibleIff DEF IoDone
  <2>3. Idle("admin")' /\ Idle("io")'
    BY <1>0, <1>7, <2>2, ConsumeRing DEF IoDone
  <2> QED  BY <1>7, <2>1, <2>3 DEF IoDone
<1>8. CASE Controller
  <2> PICK q \in Queues, ok \in BOOLEAN : Serve(q, ok)
    BY <1>8 DEF Controller
  <2>1. pc' = pc
    BY DEF Serve
  <2> QED  BY <1>0, <2>1, ServeRing
<1>9. CASE UNCHANGED vars
  <2>1. PhaseInv'
    BY <1>9, PhaseKept DEF vars, rings
  <2> QED  BY <1>0, <1>9, <2>1 DEF vars, rings, dev, Idle, Queued, Served, Succ
<1>10. ~AdminTimeout /\ ~IoTimeout
  BY DEF AdminTimeout, IoTimeout
<1> QED
  BY <1>1, <1>2, <1>3, <1>4, <1>5, <1>6, <1>7, <1>8, <1>9, <1>10 DEF Next, Driver

\* Each poll ends with the completion of the command it was started for.
THEOREM OwnCompletionHolds == ~Slow => (Spec => []OwnCompletion)
<1> SUFFICES ASSUME ~Slow PROVE Spec => []OwnCompletion
  OBVIOUS
<1>1. Init => TypeOK /\ RingInv
  BY InitType, InitRing
<1>2. TypeOK /\ RingInv /\ [Next]_vars => TypeOK' /\ RingInv'
  BY NextType, NextRing
<1>3. TypeOK /\ RingInv => OwnCompletion
  <2> SUFFICES ASSUME TypeOK, RingInv, NEW q \in Queues, pc = q, Visible(q)
               PROVE  cq[q][head[q]].cid = cmd.cid
    BY DEF OwnCompletion
  <2>1. Queued(q) \/ Served(q)
    BY DEF RingInv, Waiting
  <2> QED  BY <2>1, VisibleIff DEF Served
<1> QED  BY <1>1, <1>2, <1>3, PTL DEF Spec

-----------------------------------------------------------------------------
(***************************************************************************)
(* The data.                                                               *)
(***************************************************************************)
\* The command the controller serves on the I/O ring is the chunk's, and it
\* leaves the page and the blocks of the chunk equal.
LEMMA ServeChunk ==
    ASSUME TypeOK, RingInv, ChunkInv, NEW ok \in BOOLEAN, Serve("io", ok)
    PROVE  /\ pc = "io" /\ Queued("io") /\ ~Visible("io")
           /\ cq'["io"][head'["io"]].ok = ok
           /\ ok => cmd.lba + cmd.n <= Capacity
           /\ ok /\ ~req.write => disk' = disk
           /\ ok /\ req.write =>
                 /\ page' = page
                 /\ disk' = [b \in Blocks |->
                               IF b \in cmd.lba .. cmd.lba + cmd.n - 1
                               THEN page[b - cmd.lba] ELSE disk[b]]
           /\ ok => \A i \in Offsets(ChunkLen) : page'[i] = disk'[req.start + Done + i]
           /\ ~ok => disk' = disk /\ page' = page
<1>1. /\ pc = "io" /\ Queued("io")
      /\ cq'["io"][head["io"]] = [phase |-> tag["io"], cid |-> cmd.cid, ok |-> ok]
  BY ServeRing DEF Waiting
<1>2. ~Visible("io")
  BY <1>1, VisibleIff
<1>3. head' = head
  BY DEF Serve
<1>4. sq["io"][fetch["io"]] = cmd
  BY <1>1 DEF Queued, RingInv
<1>5. /\ ok => cmd.lba + cmd.n <= Capacity
      /\ disk' = IF ok /\ cmd.op = "write"
                 THEN [b \in Blocks |-> IF b \in cmd.lba .. cmd.lba + cmd.n - 1
                                        THEN page[b - cmd.lba] ELSE disk[b]]
                 ELSE disk
      /\ page' = IF ok /\ cmd.op = "read"
                 THEN [i \in Offsets(MaxChunk) |->
                          IF i < cmd.n THEN disk[cmd.lba + i] ELSE page[i]]
                 ELSE page
  BY <1>4 DEF Serve
<1>6. /\ cmd.op = IF req.write THEN "write" ELSE "read"
      /\ cmd.lba = req.start + Done /\ cmd.n = ChunkLen
  BY <1>1 DEF ChunkInv
<1>7. /\ ChunkLen \in 0 .. MaxChunk /\ req.start + Done \in Nat /\ MaxChunk \in Nat
      /\ Capacity \in Nat
  <2>1. ChunkLen \in 0 .. MaxChunk /\ Done \in Nat
    BY ChunkType
  <2>2. req.start \in Nat
    BY NumberTypes
  <2> QED  BY ONLY <2>1, <2>2, BoundTypes
<1>8. ASSUME ok, NEW i \in Offsets(ChunkLen)
      PROVE  page'[i] = disk'[req.start + Done + i]
  <2> HIDE DEF Done, ChunkLen
  <2>1. /\ i \in Offsets(MaxChunk) /\ i < cmd.n
        /\ cmd.lba + i \in Blocks /\ cmd.lba + i \in cmd.lba .. cmd.lba + cmd.n - 1
        /\ (cmd.lba + i) - cmd.lba = i
    BY <1>5, <1>6, <1>7, <1>8 DEF Offsets, Blocks
  <2>2. CASE req.write
    BY <1>5, <1>6, <1>8, <2>1, <2>2
  <2>3. CASE ~req.write
    BY <1>5, <1>6, <1>8, <2>1, <2>3
  <2> QED  BY <2>2, <2>3
<1>9. cq'["io"][head'["io"]].ok = ok
  BY <1>1, <1>3
<1> QED  BY <1>1, <1>2, <1>5, <1>6, <1>8, <1>9

DataInv == ChunkInv /\ AdminInv /\ DoneInv

\* Init establishes the data invariant.
LEMMA InitData == Init => DataInv
  BY DEF Init, DataInv, ChunkInv, AdminInv, DoneInv

\* A submitted chunk has its data in the page (nvme_rw_blocks).
LEMMA ChunkData ==
    ASSUME TypeOK, RingInv, DataInv, RingInv', TypeOK', Chunk
    PROVE  DataInv'
<1>1. /\ pc = "chunk" /\ pc' = "io" /\ req' = req /\ ret' = ret /\ disk' = disk /\ req.left > 0
      /\ cmd' = [op |-> IF req.write THEN "write" ELSE "read", cid |-> cid,
                 lba |-> req.start + Done, n |-> ChunkLen]
  BY DEF Chunk, Submit
<1>2. Done' = Done /\ ChunkLen' = ChunkLen
  BY <1>1 DEF Done, ChunkLen
<1>3. Queued("io")'
  BY SubmitRing DEF Chunk, Waiting
<1>4. ~Served("io")'
  <2>1. head'["io"] \in Offsets(Size("io"))
    BY DEF TypeOK
  <2>2. Succ("io", head'["io"]) # head'["io"]
    BY <2>1, SuccType
  <2> QED  BY <1>3, <2>2 DEF Queued, Served, Succ
<1>5. ASSUME req.write, NEW i \in Offsets(ChunkLen) PROVE page'[i] = req.buf[Done + i]
  <2>1. i \in Offsets(MaxChunk) /\ i < ChunkLen
    <3>1. ChunkLen \in 0 .. MaxChunk /\ MaxChunk \in Nat
      BY ChunkType, DataAssumption
    <3> HIDE DEF ChunkLen
    <3> QED  BY <3>1, <1>5 DEF Offsets
  <2> QED  BY <1>5, <2>1 DEF Chunk
<1>6. ChunkInv'
  BY <1>1, <1>2, <1>4, <1>5 DEF ChunkInv
<1>7. DoneInv'
  BY <1>1, <1>2 DEF DoneInv, DataInv
<1> QED  BY <1>1, <1>6, <1>7 DEF DataInv, AdminInv

\* Serving a command keeps the data invariant (Serve).
LEMMA ServeData ==
    ASSUME TypeOK, RingInv, DataInv, NEW q \in Queues, NEW ok \in BOOLEAN, Serve(q, ok)
    PROVE  DataInv'
<1>1. UNCHANGED <<pc, cmd, req, ret, head>>
  BY DEF Serve
<1>2. Done' = Done /\ ChunkLen' = ChunkLen
  BY <1>1 DEF Done, ChunkLen
<1>3. AdminInv'
  BY <1>1 DEF AdminInv, DataInv
<1>4. CASE q = "admin"
  <2>1. pc = "admin"
    BY <1>4, ServeRing DEF Waiting
  <2>2. ret # "ok"
    BY <2>1 DEF DataInv, DoneInv
  <2> QED  BY <1>1, <1>3, <2>1, <2>2 DEF DataInv, ChunkInv, DoneInv
<1>5. CASE q = "io"
  <2>1. Serve("io", ok) /\ ChunkInv
    BY <1>5 DEF DataInv
  <2>2. /\ pc = "io" /\ Queued("io")
        /\ cq'["io"][head'["io"]].ok = ok
        /\ ok => cmd.lba + cmd.n <= Capacity
        /\ ok /\ ~req.write => disk' = disk
        /\ ok /\ req.write =>
              /\ page' = page
              /\ disk' = [b \in Blocks |->
                            IF b \in cmd.lba .. cmd.lba + cmd.n - 1
                            THEN page[b - cmd.lba] ELSE disk[b]]
        /\ ok => \A i \in Offsets(ChunkLen) : page'[i] = disk'[req.start + Done + i]
        /\ ~ok => disk' = disk /\ page' = page
    BY <2>1, ServeChunk
  <2>3. /\ req.left > 0
        /\ cmd.lba = req.start + Done
        /\ cmd.n = ChunkLen
        /\ cmd.op = IF req.write THEN "write" ELSE "read"
        /\ req.write => \A i \in Offsets(ChunkLen) : page[i] = req.buf[Done + i]
    BY <2>2 DEF DataInv, ChunkInv
  <2>4. ~Queued("io")'
    <3>1. Served("io")'
      BY <2>1, ServeRing
    <3>2. head["io"] \in Offsets(Size("io"))
      BY DEF TypeOK
    <3>3. Succ("io", head["io"]) # head["io"]
      BY <3>2, SuccType
    <3> QED  BY <1>1, <3>1, <3>3 DEF Queued, Served, Succ
  <2>5. ChunkInv'
    <3>1. ok /\ req.write => \A i \in Offsets(ChunkLen) : page'[i] = req.buf[Done + i]
      BY <2>2, <2>3
    <3> HIDE DEF Done, ChunkLen
    <3> QED  BY <1>1, <1>2, <2>2, <2>3, <2>4, <3>1 DEF ChunkInv
  <2>6. DoneInv'
    <3>1. /\ Done \in Nat /\ req.start \in Nat /\ Capacity \in Nat
      BY ChunkType, DataAssumption DEF TypeOK
    <3>2. /\ ret # "ok"
          /\ Done > 0 => req.start + Done <= Capacity
          /\ \A i \in Offsets(Done) : disk[req.start + i] = req.buf[i]
      BY <2>2 DEF DataInv, DoneInv
    <3>3. ASSUME NEW i \in Offsets(Done) PROVE disk'[req.start + i] = disk[req.start + i]
      <4> HIDE DEF Done, ChunkLen
      <4>1. req.start + i \in Blocks /\ req.start + i \notin cmd.lba .. cmd.lba + cmd.n - 1
        BY <2>3, <3>1, <3>2 DEF Offsets, Blocks
      <4> QED  BY <2>2, <4>1
    <3> HIDE DEF Done, ChunkLen
    <3> QED  BY <1>1, <1>2, <2>2, <3>2, <3>3 DEF DoneInv
  <2> QED  BY <1>3, <2>5, <2>6 DEF DataInv
<1> QED  BY <1>4, <1>5

\* A completion in hand, the chunk joins the chunks done (nvme_rw_blocks,
\* bsp_nvme_read, bsp_nvme_write).
LEMMA IoDoneData ==
    ASSUME TypeOK, RingInv, DataInv, IoDone
    PROVE  DataInv'
<1>1. pc = "io" /\ Served("io") /\ UNCHANGED <<disk, cmd>>
  BY VisibleIff DEF IoDone, RingInv, Waiting
<1>2. CASE ~cq["io"][head["io"]].ok
  BY <1>1, <1>2 DEF IoDone, DataInv, ChunkInv, AdminInv, DoneInv
<1>3. CASE cq["io"][head["io"]].ok
  <2>1. /\ cmd.lba + cmd.n <= Capacity /\ cmd.lba = req.start + Done /\ cmd.n = ChunkLen
        /\ \A i \in Offsets(ChunkLen) :
              /\ page[i] = disk[req.start + Done + i]
              /\ req.write => page[i] = req.buf[Done + i]
    BY <1>1, <1>3 DEF DataInv, ChunkInv
  <2>2. /\ Done \in Nat /\ Done + req.left = req.count /\ ChunkLen \in 0 .. MaxChunk
        /\ ChunkLen <= req.left /\ MaxChunk \in Nat /\ req.start \in Nat
        /\ req.count \in Nat /\ req.left \in Nat
    <3>1. /\ Done \in Nat /\ Done + req.left = req.count /\ ChunkLen \in 0 .. MaxChunk
          /\ ChunkLen <= req.left
      BY ChunkType
    <3>2. req.start \in Nat /\ req.count \in Nat /\ req.left \in Nat
      BY NumberTypes
    <3> QED  BY ONLY <3>1, <3>2, BoundTypes
  <2>3. /\ ret # "ok"
        /\ \A i \in Offsets(Done) : disk[req.start + i] = req.buf[i]
    BY <1>1 DEF DataInv, DoneInv
  <2>4. /\ req'.start = req.start /\ req'.count = req.count
        /\ req'.left = req.left - ChunkLen /\ req'.buf = Copied
        /\ pc' = "chunk" /\ ret' = ret
    <3>1. req' = [write |-> req.write, start |-> req.start, count |-> req.count,
                  left |-> req.left - ChunkLen, buf |-> Copied]
      BY <1>3 DEF IoDone, TypeOK
    <3> QED  BY <1>3, <3>1 DEF IoDone
  <2>5. Done' = Done + ChunkLen
    <3>1. Done' = req.count - (req.left - ChunkLen)
      BY <2>4 DEF Done
    <3>2. req.count - (req.left - ChunkLen) = (req.count - req.left) + ChunkLen
      <4> HIDE DEF ChunkLen
      <4> QED  BY <2>2
    <3> QED  BY <3>1, <3>2 DEF Done
  <2>6. ASSUME NEW i \in Offsets(Done + ChunkLen)
        PROVE  disk[req.start + i] = Copied[i]
    <3>1. i \in Offsets(req.count)
      <4> HIDE DEF Done, ChunkLen
      <4> QED  BY <2>2 DEF Offsets
    <3>2. CASE i \in Offsets(Done)
      <4>1. i \notin Done .. Done + ChunkLen - 1
        <5> HIDE DEF Done, ChunkLen
        <5> QED  BY <2>2, <3>2 DEF Offsets
      <4> QED  BY <2>3, <3>1, <3>2, <4>1 DEF Copied
    <3>3. CASE i \notin Offsets(Done)
      <4>1. /\ i - Done \in Offsets(ChunkLen) /\ Done + (i - Done) = i
            /\ req.start + Done + (i - Done) = req.start + i
            /\ i \in Done .. Done + ChunkLen - 1
        <5> HIDE DEF Done, ChunkLen
        <5> QED  BY <2>2, <3>3 DEF Offsets
      <4>2. /\ page[i - Done] = disk[req.start + i]
            /\ req.write => page[i - Done] = req.buf[i]
        BY <2>1, <4>1
      <4>3. Copied[i] = IF req.write THEN req.buf[i] ELSE page[i - Done]
        BY <3>1, <4>1 DEF Copied
      <4> QED  BY <4>2, <4>3
    <3> QED  BY <3>2, <3>3
  <2>7. req.start + (Done + ChunkLen) <= Capacity
    <3> HIDE DEF Done, ChunkLen
    <3> QED  BY <2>1, <2>2
  <2> HIDE DEF Done, ChunkLen, Copied
  <2> QED  BY <1>1, <2>3, <2>4, <2>5, <2>6, <2>7 DEF DataInv, ChunkInv, AdminInv, DoneInv
<1> QED  BY <1>2, <1>3

\* Without a timeout every step preserves the data invariant.
LEMMA NextData ==
    ASSUME ~Slow, TypeOK, RingInv, DataInv, [Next]_vars
    PROVE  DataInv'
<1>0. TypeOK' /\ RingInv'
  BY NextType, NextRing
<1> USE DEF DataInv, ChunkInv, AdminInv, DoneInv
<1>1. CASE AdminSubmit
  BY <1>1 DEF AdminSubmit, Submit
<1>2. CASE AdminDone
  BY <1>2 DEF AdminDone
<1>3. CASE WarmUp
  <2>1. ret # "ok"
    BY <1>3 DEF WarmUp
  <2> QED  BY <1>3, <2>1 DEF WarmUp
<1>4. CASE NewRequest
  <2> PICK write \in BOOLEAN, lba \in Blocks, count \in 0 .. MaxCount :
         \E buf \in Bufs(write, count) : Request(write, lba, buf, count)
    BY <1>4 DEF NewRequest
  <2> PICK buf \in Bufs(write, count) : Request(write, lba, buf, count)
    OBVIOUS
  <2>1. pc' = "chunk" /\ ret' = "none" /\ req'.count = count /\ req'.left = count
    BY DEF Request
  <2>2. Done' = 0
    <3>1. count \in Nat
      BY ONLY BoundTypes, count \in 0 .. MaxCount
    <3> QED  BY ONLY <2>1, <3>1 DEF Done
  <2>3. ChunkInv' /\ AdminInv'
    BY ONLY <2>1 DEF ChunkInv, AdminInv
  <2>4. DoneInv'
    <3>1. Offsets(Done') = {} /\ ~(Done' > 0)
      BY ONLY <2>2 DEF Offsets
    <3> HIDE DEF Done
    <3> QED  BY ONLY <2>1, <3>1 DEF DoneInv
  <2> QED  BY ONLY <2>3, <2>4 DEF DataInv
<1>5. CASE Chunk
  BY <1>0, <1>5, ChunkData
<1>6. CASE Finish
  <2>1. UNCHANGED <<req, disk>> /\ Done' = Done
    BY <1>6 DEF Finish, Done
  <2> QED  BY <1>6, <2>1 DEF Finish
<1>7. CASE IoDone
  BY <1>7, IoDoneData
<1>8. CASE Controller
  BY <1>8, ServeData DEF Controller
<1>9. CASE UNCHANGED vars
  <2>1. UNCHANGED <<pc, req, ret, disk, page, cmd>> /\ UNCHANGED <<rings, dev>>
    BY <1>9 DEF vars
  <2>2. UNCHANGED <<Done, ChunkLen, Queued("io"), Served("io"), cq["io"][head["io"]]>>
    BY <2>1 DEF rings, dev, Done, ChunkLen, Queued, Served, Succ
  <2> QED  BY <2>1, <2>2
<1>10. ~AdminTimeout /\ ~IoTimeout
  BY DEF AdminTimeout, IoTimeout
<1> QED
  BY <1>1, <1>2, <1>3, <1>4, <1>5, <1>6, <1>7, <1>8, <1>9, <1>10 DEF Next, Driver

IInv == TypeOK /\ RingInv /\ DataInv

\* The inductive invariant of the driver with a controller that is not slow.
LEMMA IInvHolds == ~Slow => (Spec => []IInv)
<1> SUFFICES ASSUME ~Slow PROVE Spec => []IInv
  OBVIOUS
<1>1. Init => IInv
  BY InitType, InitRing, InitData DEF IInv
<1>2. IInv /\ [Next]_vars => IInv'
  BY NextType, NextRing, NextData DEF IInv
<1> QED  BY <1>1, <1>2, PTL DEF Spec

\* A request that returns its count has moved every block it named.
THEOREM RequestResultHolds == ~Slow => (Spec => []RequestResult)
<1>1. IInv => RequestResult
  <2> SUFFICES ASSUME IInv, pc = "idle", ret = "ok", NEW i \in Offsets(req.count)
               PROVE  disk[req.start + i] = req.buf[i]
    BY DEF RequestResult
  <2>1. req.left = 0 /\ \A j \in Offsets(Done) : disk[req.start + j] = req.buf[j]
    BY DEF IInv, DataInv, DoneInv
  <2>2. Done = req.count
    <3>1. req.count \in Nat
      BY NumberTypes DEF IInv
    <3> QED  BY ONLY <2>1, <3>1 DEF Done
  <2> QED  BY <2>1, <2>2
<1> QED  BY <1>1, IInvHolds, PTL

\* A command just queued has no completion yet.
LEMMA QueuedInvisible == IInv /\ Queued("io") => ~Visible("io")
  BY VisibleIff DEF IInv

\* The same after a step.
LEMMA QueuedInvisibleNext == IInv' /\ Queued("io")' => ~Visible("io")'
  BY QueuedInvisible, PTL

\* A served command's completion is in sight.
LEMMA ServedVisible == IInv /\ Served("io") => Visible("io")
  BY VisibleIff DEF IInv

\* A served command's completion is in sight after a step, too.
LEMMA ServedVisibleNext == IInv' /\ Served("io")' => Visible("io")'
  BY ServedVisible, PTL

(***************************************************************************)
(* Refinement: the submission begins a transfer, the controller gives it   *)
(* its effect, the consumed completion ends it.                            *)
(***************************************************************************)
\* Each nvme_rw_blocks is one transfer of an atomic block device.
THEOREM DeviceRefined == ~Slow => (Spec => DeviceSpec)
<1> SUFFICES ASSUME ~Slow PROVE Spec => DeviceSpec
  OBVIOUS
<1>1. Init => Device!Init
  BY DEF Init, Device!Init, Blocks, Device!Blocks
<1>2. ASSUME IInv, IInv', [Next]_vars PROVE [Device!Next]_(Device!vars)
  <2> USE <1>2
  <2> DEFINE taken == pc = "io" /\ Visible("io") /\ cq["io"][head["io"]].ok
             call == IF pc = "io" THEN Transfer ELSE NoTransfer
  <2>0. ASSUME pc # "io", pc' # "io", UNCHANGED <<disk, last>>
        PROVE  UNCHANGED Device!vars
    BY <2>0 DEF Device!vars, NoTransfer
  <2>1. CASE Chunk
    <3>1. /\ pc = "chunk" /\ pc' = "io" /\ req.left > 0 /\ UNCHANGED <<req, disk, last>>
      BY <2>1 DEF Chunk
    <3>2. Transfer' = Transfer
      BY <3>1 DEF Transfer, Done, ChunkLen
    <3>3. /\ Transfer.lba \in Nat /\ Transfer.n \in 1 .. MaxChunk
          /\ Transfer.data \in [Device!Offsets(Transfer.n) -> Values]
      <4>1. /\ req.start + Done \in Nat /\ ChunkLen \in 1 .. MaxChunk
            /\ \A i \in Offsets(ChunkLen) : req.buf[Done + i] \in Values
        <5>1. TypeOK
          BY DEF IInv
        <5>2. req.start \in Nat /\ req.buf \in [Offsets(req.count) -> Values]
          BY ONLY <5>1 DEF TypeOK
        <5>3. MaxChunk \in Nat
          BY ONLY DataAssumption DEF DataAssumption
        <5>4. /\ Done \in Nat /\ ChunkLen \in 0 .. MaxChunk /\ ChunkLen > 0
              /\ \A i \in Offsets(ChunkLen) : Done + i \in Offsets(req.count)
          BY ONLY <3>1, <5>1, ChunkType
        <5> QED  BY ONLY <5>2, <5>3, <5>4
      <4>2. Transfer.lba = req.start + Done /\ Transfer.n = ChunkLen
        BY DEF Transfer
      <4>3. Transfer.data = [i \in Offsets(ChunkLen) |-> req.buf[Done + i]]
        BY DEF Transfer
      <4>4. Transfer.data \in [Offsets(ChunkLen) -> Values]
        BY ONLY <4>1, <4>3
      <4>5. Device!Offsets(Transfer.n) = Offsets(ChunkLen)
        BY ONLY <4>2 DEF Offsets, Device!Offsets
      <4> QED  BY ONLY <4>1, <4>2, <4>4, <4>5
    <3>4. ~Visible("io")'
      <4>1. Queued("io")'
        BY <2>1, SubmitRing DEF Chunk, Waiting, IInv
      <4> QED  BY <4>1, QueuedInvisibleNext
    <3>5. ~taken /\ ~taken'
      BY <3>1, <3>4
    <3>6. Device!Begin
      <4>1. (call').lba \in Nat /\ (call').n \in 1 .. MaxChunk
            /\ (call').data \in [Device!Offsets((call').n) -> Values]
        BY <3>1, <3>2, <3>3
      <4> QED  BY <3>1, <3>5, <4>1 DEF Device!Begin
    <3> QED  BY <3>6 DEF Device!Next
  <2>2. ASSUME NEW ok \in BOOLEAN, Serve("io", ok)
        PROVE  [Device!Next]_(Device!vars)
    <3>1. /\ pc = "io" /\ ~Visible("io") /\ Queued("io")
          /\ cq'["io"][head'["io"]].ok = ok
          /\ ok => cmd.lba + cmd.n <= Capacity
          /\ ok /\ ~req.write => disk' = disk
          /\ ok /\ req.write =>
                disk' = [b \in Blocks |-> IF b \in cmd.lba .. cmd.lba + cmd.n - 1
                                          THEN page[b - cmd.lba] ELSE disk[b]]
          /\ ~ok => disk' = disk
      BY <2>2, ServeChunk DEF IInv, DataInv
    <3>2. UNCHANGED <<pc, req, last>>
      BY <2>2 DEF Serve
    <3>3. Transfer' = Transfer
      BY <3>2 DEF Transfer, Done, ChunkLen
    <3>4. Visible("io")'
      <4>1. Served("io")'
        BY <2>2, ServeRing DEF IInv
      <4> QED  BY <4>1, ServedVisibleNext
    <3>5. ~taken /\ (taken' <=> ok)
      BY <3>1, <3>2, <3>4
    <3>6. CASE ~ok
      BY <3>1, <3>2, <3>3, <3>5, <3>6 DEF Device!vars
    <3>7. CASE ok
      <4>1. /\ cmd.lba = Transfer.lba /\ cmd.n = Transfer.n /\ req.write = Transfer.write
            /\ req.write => \A i \in Offsets(cmd.n) : page[i] = Transfer.data[i]
        BY <3>1 DEF IInv, DataInv, ChunkInv, Transfer
      <4>2. \A b \in Blocks : b \in cmd.lba .. cmd.lba + cmd.n - 1 => b - cmd.lba \in Offsets(cmd.n)
        <5>1. cmd.lba \in Nat /\ cmd.n \in Nat /\ Capacity \in Nat
          BY NumberTypes, BoundTypes DEF IInv
        <5> QED  BY ONLY <5>1 DEF Offsets, Blocks
      <4>3. disk' = IF Transfer.write
                    THEN Device!Written(disk, Transfer.lba, Transfer.n, Transfer.data)
                    ELSE disk
        <5> HIDE DEF Transfer
        <5>1. CASE ~req.write
          BY ONLY <3>1, <3>7, <4>1, <5>1
        <5>2. CASE req.write
          <6>1. disk' = [b \in Blocks |-> IF b \in cmd.lba .. cmd.lba + cmd.n - 1
                                          THEN page[b - cmd.lba] ELSE disk[b]]
            BY ONLY <3>1, <3>7, <5>2
          <6>2. \A b \in Blocks : b \in cmd.lba .. cmd.lba + cmd.n - 1 =>
                    page[b - cmd.lba] = Transfer.data[b - cmd.lba]
            BY ONLY <4>1, <4>2, <5>2
          <6>3. disk' = [b \in Blocks |-> IF b \in cmd.lba .. cmd.lba + cmd.n - 1
                                          THEN Transfer.data[b - cmd.lba] ELSE disk[b]]
            BY ONLY <6>1, <6>2
          <6>4. Device!Written(disk, cmd.lba, cmd.n, Transfer.data) =
                    [b \in Blocks |-> IF b \in cmd.lba .. cmd.lba + cmd.n - 1
                                      THEN Transfer.data[b - cmd.lba] ELSE disk[b]]
            BY ONLY DEF Device!Written, Device!Blocks, Blocks
          <6> QED  BY ONLY <4>1, <5>2, <6>3, <6>4
        <5> QED  BY ONLY <5>1, <5>2
      <4>4. Device!Effect
        <5> HIDE DEF Transfer
        <5> QED  BY <3>1, <3>2, <3>3, <3>5, <3>7, <4>1, <4>3 DEF Device!Effect
      <4> QED  BY <4>4 DEF Device!Next
    <3> QED  BY <3>6, <3>7
  <2>3. ASSUME NEW ok \in BOOLEAN, Serve("admin", ok)
        PROVE  UNCHANGED Device!vars
    <3>1. pc = "admin" /\ Queued("admin") /\ fetch["admin"] = head["admin"]
      BY <2>3, ServeRing DEF IInv, Waiting, Queued, RingInv
    <3>2. sq["admin"][fetch["admin"]].op = "admin"
      BY <3>1 DEF IInv, DataInv, AdminInv, Queued
    <3> QED  BY <2>0, <2>3, <3>1, <3>2 DEF Serve
  <2>4. CASE IoDone
    <3>1. pc = "io" /\ pc' # "io" /\ Served("io") /\ disk' = disk
      BY <2>4, VisibleIff DEF IoDone, IInv, RingInv, Waiting
    <3>2. CASE ~cq["io"][head["io"]].ok
      <4>1. Device!Fail
        BY <2>4, <3>1, <3>2 DEF IoDone, Device!Fail, Failed
      <4> QED  BY <4>1 DEF Device!Next
    <3>3. CASE cq["io"][head["io"]].ok
      <4>1. \A i \in Offsets(ChunkLen) : page[i] = disk[(req.start + Done) + i]
        BY <3>1, <3>3 DEF IInv, DataInv, ChunkInv
      <4>2. last' = [ok |-> TRUE, data |-> [i \in Offsets(ChunkLen) |-> page[i]]]
        BY <2>4, <3>3 DEF IoDone
      <4>3. Transfer.lba = req.start + Done /\ Transfer.n = ChunkLen
        BY DEF Transfer
      <4>4. last' = [ok |-> TRUE, data |-> Device!Slice(disk, Transfer.lba, Transfer.n)]
        <5> HIDE DEF Transfer, Done, ChunkLen
        <5> QED  BY <4>1, <4>2, <4>3 DEF Device!Slice, Offsets, Device!Offsets
      <4>5. Device!Succeed
        BY <2>4, <3>1, <3>3, <4>4 DEF IoDone, Device!Succeed
      <4> QED  BY <4>5 DEF Device!Next
    <3> QED  BY <3>2, <3>3
  <2>5. CASE AdminSubmit \/ AdminDone \/ WarmUp \/ Finish \/ NewRequest
    BY <2>0, <2>5 DEF AdminSubmit, AdminDone, WarmUp, Finish, NewRequest, Request
  <2>6. CASE UNCHANGED vars
    <3>1. UNCHANGED <<pc, req, disk, last>> /\ UNCHANGED rings
      BY <2>6 DEF vars
    <3>2. UNCHANGED <<taken, call>>
      BY <3>1 DEF rings, Visible, Transfer, NoTransfer, Done, ChunkLen
    <3> QED  BY <3>1, <3>2 DEF Device!vars
  <2>7. ~AdminTimeout /\ ~IoTimeout
    BY DEF AdminTimeout, IoTimeout
  <2>8. CASE Controller
    BY <2>2, <2>3, <2>8 DEF Controller
  <2> QED
    BY <2>1, <2>4, <2>5, <2>6, <2>7, <2>8 DEF Next, Driver
<1> QED  BY <1>1, <1>2, IInvHolds, PTL DEF Spec, DeviceSpec, Device!Spec
=============================================================================
