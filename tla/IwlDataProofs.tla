--------------------------- MODULE IwlDataProofs ---------------------------
(***************************************************************************)
(* The transmit path for rings, batches and numbers of frames of any size. *)
(* First the data queue: an invariant of its pointers and frames that      *)
(* every step of IwlTxq keeps, whoever takes it, if txq_alloc finds no     *)
(* sender inside tx_frame.  Then the callers, who see to that when no      *)
(* net_write outlasts the worker's way to its next join (~Overlap).        *)
(***************************************************************************)
EXTENDS IwlData, TLAPS

(***************************************************************************)
(* The way round the ring: the next entry, and the steps from one entry to *)
(* another.                                                                *)
(***************************************************************************)
Nxt(a) == IF a + 1 = Size THEN 0 ELSE a + 1
Gap(a, b) == IF b >= a THEN b - a ELSE b - a + Size

(***************************************************************************)
(* The pointers: the worker's, the device's and the senders' follow one    *)
(* another round the ring, the answers on their way name entries between   *)
(* the first two in order, and a sender past the test for room leaves two  *)
(* entries free.                                                           *)
(***************************************************************************)
PointerInv ==
    /\ bell = write_ptr
    /\ Gap(read_ptr, hw) + Gap(hw, write_ptr) = Gap(read_ptr, write_ptr)
    /\ Gap(read_ptr, write_ptr) <= Size - 2
    /\ \A i \in DOMAIN answers : Gap(read_ptr, answers[i]) <= Gap(read_ptr, hw)
    /\ \A i, j \in DOMAIN answers :
          i <= j => Gap(read_ptr, answers[i]) <= Gap(read_ptr, answers[j])
    /\ \A t \in Threads : pc[t] \in {"fill", "post"} =>
          idx[t] = write_ptr /\ Gap(read_ptr, write_ptr) <= Size - 3

(***************************************************************************)
(* The frames: the device has those behind its last doorbell, one is on    *)
(* its way onto the ring while a sender is about to ring it, and those     *)
(* before them are sent or dropped.                                        *)
(***************************************************************************)
Posting == \E t \in Threads : pc[t] = "post"
Posted == IF Posting THEN Len(taken) - 1 ELSE Len(taken)
Out == Posted - Gap(hw, write_ptr)

FrameInv ==
    /\ Out >= 0
    /\ \A i \in Slots :
          Gap(hw, i) < Gap(hw, write_ptr) => ring[i] = Out + Gap(hw, i) + 1
    /\ \A i \in Slots : Gap(hw, i) > Gap(hw, write_ptr) => Settled(ring[i])
    /\ IF Posting THEN ring[write_ptr] = Len(taken) ELSE Settled(ring[write_ptr])
    /\ 1 .. Out \subseteq Range(onair) \cup dropped
    /\ \A i \in DOMAIN onair : onair[i] \in 1 .. Out
    /\ \A i, j \in DOMAIN onair : i < j => onair[i] < onair[j]

TxqInv ==
    /\ TxqTypeOK
    /\ taken \in Seq(Nat) /\ onair \in Seq(Nat) /\ Len(taken) <= MaxFrames
    /\ \A t \in Threads : pc[t] \in {"room", "fill"} => Len(taken) < MaxFrames
    /\ PointerInv
    /\ FrameInv

\* Remainders of numbers less than a ring outside the ring.
LEMMA Remainder ==
    ASSUME NEW a \in Int, -Size <= a, a < 2 * Size
    PROVE  a % Size = IF a < 0 THEN a + Size
                      ELSE IF a < Size THEN a ELSE a - Size
  BY SizeAssumption

\* The ring's size is a number to count with.
LEMMA SizeType == Size \in Nat /\ Size >= 2
  BY SizeAssumption

\* The code's step round the ring.
LEMMA NxtMod ==
    ASSUME NEW a \in Slots
    PROVE  (a + 1) % Size = Nxt(a) /\ Nxt(a) \in Slots
  BY Remainder, SizeType DEF Slots, Nxt

\* The code's distance round the ring.
LEMMA GapMod ==
    ASSUME NEW a \in Slots, NEW b \in Slots
    PROVE  (b - a) % Size = Gap(a, b) /\ Gap(a, b) \in Slots
  BY Remainder, SizeType DEF Slots, Gap

\* The entries that tx_frame counts as free.
LEMMA RoomGap ==
    ASSUME read_ptr \in Slots, write_ptr \in Slots
    PROVE  Room = Size - 1 - Gap(read_ptr, write_ptr)
  BY Remainder, SizeType DEF Slots, Gap, Room

\* The entries that the device owns: those between its pointer and the doorbell.
LEMMA OwnedGap ==
    ASSUME hw \in Slots, bell \in Slots
    PROVE  Owned = {i \in Slots : Gap(hw, i) < Gap(hw, bell)}
<1> DEFINE n == Gap(hw, bell)
<1>1. (bell - hw) % Size = n /\ n \in Slots
  BY GapMod
<1>2. ASSUME NEW k \in 0 .. n - 1
      PROVE  (hw + k) % Size \in Slots /\ Gap(hw, (hw + k) % Size) = k
  <2>1. k \in Nat /\ k < Size /\ hw \in Nat /\ hw < Size
    BY <1>1, SizeType DEF Slots
  <2>2. hw + k \in Int /\ -Size <= hw + k /\ hw + k < 2 * Size
    BY ONLY <2>1, SizeType
  <2>3. (hw + k) % Size = IF hw + k < Size THEN hw + k ELSE hw + k - Size
    BY ONLY <2>1, <2>2, Remainder, SizeType
  <2> QED  BY ONLY <2>1, <2>3, SizeType DEF Slots, Gap
<1>3. ASSUME NEW i \in Slots, Gap(hw, i) < n
      PROVE  Gap(hw, i) \in 0 .. n - 1 /\ (hw + Gap(hw, i)) % Size = i
  <2>1. (hw + Gap(hw, i)) % Size = i
    BY Remainder, SizeType DEF Slots, Gap
  <2> QED  BY <2>1, <1>3, <1>1, GapMod DEF Slots
<1>4. Owned = {(hw + k) % Size : k \in 0 .. n - 1}
  BY ONLY <1>1 DEF Owned
<1> HIDE DEF n
<1>5. ASSUME NEW i \in Owned
      PROVE  i \in Slots /\ Gap(hw, i) < n
  <2>1. PICK k \in 0 .. n - 1 : i = (hw + k) % Size
    BY <1>4
  <2> QED  BY ONLY <1>1, <1>2, <2>1 DEF Slots
<1>6. ASSUME NEW i \in Slots, Gap(hw, i) < n
      PROVE  i \in Owned
  BY <1>3, <1>4, <1>6
<1> QED  BY <1>5, <1>6 DEF n

\* Steps of one pointer, seen from another.
LEMMA GapFacts ==
    ASSUME NEW a \in Slots, NEW b \in Slots, NEW c \in Slots
    PROVE  /\ Gap(a, b) \in Nat /\ Gap(a, b) < Size
           /\ Gap(a, b) = 0 <=> a = b
           /\ Gap(a, b) = Gap(a, c) <=> b = c
           /\ Gap(a, b) <= Gap(a, c) => Gap(b, c) = Gap(a, c) - Gap(a, b)
           /\ Gap(Nxt(a), b) = IF a = b THEN Size - 1 ELSE Gap(a, b) - 1
           /\ Gap(a, b) < Size - 1 => Gap(a, Nxt(b)) = Gap(a, b) + 1
  BY SizeType DEF Slots, Gap, Nxt

\* An entry at every distance.
LEMMA GapOnto ==
    ASSUME NEW a \in Slots, NEW k \in Slots
    PROVE  \E b \in Slots : Gap(a, b) = k
<1> DEFINE b == IF a + k < Size THEN a + k ELSE a + k - Size
<1>1. b \in Slots /\ Gap(a, b) = k
  BY SizeType DEF Slots, Gap
<1> QED  BY <1>1

-----------------------------------------------------------------------------
\* What the type invariant says of the pointers, the frames and the senders.
LEMMA TxqTypes ==
    ASSUME TxqInv
    PROVE  /\ write_ptr \in Slots /\ read_ptr \in Slots /\ hw \in Slots
           /\ bell \in Slots /\ ring \in [Slots -> 0 .. MaxFrames]
           /\ answers \in Seq(Slots) /\ onair \in Seq(Nat) /\ taken \in Seq(Nat)
           /\ Len(taken) \in Nat /\ idx \in [Threads -> Slots]
           /\ pc \in [Threads -> {"idle", "room", "fill", "post", "unlock"}]
           /\ Out \in Nat /\ Posted \in Int
<1>1. /\ write_ptr \in Slots /\ read_ptr \in Slots /\ hw \in Slots
      /\ bell \in Slots /\ ring \in [Slots -> 0 .. MaxFrames]
      /\ answers \in Seq(Slots) /\ onair \in Seq(Nat) /\ taken \in Seq(Nat)
      /\ idx \in [Threads -> Slots]
      /\ pc \in [Threads -> {"idle", "room", "fill", "post", "unlock"}]
  BY Zenon DEF TxqInv, TxqTypeOK
<1>2. Len(taken) \in Nat
  BY ONLY <1>1
<1>3. Posted \in Int /\ Gap(hw, write_ptr) \in Nat
  BY <1>1, <1>2, GapFacts DEF Posted
<1>4. Out \in Int /\ Out >= 0
  BY ONLY <1>3, TxqInv DEF TxqInv, FrameInv, Out
<1> QED  BY <1>1, <1>2, <1>3, <1>4

\* tx_lock admits one sender (iwlm_trans_tx_frame).
LEMMA OneSender ==
    ASSUME TxqInv, NEW t \in Threads, NEW u \in Threads,
           pc[t] # "idle", pc[u] # "idle"
    PROVE  t = u
  BY DEF TxqInv, TxqTypeOK

\* Steps that move no frame keep the account of the frames.
LEMMA FramesKept ==
    ASSUME FrameInv, Posting' <=> Posting,
           UNCHANGED <<write_ptr, ring, hw, taken, onair, dropped>>
    PROVE  FrameInv'
  BY DEF FrameInv, Out, Posted, Settled, Gap, Slots

\* Taking tx_lock keeps the queue sound.
LEMMA LockInv ==
    ASSUME TxqInv, NEW t \in Threads, Lock(t)
    PROVE  TxqInv'
<1>1. pc' = [pc EXCEPT ![t] = "room"] /\ lock' = t /\ lock = Free /\ pc[t] = "idle"
      /\ Len(taken) < MaxFrames
      /\ UNCHANGED <<idx, write_ptr, read_ptr, ring, hw, bell, answers, taken, onair, dropped>>
  BY DEF Lock
<1>2. pc \in [Threads -> {"idle", "room", "fill", "post", "unlock"}]
  BY TxqTypes
<1>3. \A u \in Threads : u # t => pc[u] = "idle"
  BY <1>1, <1>2, WorkerAssumption DEF TxqInv, TxqTypeOK, Free
<1>4. Posting' <=> Posting
  BY <1>1, <1>2 DEF Posting
<1>5. FrameInv'
  BY <1>1, <1>4, FramesKept DEF TxqInv
<1>6. PointerInv'
  BY <1>1, <1>2 DEF TxqInv, PointerInv, Gap
<1>7. TxqTypeOK'
  BY <1>1, <1>2, <1>3 DEF TxqInv, TxqTypeOK, Slots
<1> QED  BY <1>1, <1>2, <1>3, <1>5, <1>6, <1>7 DEF TxqInv

\* So does turning a frame away for want of room.
LEMMA RefuseInv ==
    ASSUME TxqInv, NEW t \in Threads, Refuse(t)
    PROVE  TxqInv'
<1>1. /\ pc[t] = "room" /\ pc' = [pc EXCEPT ![t] = "unlock"]
      /\ UNCHANGED <<lock, idx, write_ptr, read_ptr, ring, hw, bell, answers,
                     taken, onair, dropped>>
  BY DEF Refuse
<1>2. pc \in [Threads -> {"idle", "room", "fill", "post", "unlock"}]
  BY TxqTypes
<1>3. \A u \in Threads : u # t => pc[u] = "idle"
  BY <1>1, OneSender
<1>4. Posting' <=> Posting
  BY <1>1, <1>2 DEF Posting
<1>5. FrameInv'
  BY <1>1, <1>4, FramesKept DEF TxqInv
<1>6. PointerInv'
  BY <1>1, <1>2 DEF TxqInv, PointerInv, Gap
<1>7. TxqTypeOK'
  BY <1>1, <1>2, <1>3 DEF TxqInv, TxqTypeOK, Slots
<1> QED  BY <1>1, <1>2, <1>3, <1>5, <1>6, <1>7 DEF TxqInv

\* So does leaving tx_frame.
LEMMA UnlockInv ==
    ASSUME TxqInv, NEW t \in Threads, Unlock(t)
    PROVE  TxqInv'
<1>1. /\ pc[t] = "unlock" /\ pc' = [pc EXCEPT ![t] = "idle"]
      /\ UNCHANGED <<idx, write_ptr, read_ptr, ring, hw, bell, answers,
                     taken, onair, dropped>>
      /\ lock' = Free
  BY DEF Unlock
<1>2. pc \in [Threads -> {"idle", "room", "fill", "post", "unlock"}]
  BY TxqTypes
<1>3. \A u \in Threads : u # t => pc[u] = "idle"
  BY <1>1, OneSender
<1>4. Posting' <=> Posting
  BY <1>1, <1>2 DEF Posting
<1>5. FrameInv'
  BY <1>1, <1>4, FramesKept DEF TxqInv
<1>6. PointerInv'
  BY <1>1, <1>2 DEF TxqInv, PointerInv, Gap
<1>7. TxqTypeOK'
  BY <1>1, <1>2, <1>3 DEF TxqInv, TxqTypeOK, Slots
<1> QED  BY <1>1, <1>2, <1>3, <1>5, <1>6, <1>7 DEF TxqInv

\* A sender that finds room owns an entry the worker and the device are done with.
LEMMA AcceptInv ==
    ASSUME TxqInv, NEW t \in Threads, Accept(t)
    PROVE  TxqInv'
<1>1. /\ pc[t] = "room" /\ pc' = [pc EXCEPT ![t] = "fill"]
      /\ UNCHANGED <<lock, write_ptr, read_ptr, ring, hw, bell, answers,
                     taken, onair, dropped>>
      /\ idx' = [idx EXCEPT ![t] = write_ptr] /\ Room >= 2
  BY DEF Accept
<1>2. pc \in [Threads -> {"idle", "room", "fill", "post", "unlock"}]
  BY TxqTypes
<1>3. \A u \in Threads : u # t => pc[u] = "idle"
  BY <1>1, OneSender
<1>4. Posting' <=> Posting
  BY <1>1, <1>2 DEF Posting
<1>5. FrameInv'
  BY <1>1, <1>4, FramesKept DEF TxqInv
<1>6. Gap(read_ptr, write_ptr) \in Nat /\ Gap(read_ptr, write_ptr) <= Size - 3
  <2>1. read_ptr \in Slots /\ write_ptr \in Slots
    BY TxqTypes
  <2>2. Gap(read_ptr, write_ptr) \in Nat
    BY ONLY <2>1, GapFacts
  <2>3. Room = Size - 1 - Gap(read_ptr, write_ptr)
    BY ONLY <2>1, RoomGap
  <2> QED  BY ONLY <1>1, <2>2, <2>3, SizeType
<1>7. idx \in [Threads -> Slots] /\ write_ptr \in Slots
  BY TxqTypes
<1>8. \A u \in Threads : pc'[u] \in {"fill", "post"} =>
          idx'[u] = write_ptr /\ Gap(read_ptr, write_ptr) <= Size - 3
  BY ONLY <1>1, <1>2, <1>3, <1>6, <1>7
<1>9. PointerInv'
  BY <1>1, <1>8 DEF TxqInv, PointerInv, Gap
<1>10. TxqTypeOK'
  BY <1>1, <1>2, <1>3, <1>7 DEF TxqInv, TxqTypeOK, Slots
<1> QED  BY <1>1, <1>2, <1>3, <1>5, <1>9, <1>10 DEF TxqInv

\* The frame stored, the doorbell not yet written.
LEMMA FillInv ==
    ASSUME TxqInv, NEW t \in Threads, Fill(t)
    PROVE  TxqInv'
<1>1. /\ pc[t] = "fill" /\ pc' = [pc EXCEPT ![t] = "post"]
      /\ ring' = [ring EXCEPT ![idx[t]] = Len(taken) + 1]
      /\ taken' = Append(taken, Len(taken) + 1)
      /\ UNCHANGED <<lock, idx, write_ptr, read_ptr, hw, bell, answers, onair, dropped>>
  BY DEF Fill
<1>2. pc \in [Threads -> {"idle", "room", "fill", "post", "unlock"}]
  BY TxqTypes
<1>3. \A u \in Threads : u # t => pc[u] = "idle"
  BY <1>1, OneSender
<1>4. Posting' /\ ~Posting
  BY <1>1, <1>2, <1>3 DEF Posting
<1>5. /\ idx[t] = write_ptr /\ write_ptr \in Slots /\ hw \in Slots
      /\ Len(taken) \in Nat /\ taken \in Seq(Nat) /\ Len(taken) < MaxFrames
      /\ ring \in [Slots -> 0 .. MaxFrames]
  BY <1>1, TxqTypes DEF TxqInv, PointerInv
<1>6. Len(taken') = Len(taken) + 1 /\ taken' \in Seq(Nat)
  BY ONLY <1>1, <1>5
<1>7. Posted' = Posted /\ Out' = Out
  BY <1>1, <1>4, <1>5, <1>6 DEF Posted, Out, Gap
<1>8. \A i \in Slots : ring'[i] = IF i = write_ptr THEN Len(taken) + 1 ELSE ring[i]
  BY ONLY <1>1, <1>5
<1>9. \A i \in Slots : Gap(hw, i) = Gap(hw, write_ptr) <=> i = write_ptr
  BY <1>5, GapFacts
<1>10. \A i \in Slots : Gap(hw, i) \in Nat /\ Gap(hw, i)' = Gap(hw, i)
  BY <1>1, <1>5, GapFacts DEF Gap
<1>11. FrameInv'
  <2>1. \A i \in Slots : Gap(hw, i)' < Gap(hw, write_ptr)'
            => ring'[i] = Out' + Gap(hw, i)' + 1
    BY <1>1, <1>5, <1>7, <1>8, <1>9, <1>10 DEF TxqInv, FrameInv
  <2>2. \A f : Settled(f)' <=> Settled(f)
    BY <1>1 DEF Settled
  <2>3. \A i \in Slots : Gap(hw, i)' > Gap(hw, write_ptr)' => Settled(ring[i])' /\ ring'[i] = ring[i]
    BY <1>1, <1>5, <1>8, <1>9, <1>10, <2>2 DEF TxqInv, FrameInv
  <2>4. ring'[write_ptr'] = Len(taken')
    BY <1>1, <1>5, <1>6, <1>8
  <2> QED  BY <1>1, <1>4, <1>7, <2>1, <2>3, <2>4 DEF TxqInv, FrameInv, Slots, Settled
<1>12. PointerInv'
  BY <1>1, <1>2, <1>3 DEF TxqInv, PointerInv, Gap
<1>13. TxqTypeOK'
  <2>1. ring' \in [Slots -> 0 .. MaxFrames]
    BY <1>1, <1>5, FrameAssumption
  <2> QED  BY <1>1, <1>2, <1>3, <2>1 DEF TxqInv, TxqTypeOK, Slots
<1> QED  BY <1>1, <1>2, <1>3, <1>5, <1>6, <1>11, <1>12, <1>13, FrameAssumption DEF TxqInv

\* The doorbell: the entry filled becomes the device's.
LEMMA PostInv ==
    ASSUME TxqInv, NEW t \in Threads, Post(t)
    PROVE  TxqInv'
<1>1. /\ pc[t] = "post" /\ pc' = [pc EXCEPT ![t] = "unlock"]
      /\ write_ptr' = (write_ptr + 1) % Size /\ bell' = write_ptr'
      /\ UNCHANGED <<lock, idx, read_ptr, ring, hw, answers, taken, onair, dropped>>
  BY DEF Post
<1>2. pc \in [Threads -> {"idle", "room", "fill", "post", "unlock"}]
  BY TxqTypes
<1>3. \A u \in Threads : u # t => pc[u] = "idle"
  BY <1>1, OneSender
<1>4. Posting /\ ~Posting'
  BY <1>1, <1>2, <1>3 DEF Posting
<1>5. write_ptr \in Slots /\ hw \in Slots /\ read_ptr \in Slots /\ Len(taken) \in Nat
  BY TxqTypes
<1>6. write_ptr' = Nxt(write_ptr) /\ write_ptr' \in Slots
  BY ONLY <1>1, <1>5, NxtMod
<1>0. \A i \in Slots : Gap(hw, i) \in Nat
  BY <1>5, GapFacts
<1>7. /\ Gap(hw, write_ptr) \in Nat /\ Gap(read_ptr, write_ptr) \in Nat
      /\ Gap(read_ptr, hw) \in Nat
  BY <1>5, GapFacts
<1>8. /\ Gap(read_ptr, write_ptr) <= Size - 3
      /\ Gap(read_ptr, hw) + Gap(hw, write_ptr) = Gap(read_ptr, write_ptr)
      /\ Gap(hw, write_ptr) <= Size - 3
  <2>1. /\ Gap(read_ptr, write_ptr) <= Size - 3
        /\ Gap(read_ptr, hw) + Gap(hw, write_ptr) = Gap(read_ptr, write_ptr)
    BY <1>1 DEF TxqInv, PointerInv
  <2> QED  BY ONLY <1>7, <2>1, SizeType
<1>9. /\ Gap(hw, write_ptr') = Gap(hw, write_ptr) + 1
      /\ Gap(read_ptr, write_ptr') = Gap(read_ptr, write_ptr) + 1
  <2>1. Gap(hw, write_ptr) < Size - 1 /\ Gap(read_ptr, write_ptr) < Size - 1
    BY ONLY <1>7, <1>8, SizeType
  <2> QED  BY ONLY <1>5, <1>6, <2>1, GapFacts
<1>10. Posted = Len(taken) - 1 /\ Posted' = Len(taken) /\ Out' = Out
       /\ Out = Len(taken) - 1 - Gap(hw, write_ptr)
  <2>1. Posted = Len(taken) - 1 /\ Posted' = Len(taken)
    BY ONLY <1>1, <1>4 DEF Posted
  <2>2. Out = Posted - Gap(hw, write_ptr) /\ Out' = Posted' - Gap(hw, write_ptr')
    BY ONLY <1>1 DEF Out, Gap
  <2>3. Out = Len(taken) - 1 - Gap(hw, write_ptr)
    BY ONLY <2>1, <2>2
  <2>4. Out' = Len(taken) - (Gap(hw, write_ptr) + 1)
    BY ONLY <1>9, <2>1, <2>2
  <2> QED  BY ONLY <1>5, <1>7, <2>1, <2>3, <2>4
<1>11. \A f : Settled(f)' <=> Settled(f)
  BY ONLY <1>1 DEF Settled
<1>12. FrameInv'
  <2>1. ASSUME NEW i \in Slots, Gap(hw, i) < Gap(hw, write_ptr')
        PROVE  ring[i] = Out + Gap(hw, i) + 1
    <3>1. CASE Gap(hw, i) < Gap(hw, write_ptr)
      BY ONLY <3>1, TxqInv DEF TxqInv, FrameInv
    <3>2. CASE Gap(hw, i) = Gap(hw, write_ptr)
      <4>1. i = write_ptr
        BY ONLY <3>2, <1>5, GapFacts
      <4>2. ring[write_ptr] = Len(taken)
        BY ONLY TxqInv, <1>4 DEF TxqInv, FrameInv
      <4>3. ring[i] = Len(taken)
        BY ONLY <4>1, <4>2
      <4> QED  BY ONLY <3>2, <4>3, <1>5, <1>7, <1>10
    <3>3. Gap(hw, i) \in Nat /\ Gap(hw, write_ptr) \in Nat
      BY ONLY <1>0, <1>7
    <3>4. Gap(hw, i) < Gap(hw, write_ptr) + 1
      BY ONLY <1>9, <2>1
    <3> QED  BY ONLY <3>1, <3>2, <3>3, <3>4
  <2>2. ASSUME NEW i \in Slots, Gap(hw, i) > Gap(hw, write_ptr)
        PROVE  Settled(ring[i])
    BY ONLY <2>2, TxqInv DEF TxqInv, FrameInv
  <2>3. Settled(ring[write_ptr'])
    <3>1. Gap(hw, write_ptr') > Gap(hw, write_ptr)
      BY ONLY <1>7, <1>9
    <3> QED  BY ONLY <1>6, <2>2, <3>1
  <2>4. \A i \in Slots : Gap(hw, i) > Gap(hw, write_ptr') => Settled(ring[i])
    <3> SUFFICES ASSUME NEW i \in Slots, Gap(hw, i) > Gap(hw, write_ptr')
                 PROVE  Settled(ring[i])
      OBVIOUS
    <3>1. Gap(hw, i) \in Nat
      BY ONLY <1>0
    <3>2. Gap(hw, i) > Gap(hw, write_ptr)
      BY ONLY <1>7, <1>9, <3>1, Gap(hw, i) > Gap(hw, write_ptr')
    <3> QED  BY ONLY <2>2, <3>2
  <2>5. /\ \A i \in Slots : Gap(hw, i)' = Gap(hw, i)
        /\ Gap(hw, write_ptr)' = Gap(hw, write_ptr')
    BY ONLY <1>1 DEF Gap
  <2> QED
    BY ONLY TxqInv, <1>1, <1>4, <1>5, <1>10, <1>11, <2>1, <2>3, <2>4, <2>5
       DEF TxqInv, FrameInv, Slots
<1>13. PointerInv'
  <2>1. /\ Gap(read_ptr, hw)' = Gap(read_ptr, hw)
        /\ Gap(hw, write_ptr)' = Gap(hw, write_ptr')
        /\ Gap(read_ptr, write_ptr)' = Gap(read_ptr, write_ptr')
        /\ \A i \in DOMAIN answers :
              Gap(read_ptr, answers[i])' = Gap(read_ptr, answers[i])
    BY ONLY <1>1 DEF Gap
  <2>2. Gap(read_ptr, hw) + Gap(hw, write_ptr') = Gap(read_ptr, write_ptr')
        /\ Gap(read_ptr, write_ptr') <= Size - 2
    BY ONLY <1>7, <1>8, <1>9, SizeType
  <2>3. \A u \in Threads : pc'[u] \notin {"fill", "post"}
    BY ONLY <1>1, <1>2, <1>3
  <2> QED
    BY ONLY TxqInv, <1>1, <2>1, <2>2, <2>3 DEF TxqInv, PointerInv
<1>14. TxqTypeOK'
  BY <1>1, <1>2, <1>3, <1>6 DEF TxqInv, TxqTypeOK, Slots
<1> QED  BY <1>1, <1>2, <1>3, <1>12, <1>13, <1>14 DEF TxqInv

\* A frame sent: the device's share of the ring shrinks by its first entry.
LEMMA TransmitInv ==
    ASSUME TxqInv, Transmit
    PROVE  TxqInv'
<1>1. /\ hw # write_ptr /\ bell = write_ptr
      /\ onair' = Append(onair, ring[hw])
      /\ hw' = (hw + 1) % Size
      /\ answers' = Append(answers, hw')
      /\ UNCHANGED <<lock, pc, idx, write_ptr, read_ptr, ring, bell, taken, dropped>>
  BY DEF Transmit, TxqInv, PointerInv, txvars
<1>2. /\ write_ptr \in Slots /\ hw \in Slots /\ read_ptr \in Slots
      /\ Len(taken) \in Nat /\ onair \in Seq(Nat) /\ answers \in Seq(Slots)
      /\ Out \in Nat /\ Posted \in Int
  BY TxqTypes
<1>3. hw' = Nxt(hw) /\ hw' \in Slots
  BY ONLY <1>1, <1>2, NxtMod
<1>4. \A i, j \in Slots : Gap(i, j) \in Nat /\ Gap(i, j) < Size
  BY GapFacts
<1>5. \A i \in Slots : Gap(hw', i) = IF i = hw THEN Size - 1 ELSE Gap(hw, i) - 1
  <2> TAKE i \in Slots
  <2>1. Gap(Nxt(hw), i) = IF hw = i THEN Size - 1 ELSE Gap(hw, i) - 1
    BY ONLY <1>2, GapFacts
  <2> QED  BY ONLY <1>3, <2>1
<1>6. Gap(hw, hw) = 0 /\ Gap(hw, write_ptr) > 0
  BY ONLY <1>1, <1>2, <1>4, GapFacts
<1>7. Gap(hw', write_ptr) = Gap(hw, write_ptr) - 1
  BY ONLY <1>1, <1>2, <1>5
<1>8. Gap(read_ptr, hw') = Gap(read_ptr, hw) + 1
      /\ Gap(read_ptr, hw) + Gap(hw, write_ptr) = Gap(read_ptr, write_ptr)
  <2>1. Gap(read_ptr, hw) + Gap(hw, write_ptr) = Gap(read_ptr, write_ptr)
        /\ Gap(read_ptr, write_ptr) <= Size - 2
    BY DEF TxqInv, PointerInv
  <2>2. Gap(read_ptr, hw) < Size - 1
    <3>1. Gap(read_ptr, hw) \in Nat /\ Gap(hw, write_ptr) \in Nat
      BY ONLY <1>2, <1>4
    <3> QED  BY ONLY <1>6, <2>1, <3>1, SizeType
  <2> QED  BY ONLY <1>2, <1>3, <2>1, <2>2, GapFacts
<1>9. Posted' = Posted /\ Out' = Out + 1
  <2>1. Posted' = Posted
    BY ONLY <1>1 DEF Posted, Posting
  <2>2. Out = Posted - Gap(hw, write_ptr) /\ Out' = Posted' - Gap(hw', write_ptr)
    BY ONLY <1>1 DEF Out, Gap
  <2>3. Gap(hw, write_ptr) \in Nat
    BY ONLY <1>2, <1>4
  <2> QED  BY ONLY <1>2, <1>7, <2>1, <2>2, <2>3
<1>10. ring[hw] = Out + 1
  BY ONLY TxqInv, <1>2, <1>6 DEF TxqInv, FrameInv
<1>11. /\ onair' \in Seq(Nat) /\ Len(onair') = Len(onair) + 1 /\ Len(onair) \in Nat
       /\ DOMAIN onair' = 1 .. Len(onair) + 1 /\ DOMAIN onair = 1 .. Len(onair)
       /\ onair'[Len(onair) + 1] = Out + 1
       /\ \A i \in 1 .. Len(onair) : onair'[i] = onair[i]
  BY ONLY <1>1, <1>2, <1>10
<1>12. Range(onair') = Range(onair) \cup {Out + 1}
  BY ONLY <1>11 DEF Range
<1>13. \A f : Settled(f) => Settled(f)'
  BY ONLY <1>1, <1>12 DEF Settled
<1>14. FrameInv'
  <2>1. \A i \in Slots : Gap(hw', i) < Gap(hw', write_ptr)
                         => ring[i] = Out' + Gap(hw', i) + 1
    <3> SUFFICES ASSUME NEW i \in Slots, Gap(hw', i) < Gap(hw', write_ptr)
                 PROVE  ring[i] = Out' + Gap(hw', i) + 1
      OBVIOUS
    <3>1. i # hw
      BY ONLY <1>2, <1>4, <1>5, <1>7, Gap(hw', i) < Gap(hw', write_ptr), SizeType
    <3>2. Gap(hw', i) = Gap(hw, i) - 1 /\ Gap(hw, i) \in Nat /\ Gap(hw, write_ptr) \in Nat
      BY ONLY <1>2, <1>4, <1>5, <3>1
    <3>3. Gap(hw, i) < Gap(hw, write_ptr)
      BY ONLY <1>7, <3>2, Gap(hw', i) < Gap(hw', write_ptr)
    <3>4. ring[i] = Out + Gap(hw, i) + 1
      BY ONLY TxqInv, <3>3 DEF TxqInv, FrameInv
    <3> QED  BY ONLY <1>2, <1>9, <3>2, <3>4
  <2>2. \A i \in Slots : Gap(hw', i) > Gap(hw', write_ptr) => Settled(ring[i])'
    <3> SUFFICES ASSUME NEW i \in Slots, Gap(hw', i) > Gap(hw', write_ptr)
                 PROVE  Settled(ring[i])'
      OBVIOUS
    <3>1. CASE i = hw
      BY ONLY <1>1, <1>10, <1>12, <3>1 DEF Settled
    <3>2. CASE i # hw
      <4>1. Gap(hw', i) = Gap(hw, i) - 1 /\ Gap(hw, i) \in Nat /\ Gap(hw, write_ptr) \in Nat
        BY ONLY <1>2, <1>4, <1>5, <3>2
      <4>2. Gap(hw, i) > Gap(hw, write_ptr)
        BY ONLY <1>7, <4>1, Gap(hw', i) > Gap(hw', write_ptr)
      <4>3. Settled(ring[i])
        BY ONLY TxqInv, <4>2 DEF TxqInv, FrameInv
      <4> QED  BY ONLY <1>1, <1>13, <4>3
    <3> QED  BY ONLY <3>1, <3>2
  <2>3. IF Posting' THEN ring'[write_ptr'] = Len(taken') ELSE Settled(ring[write_ptr])'
    <3>1. Posting' <=> Posting
      BY ONLY <1>1 DEF Posting
    <3>2. IF Posting THEN ring[write_ptr] = Len(taken) ELSE Settled(ring[write_ptr])
      BY ONLY TxqInv DEF TxqInv, FrameInv
    <3> QED  BY ONLY <1>1, <1>13, <3>1, <3>2
  <2>4. 1 .. Out' \subseteq Range(onair') \cup dropped'
    <3>1. 1 .. Out \subseteq Range(onair) \cup dropped
      BY ONLY TxqInv DEF TxqInv, FrameInv
    <3>2. 1 .. Out' = (1 .. Out) \cup {Out + 1}
      BY ONLY <1>2, <1>9
    <3> QED  BY ONLY <1>1, <1>12, <3>1, <3>2
  <2>5. \A i \in DOMAIN onair : onair[i] \in 1 .. Out
    BY ONLY TxqInv DEF TxqInv, FrameInv
  <2>6. \A i \in DOMAIN onair' : onair'[i] \in 1 .. Out'
    <3> SUFFICES ASSUME NEW i \in DOMAIN onair' PROVE onair'[i] \in 1 .. Out'
      OBVIOUS
    <3>0. i \in 1 .. Len(onair) + 1
      BY ONLY <1>11
    <3>1. CASE i = Len(onair) + 1
      BY ONLY <1>2, <1>9, <1>11, <3>1
    <3>2. CASE i # Len(onair) + 1
      <4>1. i \in 1 .. Len(onair) /\ i \in DOMAIN onair
        BY ONLY <1>11, <3>0, <3>2
      <4>2. onair'[i] = onair[i] /\ onair[i] \in 1 .. Out
        BY ONLY <1>11, <2>5, <4>1
      <4> QED  BY ONLY <1>2, <1>9, <4>2
    <3> QED  BY ONLY <3>1, <3>2
  <2>7. \A i, j \in DOMAIN onair : i < j => onair[i] < onair[j]
    BY ONLY TxqInv DEF TxqInv, FrameInv
  <2>8. \A i, j \in DOMAIN onair' : i < j => onair'[i] < onair'[j]
    <3> SUFFICES ASSUME NEW i \in DOMAIN onair', NEW j \in DOMAIN onair', i < j
                 PROVE  onair'[i] < onair'[j]
      OBVIOUS
    <3>0. i \in 1 .. Len(onair) + 1 /\ j \in 1 .. Len(onair) + 1
      BY ONLY <1>11
    <3>1. i \in 1 .. Len(onair) /\ i \in DOMAIN onair
      BY ONLY <1>11, <3>0, i < j
    <3>2. onair'[i] = onair[i] /\ onair[i] \in 1 .. Out
      BY ONLY <1>11, <2>5, <3>1
    <3>3. CASE j = Len(onair) + 1
      BY ONLY <1>2, <1>11, <3>2, <3>3
    <3>4. CASE j # Len(onair) + 1
      <4>1. j \in 1 .. Len(onair) /\ j \in DOMAIN onair
        BY ONLY <1>11, <3>0, <3>4
      <4> QED  BY ONLY <1>11, <2>7, <3>1, <4>1, i < j
    <3> QED  BY ONLY <3>3, <3>4
  <2>9. Out' >= 0
    BY ONLY <1>2, <1>9
  <2>10. /\ \A i \in Slots : Gap(hw, i)' = Gap(hw', i)
         /\ Gap(hw, write_ptr)' = Gap(hw', write_ptr) /\ Slots' = Slots
         /\ \A i : ring'[i] = ring[i]
    BY ONLY <1>1 DEF Gap, Slots
  <2> QED
    BY ONLY <2>1, <2>2, <2>3, <2>4, <2>6, <2>8, <2>9, <2>10 DEF FrameInv
<1>15. PointerInv'
  <2>1. /\ \A i \in DOMAIN answers : Gap(read_ptr, answers[i]) <= Gap(read_ptr, hw)
        /\ \A i, j \in DOMAIN answers :
              i <= j => Gap(read_ptr, answers[i]) <= Gap(read_ptr, answers[j])
        /\ \A t \in Threads : pc[t] \in {"fill", "post"} =>
              idx[t] = write_ptr /\ Gap(read_ptr, write_ptr) <= Size - 3
        /\ Gap(read_ptr, write_ptr) <= Size - 2
    BY DEF TxqInv, PointerInv
  <2>2. /\ DOMAIN answers' = 1 .. Len(answers) + 1 /\ DOMAIN answers = 1 .. Len(answers)
        /\ Len(answers) \in Nat /\ answers'[Len(answers) + 1] = hw'
        /\ \A i \in 1 .. Len(answers) : answers'[i] = answers[i] /\ answers[i] \in Slots
    BY ONLY <1>1, <1>2, <1>3
  <2>3. Gap(read_ptr, hw) \in Nat
        /\ \A i \in 1 .. Len(answers) : Gap(read_ptr, answers[i]) \in Nat
    BY ONLY <1>2, <1>4, <2>2
  <2>4. \A i \in DOMAIN answers' : Gap(read_ptr, answers'[i]) <= Gap(read_ptr, hw')
    BY ONLY <1>8, <2>1, <2>2, <2>3
  <2>5. \A i, j \in DOMAIN answers' :
              i <= j => Gap(read_ptr, answers'[i]) <= Gap(read_ptr, answers'[j])
    BY ONLY <1>8, <2>1, <2>2, <2>3
  <2>6. Gap(read_ptr, hw') + Gap(hw', write_ptr) = Gap(read_ptr, write_ptr)
    BY ONLY <1>2, <1>4, <1>7, <1>8
  <2>7. /\ Gap(read_ptr, hw)' = Gap(read_ptr, hw')
        /\ Gap(hw, write_ptr)' = Gap(hw', write_ptr)
        /\ Gap(read_ptr, write_ptr)' = Gap(read_ptr, write_ptr)
        /\ \A i \in DOMAIN answers' :
              Gap(read_ptr, answers[i])' = Gap(read_ptr, answers'[i])
    BY ONLY <1>1 DEF Gap
  <2> QED  BY ONLY <1>1, <2>1, <2>4, <2>5, <2>6, <2>7 DEF PointerInv
<1>16. TxqTypeOK'
  <2>1. answers' \in Seq(Slots)
    BY ONLY <1>1, <1>2, <1>3
  <2> QED  BY <1>1, <1>3, <2>1 DEF TxqInv, TxqTypeOK, Slots
<1> QED  BY <1>1, <1>11, <1>14, <1>15, <1>16 DEF TxqInv

\* The worker takes back what the first answer covers, without tx_lock: the
\* room a sender has found can only grow.
LEMMA ReclaimInv ==
    ASSUME TxqInv, Reclaim
    PROVE  TxqInv'
<1> DEFINE a == answers[1]
<1>1. /\ answers # << >> /\ read_ptr' = Head(answers) % Size /\ answers' = Tail(answers)
      /\ UNCHANGED <<lock, pc, idx, write_ptr, ring, hw, bell, taken, onair, dropped>>
  BY DEF Reclaim, txvars
<1>2. /\ write_ptr \in Slots /\ hw \in Slots /\ read_ptr \in Slots
      /\ answers \in Seq(Slots)
  BY TxqTypes
<1>3. /\ Len(answers) \in Nat /\ DOMAIN answers = 1 .. Len(answers) /\ Len(answers) >= 1
      /\ Head(answers) = a /\ a \in Slots
      /\ answers' \in Seq(Slots) /\ DOMAIN answers' = 1 .. Len(answers) - 1
      /\ \A i \in 1 .. Len(answers) - 1 : answers'[i] = answers[i + 1]
      /\ \A i \in 1 .. Len(answers) : answers[i] \in Slots
  BY ONLY <1>1, <1>2
<1>4. read_ptr' = a
  <2>1. a % Size = a
    BY ONLY <1>3, SizeType, Remainder DEF Slots
  <2> QED  BY ONLY <1>1, <1>3, <2>1
<1> HIDE DEF a
<1>5. \A i, j \in Slots : Gap(i, j) \in Nat /\ Gap(i, j) < Size
  BY GapFacts
<1>6. \A b \in Slots : Gap(read_ptr, a) <= Gap(read_ptr, b)
                       => Gap(a, b) = Gap(read_ptr, b) - Gap(read_ptr, a)
  BY ONLY <1>2, <1>3, GapFacts
<1>7. /\ \A i \in DOMAIN answers : Gap(read_ptr, answers[i]) <= Gap(read_ptr, hw)
      /\ \A i, j \in DOMAIN answers :
            i <= j => Gap(read_ptr, answers[i]) <= Gap(read_ptr, answers[j])
      /\ \A t \in Threads : pc[t] \in {"fill", "post"} =>
            idx[t] = write_ptr /\ Gap(read_ptr, write_ptr) <= Size - 3
      /\ Gap(read_ptr, hw) + Gap(hw, write_ptr) = Gap(read_ptr, write_ptr)
      /\ Gap(read_ptr, write_ptr) <= Size - 2 /\ bell = write_ptr
  BY DEF TxqInv, PointerInv
<1>8. Gap(read_ptr, a) <= Gap(read_ptr, hw) /\ Gap(read_ptr, a) <= Gap(read_ptr, write_ptr)
  <2>1. Gap(read_ptr, a) <= Gap(read_ptr, hw)
    <3>1. \A i \in DOMAIN answers : Gap(read_ptr, answers[i]) <= Gap(read_ptr, hw)
      BY ONLY <1>7
    <3>2. 1 \in DOMAIN answers
      BY ONLY <1>3
    <3> QED  BY ONLY <3>1, <3>2 DEF a
  <2>2. /\ Gap(read_ptr, a) \in Nat /\ Gap(read_ptr, hw) \in Nat
        /\ Gap(hw, write_ptr) \in Nat /\ Gap(read_ptr, write_ptr) \in Nat
    BY ONLY <1>2, <1>3, <1>5
  <2> QED  BY ONLY <1>7, <2>1, <2>2
<1>9. /\ Gap(a, hw) = Gap(read_ptr, hw) - Gap(read_ptr, a)
      /\ Gap(a, write_ptr) = Gap(read_ptr, write_ptr) - Gap(read_ptr, a)
  BY ONLY <1>2, <1>6, <1>8
<1>10. \A i \in 1 .. Len(answers) - 1 :
          /\ Gap(a, answers'[i]) = Gap(read_ptr, answers[i + 1]) - Gap(read_ptr, a)
          /\ Gap(read_ptr, answers[i + 1]) \in Nat
  <2> TAKE i \in 1 .. Len(answers) - 1
  <2>1. i + 1 \in DOMAIN answers /\ 1 \in DOMAIN answers /\ 1 <= i + 1
    BY ONLY <1>3
  <2>2. Gap(read_ptr, a) <= Gap(read_ptr, answers[i + 1]) /\ answers[i + 1] \in Slots
    BY ONLY <1>3, <1>7, <2>1 DEF a
  <2> QED  BY ONLY <1>2, <1>3, <1>5, <1>6, <2>2
<1>11. /\ Gap(read_ptr, a) \in Nat /\ Gap(read_ptr, hw) \in Nat
       /\ Gap(hw, write_ptr) \in Nat /\ Gap(read_ptr, write_ptr) \in Nat
  BY ONLY <1>2, <1>3, <1>5
<1>g. /\ Gap(read_ptr, hw) + Gap(hw, write_ptr) = Gap(read_ptr, write_ptr)
      /\ Gap(read_ptr, write_ptr) <= Size - 2 /\ bell = write_ptr
  BY ONLY <1>7
<1>12. PointerInv'
  <2>1. \A i \in DOMAIN answers' : Gap(a, answers'[i]) <= Gap(a, hw)
    <3> TAKE i \in DOMAIN answers'
    <3>1. i \in 1 .. Len(answers) - 1 /\ i + 1 \in DOMAIN answers
      BY ONLY <1>3
    <3>2. Gap(read_ptr, answers[i + 1]) <= Gap(read_ptr, hw)
      BY ONLY <1>7, <3>1
    <3>3. /\ Gap(a, answers'[i]) = Gap(read_ptr, answers[i + 1]) - Gap(read_ptr, a)
          /\ Gap(read_ptr, answers[i + 1]) \in Nat
      BY ONLY <1>10, <3>1
    <3> QED  BY ONLY <1>9, <1>11, <3>2, <3>3
  <2>2. \A i, j \in DOMAIN answers' : i <= j => Gap(a, answers'[i]) <= Gap(a, answers'[j])
    <3> SUFFICES ASSUME NEW i \in DOMAIN answers', NEW j \in DOMAIN answers', i <= j
                 PROVE  Gap(a, answers'[i]) <= Gap(a, answers'[j])
      OBVIOUS
    <3>1. /\ i \in 1 .. Len(answers) - 1 /\ i + 1 \in DOMAIN answers
          /\ j \in 1 .. Len(answers) - 1 /\ j + 1 \in DOMAIN answers
          /\ i + 1 <= j + 1
      BY ONLY <1>3, i <= j
    <3>2. Gap(read_ptr, answers[i + 1]) <= Gap(read_ptr, answers[j + 1])
      BY ONLY <1>7, <3>1
    <3>3. /\ Gap(a, answers'[i]) = Gap(read_ptr, answers[i + 1]) - Gap(read_ptr, a)
          /\ Gap(a, answers'[j]) = Gap(read_ptr, answers[j + 1]) - Gap(read_ptr, a)
          /\ Gap(read_ptr, answers[i + 1]) \in Nat /\ Gap(read_ptr, answers[j + 1]) \in Nat
      BY ONLY <1>10, <3>1
    <3> QED  BY ONLY <1>11, <3>2, <3>3
  <2>3. Gap(a, hw) + Gap(hw, write_ptr) = Gap(a, write_ptr) /\ Gap(a, write_ptr) <= Size - 2
    BY ONLY <1>g, <1>9, <1>11, SizeType
  <2>4. \A t \in Threads : pc[t] \in {"fill", "post"} =>
            idx[t] = write_ptr /\ Gap(a, write_ptr) <= Size - 3
    BY ONLY <1>7, <1>9, <1>11, SizeType
  <2>5. /\ Gap(read_ptr, hw)' = Gap(a, hw)
        /\ Gap(hw, write_ptr)' = Gap(hw, write_ptr)
        /\ Gap(read_ptr, write_ptr)' = Gap(a, write_ptr)
        /\ \A i \in DOMAIN answers' :
              Gap(read_ptr, answers[i])' = Gap(a, answers'[i])
    BY ONLY <1>1, <1>4 DEF Gap
  <2> QED  BY ONLY <1>1, <1>g, <2>1, <2>2, <2>3, <2>4, <2>5 DEF PointerInv
<1>13. FrameInv'
  <2>1. Posting' <=> Posting
    BY ONLY <1>1 DEF Posting
  <2> QED  BY <1>1, <2>1, FramesKept DEF TxqInv
<1>14. TxqTypeOK'
  BY <1>1, <1>3, <1>4 DEF TxqInv, TxqTypeOK, Slots
<1> QED  BY <1>1, <1>12, <1>13, <1>14 DEF TxqInv

\* The queue set up anew while no sender is inside tx_frame.
LEMMA AllocInv ==
    ASSUME TxqInv, TxqAlloc, \A t \in Threads : pc[t] = "idle"
    PROVE  TxqInv'
<1>1. /\ answers = << >> /\ write_ptr' = Start /\ read_ptr' = Start
      /\ hw' = Start /\ bell' = Start
      /\ dropped' = dropped \cup {ring[i] : i \in Owned}
      /\ UNCHANGED <<lock, pc, idx, ring, answers, taken, onair>>
  BY DEF TxqAlloc, txvars
<1>2. /\ write_ptr \in Slots /\ hw \in Slots /\ bell \in Slots /\ Start \in Slots
      /\ Len(taken) \in Nat /\ Out \in Nat /\ bell = write_ptr
  BY TxqTypes, StartAssumption DEF Slots, TxqInv, PointerInv
<1>3. \A i, j \in Slots : Gap(i, j) \in Nat /\ Gap(i, j) < Size
  BY GapFacts
<1>4. Gap(Start, Start) = 0
  BY ONLY <1>2, GapFacts
<1>5. ~Posting /\ ~Posting'
  BY <1>1 DEF Posting
<1>6. Out = Len(taken) - Gap(hw, write_ptr) /\ Out' = Len(taken)
  <2>1. Out = Len(taken) - Gap(hw, write_ptr) /\ Out' = Len(taken) - Gap(Start, Start)
    BY ONLY <1>1, <1>5 DEF Out, Posted, Gap
  <2> QED  BY ONLY <1>2, <1>4, <2>1
<1>7. dropped' = dropped \cup {ring[i] : i \in {j \in Slots : Gap(hw, j) < Gap(hw, write_ptr)}}
  BY ONLY <1>1, <1>2, OwnedGap
<1>8. \A i \in Slots : Settled(ring[i])'
  <2> SUFFICES ASSUME NEW i \in Slots PROVE Settled(ring[i])'
    OBVIOUS
  <2>1. \A f : Settled(f) => Settled(f)'
    BY ONLY <1>1, <1>7 DEF Settled
  <2>2. CASE Gap(hw, i) < Gap(hw, write_ptr)
    <3>1. ring[i] \in dropped'
      BY ONLY <1>7, <2>2
    <3> QED  BY ONLY <1>1, <3>1 DEF Settled
  <2>3. CASE Gap(hw, i) > Gap(hw, write_ptr)
    <3>1. Settled(ring[i])
      BY ONLY TxqInv, <2>3 DEF TxqInv, FrameInv
    <3> QED  BY ONLY <1>1, <2>1, <3>1
  <2>4. CASE Gap(hw, i) = Gap(hw, write_ptr)
    <3>1. i = write_ptr
      BY ONLY <1>2, <2>4, GapFacts
    <3>2. Settled(ring[write_ptr])
      BY ONLY TxqInv, <1>5 DEF TxqInv, FrameInv
    <3> QED  BY ONLY <1>1, <2>1, <3>1, <3>2
  <2> QED
    <3>1. Gap(hw, i) \in Nat /\ Gap(hw, write_ptr) \in Nat
      BY ONLY <1>2, <1>3
    <3> QED  BY ONLY <2>2, <2>3, <2>4, <3>1
<1>9. 1 .. Len(taken) \subseteq Range(onair) \cup dropped'
  <2> SUFFICES ASSUME NEW n \in 1 .. Len(taken) PROVE n \in Range(onair) \cup dropped'
    OBVIOUS
  <2>1. CASE n <= Out
    <3>1. 1 .. Out \subseteq Range(onair) \cup dropped
      BY ONLY TxqInv DEF TxqInv, FrameInv
    <3> QED  BY ONLY <1>1, <1>2, <2>1, <3>1
  <2>2. CASE n > Out
    <3>1. n - Out - 1 \in Nat /\ n - Out - 1 < Gap(hw, write_ptr) /\ Gap(hw, write_ptr) < Size
          /\ Gap(hw, write_ptr) \in Nat
      <4>1. Gap(hw, write_ptr) \in Nat /\ Gap(hw, write_ptr) < Size
        BY ONLY <1>2, <1>3
      <4> QED  BY ONLY <1>2, <1>6, <2>2, <4>1
    <3>2. n - Out - 1 \in Slots
      BY ONLY <3>1, SizeType DEF Slots
    <3>3. PICK i \in Slots : Gap(hw, i) = n - Out - 1
      BY ONLY <1>2, <3>2, GapOnto
    <3>4. ring[i] = Out + Gap(hw, i) + 1
      BY ONLY TxqInv, <3>1, <3>3 DEF TxqInv, FrameInv
    <3>5. ring[i] = n
      BY ONLY <1>2, <3>3, <3>4
    <3>6. ring[i] \in dropped'
      BY ONLY <1>7, <3>1, <3>3
    <3> QED  BY ONLY <3>5, <3>6
  <2> QED  BY ONLY <1>2, <2>1, <2>2
<1>10. \A i \in DOMAIN onair : onair[i] \in 1 .. Len(taken)
  <2> SUFFICES ASSUME NEW i \in DOMAIN onair PROVE onair[i] \in 1 .. Len(taken)
    OBVIOUS
  <2>1. onair[i] \in 1 .. Out
    BY ONLY TxqInv DEF TxqInv, FrameInv
  <2>2. Gap(hw, write_ptr) \in Nat
    BY ONLY <1>2, <1>3
  <2> QED  BY ONLY <1>2, <1>6, <2>1, <2>2
<1>11. FrameInv'
  <2>1. \A i, j \in DOMAIN onair : i < j => onair[i] < onair[j]
    BY ONLY TxqInv DEF TxqInv, FrameInv
  <2>2. /\ \A i \in Slots : Gap(hw, i)' = Gap(Start, i) /\ Gap(Start, i) \in Nat
        /\ Gap(hw, write_ptr)' = 0 /\ Slots' = Slots
    BY ONLY <1>1, <1>2, <1>3, <1>4 DEF Gap, Slots
  <2>3. \A i \in Slots : ~(Gap(hw, i)' < Gap(hw, write_ptr)')
    BY ONLY <2>2
  <2>4. Settled(ring[write_ptr])'
    BY ONLY <1>1, <1>2, <1>8
  <2>5. Out' >= 0 /\ 1 .. Out' \subseteq Range(onair') \cup dropped'
    BY ONLY <1>1, <1>2, <1>6, <1>9
  <2>6. \A i \in DOMAIN onair' : onair'[i] \in 1 .. Out'
    BY ONLY <1>1, <1>6, <1>10
  <2> QED
    BY ONLY <1>1, <1>5, <1>8, <2>1, <2>2, <2>3, <2>4, <2>5, <2>6 DEF FrameInv
<1>12. PointerInv'
  <2>1. \A t \in Threads : pc'[t] \notin {"fill", "post"}
    BY <1>1
  <2>2. DOMAIN answers' = {}
    BY ONLY <1>1
  <2>3. 0 <= Size - 2 /\ 0 + 0 = 0
    BY ONLY SizeType
  <2>4. Gap(read_ptr, hw)' = 0 /\ Gap(hw, write_ptr)' = 0 /\ Gap(read_ptr, write_ptr)' = 0
    BY ONLY <1>1, <1>4 DEF Gap
  <2> QED  BY ONLY <1>1, <2>1, <2>2, <2>3, <2>4 DEF PointerInv
<1>13. TxqTypeOK'
  BY <1>1, <1>2 DEF TxqInv, TxqTypeOK, Slots
<1> QED  BY <1>1, <1>11, <1>12, <1>13 DEF TxqInv

\* The queue of the first connection.
LEMMA TxqInitInv == TxqInit => TxqInv
<1> SUFFICES ASSUME TxqInit PROVE TxqInv
  OBVIOUS
<1>1. /\ lock = Free /\ pc = [t \in Threads |-> "idle"] /\ idx = [t \in Threads |-> 0]
      /\ write_ptr = Start /\ read_ptr = Start /\ hw = Start /\ bell = Start
      /\ ring = [i \in Slots |-> NoFrame] /\ answers = << >> /\ taken = << >>
      /\ onair = << >> /\ dropped = {}
  BY DEF TxqInit
<1>2. Start \in Slots /\ 0 \in Slots
  BY StartAssumption, SizeType DEF Slots
<1>3. Gap(Start, Start) = 0 /\ \A i \in Slots : Gap(Start, i) \in Nat
  BY <1>2, GapFacts
<1>4. ~Posting
  BY <1>1 DEF Posting
<1>5. Len(taken) = 0 /\ Out = 0
  BY ONLY <1>1, <1>3, <1>4 DEF Out, Posted
<1>6. FrameInv
  <2>1. \A i \in Slots : Settled(ring[i])
    BY ONLY <1>1 DEF Settled
  <2>2. \A i \in Slots : ~(Gap(hw, i) < Gap(hw, write_ptr))
    BY ONLY <1>1, <1>3
  <2>3. DOMAIN onair = {} /\ 1 .. Out = {}
    BY ONLY <1>1, <1>5
  <2> QED  BY ONLY <1>1, <1>2, <1>4, <1>5, <2>1, <2>2, <2>3 DEF FrameInv
<1>7. PointerInv
  BY ONLY <1>1, <1>3, SizeType DEF PointerInv
<1>8. TxqTypeOK
  BY <1>1, <1>2, FrameAssumption DEF TxqTypeOK, NoFrame
<1> QED  BY <1>1, <1>5, <1>6, <1>7, <1>8, FrameAssumption DEF TxqInv

\* Steps outside the queue leave it as it is.
LEMMA TxqKept ==
    ASSUME TxqInv, UNCHANGED txqvars
    PROVE  TxqInv'
  BY DEF TxqInv, TxqTypeOK, PointerInv, FrameInv, Out, Posted, Posting, Settled,
         Gap, Slots, txqvars, txvars

-----------------------------------------------------------------------------
(* The callers.                                                            *)

(***************************************************************************)
(* The callers: a net_write begins only while the station is up, and while *)
(* it lasts the worker gets no further than leaving, which takes neither   *)
(* the key's flag nor the address away.                                    *)
(***************************************************************************)
NetType ==
    [pc : {"idle", "check", "header", "flag", "send", "return"}, off : Nat,
     size : Nat, ap : Aps, enc : BOOLEAN, ok : BOOLEAN]

LinkInv ==
    /\ net \in NetType
    /\ {cur_ap, session} \subseteq Aps
    /\ link \in {"up", "deauth", "remove", "down", "picked", "alloc", "joining",
                 "keyed"}
    /\ state = "CONNECTED" <=> link = "up"
    /\ link \in {"up", "deauth", "remove", "keyed"} => pairwise_key_set = TRUE
    /\ link \in {"up", "deauth", "remove", "joining", "keyed"} => cur_ap = session
    /\ net.pc # "idle" => link \in {"up", "deauth", "remove"}
    /\ net.pc \in {"flag", "send"} => net.ap = cur_ap
    /\ net.pc = "send" => net.enc = TRUE
    /\ pc[Ipc] # "idle" => net.pc = "send"

TagInv ==
    /\ tags \in Seq([by : Threads, n : Nat, ap : Aps, enc : BOOLEAN, into : Aps])
    /\ next \in Nat
    /\ SessionFrames

IInv == TxqInv /\ LinkInv /\ TagInv

-----------------------------------------------------------------------------
\* While the queue is set up anew no sender is inside tx_frame.
LEMMA AllocQuiet ==
    ASSUME LinkInv, Alloc
    PROVE  \A t \in Threads : pc[t] = "idle"
  BY ThreadsAssumption DEF LinkInv, Alloc, TxqAlloc

\* Every step keeps the queue sound.
LEMMA NextTxq ==
    ASSUME TxqInv, LinkInv, [Next]_vars
    PROVE  TxqInv'
<1>1. Ipc \in Threads /\ Worker \in Threads
  BY ThreadsAssumption
<1>2. CASE UNCHANGED txqvars
  BY <1>2, TxqKept
<1>3. CASE Send
  BY <1>1, <1>3, LockInv, RefuseInv, AcceptInv, PostInv DEF Send
<1>4. CASE SendFill
  BY <1>1, <1>4, FillInv DEF SendFill
<1>5. CASE SendDone
  BY <1>1, <1>5, UnlockInv DEF SendDone
<1>6. CASE WorkerSend
  BY <1>1, <1>6, LockInv, RefuseInv, AcceptInv, PostInv, UnlockInv DEF WorkerSend
<1>7. CASE WorkerFill
  BY <1>1, <1>7, FillInv DEF WorkerFill
<1>8. CASE OnAir
  BY <1>8, TransmitInv DEF OnAir
<1>9. CASE Poll
  BY <1>9, ReclaimInv DEF Poll
<1>10. CASE Alloc
  BY <1>10, AllocQuiet, AllocInv DEF Alloc
<1>11. CASE UNCHANGED vars
  BY <1>2, <1>11 DEF vars
<1>12. CASE NetWrite \/ Check \/ Header \/ Flag \/ NetReturn
  BY <1>2, <1>12 DEF NetWrite, Check, Header, Flag, NetReturn
<1>13. CASE Leave \/ Disconnected \/ Pick \/ Reset \/ KeySet \/ Up \/ Failed
  BY <1>2, <1>13 DEF Leave, Disconnected, Pick, Reset, KeySet, Up, Failed
<1> QED
  BY <1>3, <1>4, <1>5, <1>6, <1>7, <1>8, <1>9, <1>10, <1>11, <1>12, <1>13
     DEF Next, NetStep

\* The IPC thread enters tx_frame only from net_write: the steps of the others
\* leave it where it is.
LEMMA IpcStays ==
    ASSUME TxqInv, [Next]_vars, ~Send, ~SendFill, ~SendDone
    PROVE  pc'[Ipc] = pc[Ipc]
<1>1. Ipc \in Threads /\ Worker \in Threads /\ Ipc # Worker
  BY ThreadsAssumption
<1>2. pc \in [Threads -> {"idle", "room", "fill", "post", "unlock"}]
  BY TxqTypes
<1>3. CASE WorkerSend \/ WorkerFill
  BY <1>1, <1>2, <1>3
     DEF WorkerSend, WorkerFill, Lock, Refuse, Accept, Post, Unlock, Fill
<1>4. CASE OnAir \/ Poll \/ Alloc
  BY <1>4 DEF OnAir, Poll, Alloc, Transmit, Reclaim, TxqAlloc, txvars
<1>5. CASE UNCHANGED vars
  BY <1>5 DEF vars, txqvars, txvars
<1>6. CASE NetWrite \/ Check \/ Header \/ Flag \/ NetReturn
  BY <1>6 DEF NetWrite, Check, Header, Flag, NetReturn, txqvars, txvars
<1>7. CASE Leave \/ Disconnected \/ Pick \/ Reset \/ KeySet \/ Up \/ Failed
  BY <1>7 DEF Leave, Disconnected, Pick, Reset, KeySet, Up, Failed, txqvars, txvars
<1> QED  BY <1>3, <1>4, <1>5, <1>6, <1>7 DEF Next, NetStep

\* Every step keeps the callers in order, as long as no net_write outlasts the
\* worker's way to the next join.
LEMMA NextLink ==
    ASSUME TxqInv, LinkInv, [Next]_vars, ~Overlap
    PROVE  LinkInv'
<1>1. Ipc \in Threads
  BY ThreadsAssumption
<1>2. pc \in [Threads -> {"idle", "room", "fill", "post", "unlock"}]
  BY TxqTypes
<1>3. CASE Send
  BY <1>3 DEF LinkInv, Send, mlme
<1>4. CASE SendFill
  BY <1>4 DEF LinkInv, NetType, SendFill, Fill, mlme
<1>5. CASE SendDone
  <2>1. pc[Ipc] = "unlock" /\ pc'[Ipc] = "idle"
    BY <1>1, <1>2, <1>5 DEF SendDone, Unlock
  <2>2. net' \in NetType /\ net'.pc \in {"check", "return"}
    <3>1. net \in NetType
      BY DEF LinkInv
    <3>2. CASE net.ok
      <4>1. net' = [net EXCEPT !.pc = "check", !.off = net.off + 1]
        BY <1>5, <3>2 DEF SendDone
      <4>2. net.off + 1 \in Nat
        BY ONLY <3>1 DEF NetType
      <4> QED  BY ONLY <3>1, <4>1, <4>2 DEF NetType
    <3>3. CASE ~net.ok
      <4>1. net' = [net EXCEPT !.pc = "return"]
        BY <1>5, <3>3 DEF SendDone
      <4> QED  BY ONLY <3>1, <4>1 DEF NetType
    <3> QED  BY <3>2, <3>3
  <2>3. UNCHANGED mlme
    BY <1>5 DEF SendDone
  <2> QED  BY <2>1, <2>2, <2>3 DEF LinkInv, mlme
<1>6. CASE ~Send /\ ~SendFill /\ ~SendDone
  <2>1. pc'[Ipc] = pc[Ipc]
    BY <1>6, IpcStays
  <2>2. CASE UNCHANGED <<mlme, net>>
    BY <2>1, <2>2 DEF LinkInv, mlme
  <2>3. CASE NetWrite
    <3>1. PICK n \in 1 .. Batch : net' = [Quiet EXCEPT !.pc = "check", !.size = n]
      BY <2>3 DEF NetWrite
    <3>2. n \in Nat /\ cur_ap \in Aps
      BY DataAssumption DEF LinkInv
    <3>3. net' \in NetType /\ net'.pc = "check"
      BY <3>1, <3>2 DEF NetType, Quiet
    <3>4. net.pc = "idle" /\ link = "up" /\ UNCHANGED mlme
      BY <2>3 DEF NetWrite, LinkInv
    <3> QED  BY <2>1, <3>3, <3>4 DEF LinkInv, mlme
  <2>4. CASE Check
    BY <2>1, <2>4 DEF LinkInv, NetType, Check, mlme
  <2>5. CASE Header
    BY <2>1, <2>5 DEF LinkInv, NetType, Header, mlme
  <2>6. CASE Flag
    BY <2>1, <2>6 DEF LinkInv, NetType, Flag, mlme
  <2>7. CASE NetReturn
    BY <2>1, <2>7 DEF LinkInv, NetType, NetReturn, Quiet, mlme
  <2>8. CASE Leave
    BY <2>1, <2>8 DEF LinkInv, Leave
  <2>9. CASE Disconnected
    BY <2>1, <2>9 DEF LinkInv, Disconnected, Outlasted
  <2>10. CASE Pick
    BY <2>1, <2>10 DEF LinkInv, Pick, Outlasted
  <2>11. CASE Reset
    BY <2>1, <2>11 DEF LinkInv, Reset
  <2>12. CASE Alloc
    BY <2>1, <2>12 DEF LinkInv, Alloc
  <2>13. CASE KeySet
    BY <2>1, <2>13 DEF LinkInv, KeySet
  <2>14. CASE Up
    BY <2>1, <2>14 DEF LinkInv, Up
  <2>15. CASE Failed
    BY <2>1, <2>15 DEF LinkInv, Failed
  <2>16. CASE WorkerSend \/ WorkerFill \/ OnAir \/ Poll \/ UNCHANGED vars
    BY <2>2, <2>16 DEF WorkerSend, WorkerFill, OnAir, Poll, vars
  <2> QED
    BY <1>6, <2>3, <2>4, <2>5, <2>6, <2>7, <2>8, <2>9, <2>10, <2>11, <2>12, <2>13,
       <2>14, <2>15, <2>16 DEF Next, NetStep
<1> QED  BY <1>3, <1>4, <1>5, <1>6

\* Every frame that enters the queue carries the session's address, and netd's
\* carry the mark for encryption.
LEMMA NextTag ==
    ASSUME TxqInv, LinkInv, TagInv, [Next]_vars
    PROVE  TagInv'
<1> DEFINE T == [by : Threads, n : Nat, ap : Aps, enc : BOOLEAN, into : Aps]
<1>1. Ipc \in Threads /\ Worker \in Threads /\ Ipc # Worker
  BY ThreadsAssumption
<1>2. tags \in Seq(T) /\ next \in Nat /\ net \in NetType
  BY DEF TagInv, LinkInv
<1>3. ASSUME NEW f \in T, f.by = Ipc => f.enc /\ f.ap = f.into,
             tags' = Append(tags, f), next' = next
      PROVE  TagInv'
  <2>1. tags' \in Seq(T)
    BY ONLY <1>2, <1>3
  <2>2. SUFFICES ASSUME NEW i \in DOMAIN tags', tags'[i].by = Ipc
                 PROVE  tags'[i].enc /\ tags'[i].ap = tags'[i].into
    BY <1>2, <1>3, <2>1 DEF TagInv, SessionFrames
  <2>3. i \in 1 .. Len(tags) + 1
    BY ONLY <1>2, <1>3, <2>2
  <2>4. CASE i = Len(tags) + 1
    <3>1. tags'[i] = f
      BY ONLY <1>2, <1>3, <2>4
    <3> QED  BY ONLY <1>3, <2>2, <3>1
  <2>5. CASE i \in 1 .. Len(tags)
    <3>0. i \in DOMAIN tags
      BY ONLY <1>2, <2>5
    <3>1. tags'[i] = tags[i] /\ i \in DOMAIN tags
      BY ONLY <1>2, <1>3, <2>5, <3>0
    <3> QED  BY <2>2, <3>1 DEF TagInv, SessionFrames
  <2> QED  BY ONLY <1>2, <2>3, <2>4, <2>5
<1>4. CASE SendFill
  <2> DEFINE f == [by |-> Ipc, n |-> next + net.off + 1, ap |-> net.ap,
                   enc |-> net.enc, into |-> session]
  <2>1. tags' = Append(tags, f) /\ next' = next /\ pc[Ipc] = "fill"
    BY <1>4 DEF SendFill, Fill
  <2>2. net.enc = TRUE /\ net.ap = session /\ session \in Aps
    BY <2>1 DEF LinkInv
  <2>3. next + net.off + 1 \in Nat
    BY ONLY <1>2 DEF NetType
  <2>4. f \in T
    BY ONLY <1>1, <2>2, <2>3
  <2>5. f.enc /\ f.ap = f.into
    BY ONLY <2>2
  <2> HIDE DEF f
  <2> QED  BY <1>3, <2>1, <2>4, <2>5
<1>5. CASE WorkerFill
  <2> DEFINE f == [by |-> Worker, n |-> 0, ap |-> cur_ap, enc |-> FALSE,
                   into |-> session]
  <2>1. tags' = Append(tags, f) /\ next' = next
    BY <1>5 DEF WorkerFill
  <2>2. cur_ap \in Aps /\ session \in Aps
    BY DEF LinkInv
  <2>3. f \in T /\ f.by # Ipc
    BY ONLY <1>1, <2>2
  <2> HIDE DEF f
  <2> QED  BY <1>3, <2>1, <2>3
<1>6. CASE UNCHANGED tags /\ next' \in Nat
  BY <1>6 DEF TagInv, SessionFrames
<1>7. CASE NetReturn
  <2>1. next' \in Nat
    BY ONLY <1>2, <1>7 DEF NetReturn, NetType
  <2> QED  BY <1>6, <1>7, <2>1 DEF NetReturn
<1>8. CASE NetWrite \/ Check \/ Header \/ Flag \/ Send \/ SendDone
  BY <1>2, <1>6, <1>8 DEF NetWrite, Check, Header, Flag, Send, SendDone
<1>9. CASE WorkerSend \/ OnAir \/ Poll \/ UNCHANGED vars
  BY <1>2, <1>6, <1>9 DEF WorkerSend, OnAir, Poll, vars
<1>10. CASE Leave \/ Disconnected \/ Pick \/ Reset \/ Alloc \/ KeySet \/ Up
            \/ Failed
  BY <1>2, <1>6, <1>10 DEF Leave, Disconnected, Pick, Reset, Alloc, KeySet, Up,
     Failed
<1> QED  BY <1>4, <1>5, <1>7, <1>8, <1>9, <1>10 DEF Next, NetStep

-----------------------------------------------------------------------------
\* The first connection stands and nothing is under way.
LEMMA InitIInv == Init => IInv
<1> SUFFICES ASSUME Init PROVE IInv
  OBVIOUS
<1>1. TxqInv
  BY TxqInitInv DEF Init
<1>2. LinkInv
  <2>1. pc[Ipc] = "idle"
    BY ThreadsAssumption DEF Init, TxqInit
  <2>2. net \in NetType /\ net.pc = "idle"
    BY DEF Init, Quiet, NetType
  <2> QED  BY <2>1, <2>2 DEF Init, LinkInv
<1>3. TagInv
  BY DEF Init, TagInv, SessionFrames
<1> QED  BY <1>1, <1>2, <1>3 DEF IInv

\* IInv is inductive.
LEMMA IInvHolds == ~Overlap => (Init /\ [][Next]_vars => []IInv)
<1> SUFFICES ASSUME ~Overlap PROVE Init /\ [][Next]_vars => []IInv
  OBVIOUS
<1>1. Init => IInv
  BY InitIInv
<1>2. IInv /\ [Next]_vars => IInv'
  BY NextTxq, NextLink, NextTag DEF IInv
<1> QED  BY <1>1, <1>2, PTL

(***************************************************************************)
(* A ring entry that tx_frame is about to fill holds no frame that is      *)
(* still to be sent: Room's test leaves one entry free, whichever thread   *)
(* asks and wherever the device is.                                        *)
(***************************************************************************)
THEOREM NoOverwriteHolds == ~Overlap => (Spec => []NoOverwrite)
<1> SUFFICES ASSUME ~Overlap PROVE Spec => []NoOverwrite
  OBVIOUS
<1>1. IInv => NoOverwrite
  <2> SUFFICES ASSUME IInv, NEW t \in Threads, pc[t] = "fill"
               PROVE  Settled(ring[idx[t]])
    BY DEF NoOverwrite
  <2>1. TxqInv
    BY DEF IInv
  <2>2. idx[t] = write_ptr
    BY <2>1 DEF TxqInv, PointerInv
  <2>3. ~Posting
    BY <2>1, OneSender DEF Posting
  <2> QED  BY <2>1, <2>2, <2>3 DEF TxqInv, FrameInv
<1> QED  BY <1>1, IInvHolds, PTL DEF Spec

(***************************************************************************)
(* The frames on the air are in the order in which tx_frame took them,     *)
(* none of them twice.                                                     *)
(***************************************************************************)
THEOREM SentInOrderHolds == ~Overlap => (Spec => []SentInOrder)
<1> SUFFICES ASSUME ~Overlap PROVE Spec => []SentInOrder
  OBVIOUS
<1>1. IInv => SentInOrder
  <2> SUFFICES ASSUME IInv PROVE SentInOrder
    OBVIOUS
  <2>1. onair \in Seq(Nat) /\ Out \in Nat /\ FrameInv
    BY TxqTypes DEF IInv, TxqInv
  <2>2. ASSUME onair # << >>
        PROVE  1 .. onair[Len(onair)] \subseteq Range(onair) \cup dropped
    <3>1. Len(onair) \in DOMAIN onair
      BY ONLY <2>1, <2>2
    <3>2. onair[Len(onair)] \in 1 .. Out
      BY ONLY <2>1, <3>1 DEF FrameInv
    <3>3. 1 .. onair[Len(onair)] \subseteq 1 .. Out
      BY ONLY <2>1, <3>2
    <3> QED  BY ONLY <2>1, <3>3 DEF FrameInv
  <2> QED  BY ONLY <2>1, <2>2 DEF FrameInv, SentInOrder
<1> QED  BY <1>1, IInvHolds, PTL DEF Spec

(***************************************************************************)
(* A frame of netd's goes into the session whose access point its header   *)
(* names, marked for encryption, although iwlm_data_tx reads d->state, the *)
(* address and the key's flag one after the other without a lock.          *)
(***************************************************************************)
THEOREM SessionFramesHolds == ~Overlap => (Spec => []SessionFrames)
<1> SUFFICES ASSUME ~Overlap PROVE Spec => []SessionFrames
  OBVIOUS
<1>1. IInv => SessionFrames
  BY DEF IInv, TagInv
<1> QED  BY <1>1, IInvHolds, PTL DEF Spec
-----------------------------------------------------------------------------
(***************************************************************************)
(* What netd is told.  Its frames are numbered as they enter the queue; a  *)
(* call is as far as it has got in its batch, and the frame it has just    *)
(* queued counts from the moment the entry is filled.                      *)
(***************************************************************************)
Sent == next + net.off + (IF net.pc = "send" /\ net.ok THEN 1 ELSE 0)

CallInv ==
    /\ net \in NetType /\ next \in Nat
    /\ {cur_ap, session} \subseteq Aps /\ pairwise_key_set \in BOOLEAN
    /\ pc \in [Threads -> {"idle", "room", "fill", "post", "unlock"}]
    /\ pc[Ipc] # "idle" => net.pc = "send"
    /\ net.pc = "send" /\ pc[Ipc] \in {"idle", "room", "fill"} => ~net.ok
    /\ net.pc = "idle" => net.off = 0 /\ net.size = 0
    /\ net.off <= net.size /\ next + net.size <= MaxNet
    /\ net.pc \in {"header", "flag", "send"} => net.off < net.size

Numbered(q, s) ==
    /\ \A i, j \in DOMAIN q :
          q[i].by = Ipc /\ q[j].by = Ipc /\ i < j => q[i].n < q[j].n
    /\ \A i \in DOMAIN q : q[i].by = Ipc => q[i].n \in 1 .. s
    /\ \A k \in 1 .. s : \E i \in DOMAIN q : q[i].by = Ipc /\ q[i].n = k

NumberInv ==
    /\ tags \in Seq([by : Threads, n : Nat, ap : Aps, enc : BOOLEAN, into : Aps])
    /\ Numbered(tags, Sent)

\* A frame of the worker's changes nothing of netd's.
LEMMA NumberedOther ==
    ASSUME NEW T, NEW q \in Seq(T), NEW s \in Nat, Numbered(q, s),
           NEW f, f.by # Ipc
    PROVE  Numbered(Append(q, f), s)
<1> DEFINE r == Append(q, f)
<1>1. /\ DOMAIN r = 1 .. Len(q) + 1 /\ DOMAIN q = 1 .. Len(q) /\ Len(q) \in Nat
      /\ \A i \in 1 .. Len(q) : r[i] = q[i]
      /\ r[Len(q) + 1] = f
    OBVIOUS
<1> HIDE DEF r
<1>2. \A i \in DOMAIN r : r[i].by = Ipc => i \in DOMAIN q /\ r[i] = q[i]
    BY <1>1
<1>3. \A i \in DOMAIN q : i \in DOMAIN r /\ r[i] = q[i]
    BY <1>1
<1>4. Numbered(r, s)
    BY <1>2, <1>3 DEF Numbered
<1> QED
    BY <1>4 DEF r

\* The next frame of netd's takes the next number.
LEMMA NumberedNext ==
    ASSUME NEW T, NEW q \in Seq(T), NEW s \in Nat, Numbered(q, s),
           NEW f, f.by = Ipc, f.n = s + 1
    PROVE  Numbered(Append(q, f), s + 1)
<1> DEFINE r == Append(q, f)
           last == Len(q) + 1
<1>1. /\ DOMAIN r = 1 .. last /\ DOMAIN q = 1 .. Len(q) /\ Len(q) \in Nat
      /\ \A i \in 1 .. Len(q) : r[i] = q[i]
      /\ r[last] = f /\ last \in DOMAIN r
    OBVIOUS
<1> HIDE DEF r
<1>q. /\ \A i \in DOMAIN q : q[i].by = Ipc => q[i].n \in 1 .. s
      /\ \A i, j \in DOMAIN q :
            q[i].by = Ipc /\ q[j].by = Ipc /\ i < j => q[i].n < q[j].n
      /\ \A k \in 1 .. s : \E i \in DOMAIN q : q[i].by = Ipc /\ q[i].n = k
    BY DEF Numbered
<1>f. f.by = Ipc /\ f.n = s + 1 /\ s \in Nat
    OBVIOUS
<1>2. /\ \A i \in DOMAIN r : \/ i \in DOMAIN q /\ r[i] = q[i] /\ i < last
                             \/ i = last /\ r[i] = f
      /\ \A i \in DOMAIN q : i \in DOMAIN r /\ r[i] = q[i]
    <2>1. /\ \A i \in 1 .. last : (i \in 1 .. Len(q) /\ i < last) \/ i = last
          /\ \A i \in 1 .. Len(q) : i \in 1 .. last
        BY ONLY <1>1
    <2> QED
        BY ONLY <1>1, <2>1
<1>3. \A i \in DOMAIN r : r[i].by = Ipc => r[i].n \in 1 .. s + 1
    <2>1. \A n : n \in 1 .. s \/ n = s + 1 => n \in 1 .. s + 1
        BY ONLY <1>f
    <2> QED
        BY ONLY <1>2, <1>q, <1>f, <2>1
<1>4. ASSUME NEW i \in DOMAIN r, NEW j \in DOMAIN r,
             r[i].by = Ipc, r[j].by = Ipc, i < j
      PROVE  r[i].n < r[j].n
    <2>0. i # last
        <3>1. i \in 1 .. last /\ j \in 1 .. last /\ i < j /\ Len(q) \in Nat
            BY ONLY <1>1, <1>4
        <3> QED
            BY ONLY <3>1
    <2>1. i \in DOMAIN q /\ r[i] = q[i] /\ q[i].n \in 1 .. s
        BY ONLY <1>2, <1>4, <1>q, <2>0
    <2>2. CASE j = last
        <3>1. r[j].n = s + 1
            BY ONLY <1>1, <1>f, <2>2
        <3> QED
            BY ONLY <1>f, <2>1, <3>1
    <2>3. CASE j # last
        BY ONLY <1>2, <1>4, <1>q, <2>1, <2>3
    <2> QED
        BY <2>2, <2>3
<1>5. \A k \in 1 .. s + 1 : \E i \in DOMAIN r : r[i].by = Ipc /\ r[i].n = k
    <2> SUFFICES ASSUME NEW k \in 1 .. s + 1
                 PROVE  \E i \in DOMAIN r : r[i].by = Ipc /\ r[i].n = k
        OBVIOUS
    <2>1. CASE k = s + 1
        BY ONLY <1>1, <1>f, <2>1
    <2>2. CASE k \in 1 .. s
        <3>1. PICK i \in DOMAIN q : q[i].by = Ipc /\ q[i].n = k
            BY ONLY <1>q, <2>2
        <3> QED
            BY ONLY <1>2, <3>1
    <2>3. k = s + 1 \/ k \in 1 .. s
        BY ONLY <1>f, k \in 1 .. s + 1
    <2> QED
        BY ONLY <2>1, <2>2, <2>3
<1>6. Numbered(r, s + 1)
    BY <1>3, <1>4, <1>5 DEF Numbered
<1> QED
    BY <1>6 DEF r

\* Every step keeps net_write's account of its batch, whether or not it
\* outlasts the worker's way to the next join.
LEMMA NextCall ==
    ASSUME CallInv, [Next]_vars
    PROVE  CallInv'
<1>1. Ipc \in Threads /\ Worker \in Threads /\ Ipc # Worker
    BY ThreadsAssumption
<1>2. MaxNet \in Nat /\ Batch \in Nat
    BY DataAssumption
<1>3. CASE NetWrite
    <2>1. PICK n \in 1 .. Batch : /\ next + n <= MaxNet
                                  /\ net' = [Quiet EXCEPT !.pc = "check", !.size = n]
        BY <1>3 DEF NetWrite
    <2>2. /\ net' \in NetType /\ net'.pc = "check" /\ net'.off = 0
          /\ net'.size = n /\ n \in Nat
        <3>1. cur_ap \in Aps /\ n \in Nat
            BY <1>2 DEF CallInv
        <3> QED
            BY <2>1, <3>1 DEF NetType, Quiet
    <2>3. UNCHANGED <<pc, next, cur_ap, session, pairwise_key_set>> /\ pc[Ipc] = "idle"
        BY <1>3 DEF NetWrite, txqvars, txvars, mlme, CallInv
    <2> QED
        BY <2>1, <2>2, <2>3 DEF CallInv
<1>4. CASE Check
    BY <1>4 DEF CallInv, NetType, Check, txqvars, txvars, mlme
<1>5. CASE Header
    BY <1>5 DEF CallInv, NetType, Header, txqvars, txvars, mlme
<1>6. CASE Flag
    BY <1>6 DEF CallInv, NetType, Flag, txqvars, txvars, mlme
<1>7. CASE Send
    BY <1>1, <1>7 DEF CallInv, Send, Lock, Refuse, Accept, Post, mlme
<1>8. CASE SendFill
    BY <1>1, <1>8 DEF CallInv, NetType, SendFill, Fill, mlme
<1>9. CASE SendDone
    <2>1. /\ pc' = [pc EXCEPT ![Ipc] = "idle"] /\ net.pc = "send"
          /\ UNCHANGED <<next, cur_ap, session, pairwise_key_set>>
        BY <1>1, <1>9 DEF SendDone, Unlock, mlme, CallInv
    <2>2. /\ net' \in NetType /\ net'.size = net.size
          /\ net'.pc \in {"check", "return"}
          /\ net'.off \in {net.off, net.off + 1}
        <3>1. net \in NetType
            BY DEF CallInv
        <3>2. net.off + 1 \in Nat
            BY ONLY <3>1 DEF NetType
        <3>3. CASE net' = [net EXCEPT !.pc = "check", !.off = net.off + 1]
            BY ONLY <3>1, <3>2, <3>3 DEF NetType
        <3>4. CASE net' = [net EXCEPT !.pc = "return"]
            BY ONLY <3>1, <3>4 DEF NetType
        <3> QED
            BY <1>9, <3>3, <3>4 DEF SendDone
    <2>3. net.off + 1 <= net.size /\ net.off \in Nat /\ net.size \in Nat
        BY <2>1 DEF CallInv, NetType
    <2> QED
        BY <1>1, <1>2, <2>1, <2>2, <2>3 DEF CallInv
<1>10. CASE NetReturn
    <2>1. /\ net'.pc = "idle" /\ net'.off = 0 /\ net'.size = 0 /\ net' \in NetType
          /\ next' = next + net.off /\ net.off \in Nat /\ net.size \in Nat
        <3>1. net' = Quiet /\ next' = next + net.off
            BY <1>10 DEF NetReturn
        <3>2. net \in NetType /\ cur_ap \in Aps
            BY DEF CallInv
        <3>3. net.off \in Nat /\ net.size \in Nat
            BY ONLY <3>2 DEF NetType
        <3>4. /\ Quiet \in NetType
              /\ Quiet.pc = "idle" /\ Quiet.off = 0 /\ Quiet.size = 0
            BY ONLY <3>2 DEF NetType, Quiet
        <3> QED
            BY ONLY <3>1, <3>3, <3>4
    <2>2. UNCHANGED <<pc, cur_ap, session, pairwise_key_set>> /\ pc[Ipc] = "idle"
        BY <1>10 DEF NetReturn, txqvars, txvars, mlme, CallInv
    <2>3. next' \in Nat /\ next' <= MaxNet
        <3>1. next \in Nat /\ net.off <= net.size /\ next + net.size <= MaxNet
            BY DEF CallInv
        <3> QED
            BY ONLY <1>2, <2>1, <3>1
    <2>4. /\ {cur_ap', session'} \subseteq Aps /\ pairwise_key_set' \in BOOLEAN
          /\ pc' \in [Threads -> {"idle", "room", "fill", "post", "unlock"}]
          /\ pc'[Ipc] = "idle"
        BY <2>2 DEF CallInv
    <2>5. net'.off <= net'.size /\ next' + net'.size <= MaxNet
        BY ONLY <2>1, <2>3, <1>2
    <2>6. net'.pc \notin {"header", "flag", "send"}
        BY ONLY <2>1
    <2>7. net' \in NetType /\ next' \in Nat
        BY ONLY <2>1, <2>3
    <2> QED
        BY ONLY <2>4, <2>5, <2>6, <2>7, <2>1 DEF CallInv
<1>11. CASE WorkerSend \/ WorkerFill
    <2>1. /\ pc'[Ipc] = pc[Ipc]
          /\ pc' \in [Threads -> {"idle", "room", "fill", "post", "unlock"}]
        BY <1>1, <1>11
           DEF WorkerSend, WorkerFill, Lock, Refuse, Accept, Post, Unlock, Fill,
               CallInv
    <2>2. UNCHANGED <<mlme, net, next>>
        BY <1>11 DEF WorkerSend, WorkerFill
    <2> QED
        BY <2>1, <2>2 DEF CallInv, mlme
<1>12. CASE Leave \/ Disconnected \/ Reset \/ KeySet \/ Up \/ Failed
    BY <1>12 DEF Leave, Disconnected, Reset, KeySet, Up, Failed, txqvars, txvars,
       CallInv
<1>13. CASE Pick
    BY <1>13 DEF Pick, txqvars, txvars, CallInv
<1>14. CASE Alloc
    BY <1>14 DEF Alloc, TxqAlloc, txvars, CallInv
<1>15. CASE OnAir \/ Poll
    BY <1>15 DEF OnAir, Poll, Transmit, Reclaim, txvars, mlme, CallInv
<1>16. CASE UNCHANGED vars
    BY <1>16 DEF vars, txqvars, txvars, mlme, CallInv
<1> QED
    BY <1>3, <1>4, <1>5, <1>6, <1>7, <1>8, <1>9, <1>10, <1>11, <1>12, <1>13,
       <1>14, <1>15, <1>16 DEF Next, NetStep

\* Every step keeps the numbers of netd's frames.
LEMMA NextNumbers ==
    ASSUME CallInv, NumberInv, [Next]_vars
    PROVE  NumberInv'
<1> DEFINE T == [by : Threads, n : Nat, ap : Aps, enc : BOOLEAN, into : Aps]
<1>1. Ipc \in Threads /\ Worker \in Threads /\ Ipc # Worker
    BY ThreadsAssumption
<1>2. /\ next \in Nat /\ net.off \in Nat /\ tags \in Seq(T) /\ net \in NetType
      /\ Numbered(tags, Sent)
    BY DEF CallInv, NetType, NumberInv
<1>3. Sent \in Nat
    BY <1>2 DEF Sent
<1>4. ASSUME UNCHANGED tags, Sent' = Sent PROVE NumberInv'
    BY <1>2, <1>4 DEF NumberInv
<1>5. CASE SendFill
    <2> DEFINE f == [by |-> Ipc, n |-> next + net.off + 1, ap |-> net.ap,
                     enc |-> net.enc, into |-> session]
    <2>1. /\ tags' = Append(tags, f) /\ next' = next /\ pc[Ipc] = "fill"
          /\ net' = [net EXCEPT !.ok = TRUE]
        BY <1>5 DEF SendFill, Fill
    <2>2. net.pc = "send" /\ ~net.ok
        BY <2>1 DEF CallInv
    <2>3. f.by = Ipc /\ f.n = Sent + 1
        <3>1. Sent = next + net.off
            BY <1>2, <2>2 DEF Sent
        <3> QED
            BY ONLY <3>1
    <2>4. Sent' = Sent + 1
        BY <1>2, <2>1, <2>2 DEF Sent, NetType
    <2>5. f \in T
        <3>1. session \in Aps
            BY DEF CallInv
        <3>2. net.ap \in Aps /\ net.enc \in BOOLEAN
            BY ONLY <1>2 DEF NetType
        <3>3. next + net.off + 1 \in Nat
            BY ONLY <1>2
        <3> QED
            BY ONLY <1>1, <3>1, <3>2, <3>3
    <2> HIDE DEF f, T
    <2>6. tags' \in Seq(T)
        BY ONLY <1>2, <2>1, <2>5
    <2> USE DEF T
    <2>7. Numbered(tags', Sent + 1)
        BY <1>2, <1>3, <2>1, <2>3, NumberedNext
    <2> QED
        BY <2>4, <2>6, <2>7 DEF NumberInv
<1>6. CASE WorkerFill
    <2> DEFINE f == [by |-> Worker, n |-> 0, ap |-> cur_ap, enc |-> FALSE,
                     into |-> session]
    <2>1. tags' = Append(tags, f) /\ UNCHANGED <<net, next>>
        BY <1>6 DEF WorkerFill
    <2>2. f \in T /\ f.by # Ipc
        BY <1>1 DEF CallInv
    <2> HIDE DEF f
    <2>3. tags' \in Seq(T)
        BY <1>2, <2>1, <2>2
    <2>4. Numbered(tags', Sent)
        BY <1>2, <1>3, <2>1, <2>2, NumberedOther
    <2>5. Sent' = Sent
        BY <2>1 DEF Sent
    <2> QED
        BY <2>3, <2>4, <2>5 DEF NumberInv
<1>7. CASE UNCHANGED <<net, next, tags>>
    BY <1>4, <1>7 DEF Sent
<1>8. CASE SendDone
    <2>1. net.pc = "send" /\ UNCHANGED <<next, tags>>
        BY <1>1, <1>8 DEF SendDone, Unlock, CallInv
    <2>2. Sent' = Sent
        BY <1>2, <1>8, <2>1 DEF SendDone, Sent, NetType
    <2> QED
        BY <1>4, <2>1, <2>2
<1>9. CASE NetReturn
    <2>1. net.pc = "return" /\ next' = next + net.off /\ UNCHANGED tags
        BY <1>9 DEF NetReturn
    <2>2. net'.pc = "idle" /\ net'.off = 0
        BY <1>9 DEF NetReturn, Quiet
    <2>3. Sent' = Sent
        BY <1>2, <2>1, <2>2 DEF Sent
    <2> QED
        BY <1>4, <2>1, <2>3
<1>10. CASE NetWrite
    <2>1. net.pc = "idle" /\ net.off = 0 /\ UNCHANGED <<next, tags>>
        BY <1>10 DEF NetWrite, CallInv
    <2>2. net'.pc = "check" /\ net'.off = 0
        BY <1>10 DEF NetWrite, Quiet
    <2>3. Sent' = Sent
        BY <1>2, <2>1, <2>2 DEF Sent
    <2> QED
        BY <1>4, <2>1, <2>3
<1>11. CASE Check \/ Header \/ Flag
    <2>1. UNCHANGED <<next, tags>> /\ net'.off = net.off /\ net.pc # "send"
          /\ (net'.pc = "send" => ~net'.ok)
        BY <1>2, <1>11 DEF Check, Header, Flag, NetType
    <2>2. Sent' = Sent
        BY <1>2, <2>1 DEF Sent
    <2> QED
        BY <1>4, <2>1, <2>2
<1>12. CASE Send \/ WorkerSend \/ Leave \/ Disconnected \/ Pick \/ Reset \/ Alloc
            \/ KeySet \/ Up \/ Failed \/ OnAir \/ Poll \/ UNCHANGED vars
    BY <1>7, <1>12 DEF Send, WorkerSend, Leave, Disconnected, Pick, Reset, Alloc,
       KeySet, Up, Failed, OnAir, Poll, vars
<1> QED
    BY <1>5, <1>6, <1>8, <1>9, <1>10, <1>11, <1>12 DEF Next, NetStep

(***************************************************************************)
(* What net_write reports is what it queued: each of netd's frames enters  *)
(* the queue once, in netd's order, and none that was reported is missing, *)
(* also when a net_write outlasts the worker's way to the next join.       *)
(***************************************************************************)
THEOREM NetdInOrderHolds == Spec => []NetdInOrder
<1>1. Init => CallInv /\ NumberInv
    <2> SUFFICES ASSUME Init PROVE CallInv /\ NumberInv
        OBVIOUS
    <2>1. pc[Ipc] = "idle" /\ MaxNet \in Nat
        BY ThreadsAssumption, DataAssumption DEF Init, TxqInit
    <2>2. net \in NetType /\ net.pc = "idle" /\ net.off = 0 /\ net.size = 0
        BY DEF Init, Quiet, NetType
    <2>3. CallInv
        BY <2>1, <2>2 DEF Init, TxqInit, CallInv
    <2>4. Sent = 0 /\ tags = << >>
        BY <2>2 DEF Init, Sent
    <2> QED
        BY <2>3, <2>4 DEF NumberInv, Numbered
<1>2. CallInv /\ NumberInv /\ [Next]_vars => (CallInv /\ NumberInv)'
    BY NextCall, NextNumbers
<1>3. CallInv /\ NumberInv => NetdInOrder
    <2> SUFFICES ASSUME CallInv, NumberInv PROVE NetdInOrder
        OBVIOUS
    <2>1. Sent \in next .. MaxNet
        BY DataAssumption DEF CallInv, Sent, NetType
    <2> QED
        BY <2>1 DEF NumberInv, Numbered, NetdInOrder
<1> QED
    BY <1>1, <1>2, <1>3, PTL DEF Spec
=============================================================================
