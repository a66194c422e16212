----------------------------- MODULE QBufProofs -----------------------------
(***************************************************************************)
(* The ring of QBuf keeps its index bounds for every ring size, slot size, *)
(* set of threads and set of frames.                                       *)
(***************************************************************************)
EXTENDS QBuf, TLAPS

USE QSizeAssumption, BSizeAssumption, SizesAssumption, ThreadsAssumption,
    DataAssumption, ResetAssumption

\* Sequences of equal length with equal elements are equal.
LEMMA EqualSeqs ==
    ASSUME NEW S, NEW s \in Seq(S), NEW r \in Seq(S), Len(s) = Len(r),
           \A i \in 1 .. Len(s) : s[i] = r[i]
    PROVE  s = r
<1>1. DOMAIN s = 1 .. Len(s) /\ DOMAIN r = 1 .. Len(r)
    BY ONLY s \in Seq(S), r \in Seq(S)
<1>2. s = [i \in DOMAIN s |-> s[i]] /\ r = [i \in DOMAIN r |-> r[i]]
    BY ONLY s \in Seq(S), r \in Seq(S)
<1>3. QED
    BY <1>1, <1>2, Zenon

\* The slot an index selects is always a slot of the ring.
LEMMA SlotInRing ==
    ASSUME NEW a \in Nat
    PROVE  a % QSize \in Slots
BY DEF Slots

\* A frame cut to the size of the caller's buffer is still a frame.
LEMMA ClipType ==
    ASSUME NEW f \in [data : Data, size : Int], NEW n \in Int
    PROVE  Clip(f, n) \in [data : Data, size : Int]
BY DEF Clip

\* A slot as queue_buffer_alloc leaves it is a slot.
LEMMA EmptySlotType == EmptySlot \in [data : Data, size : 0 .. BSize]
BY DEF EmptySlot

\* An allocated queue satisfies the inductive invariant.
LEMMA InitIndexInv == Init => IndexInv
<1> SUFFICES ASSUME Init PROVE IndexInv
    OBVIOUS
<1>1. TypeOK
    BY EmptySlotType DEF Init, TypeOK, Places, Slots
<1>2. LockHeld
    BY DEF Init, LockHeld, At
<1>3. \A t \in Threads : ArgOK(t) /\ PlaceOK(t)
    BY DEF Init, ArgOK, PlaceOK, At
<1>4. QED
    BY <1>1, <1>2, <1>3 DEF Init, IndexInv, At, Folding

\* Entering the lock disturbs no index and no slot.
LEMMA EnterIndexInv ==
    ASSUME IndexInv, NEW t \in Threads, NEW a,
           NEW body \in {"push", "pop", "check", "reset"},
           Enter(t, body, a),
           body = "push" => a \in Frames /\ Fits(a),
           body = "pop" => a \in Room,
           body = "reset" => WithReset
    PROVE  IndexInv'
<1> USE DEF Enter, At, Goto, shared
<1>1. TypeOK'
    BY DEF IndexInv, TypeOK, Places
<1>2. LockHeld'
    BY DEF IndexInv, LockHeld, TypeOK
<1>3. \A u \in Threads : u # t => pc[u] = "idle" /\ pc'[u] = "idle"
    BY DEF IndexInv, LockHeld, TypeOK
<1>4. pc'[t] = body
    BY DEF IndexInv, TypeOK
<1>5. \A u \in Threads : PlaceOK(u)'
    BY <1>3, <1>4 DEF PlaceOK
<1>6. arg'[t] = a \/ body \notin {"push", "pop"}
    BY DEF IndexInv, TypeOK
<1>7. \A u \in Threads : ArgOK(u)'
    BY <1>3, <1>4, <1>6 DEF ArgOK
<1>8. QED
    BY <1>1, <1>2, <1>3, <1>4, <1>5, <1>7 DEF IndexInv, Folding

\* Every step a thread takes inside the lock keeps the invariant.
LEMMA BodyIndexInv ==
    ASSUME IndexInv, NEW t \in Threads, Body(t)
    PROVE  IndexInv'
<1> USE DEF At, Goto, Return, shared
<1>1. lock = t /\ pc[t] # "idle"
    BY DEF IndexInv, LockHeld, Body, PushFull, PushStore, PushInc, PopEmpty,
           PopCopy, PopInc, WrapPush, WrapPop, Check, Reset, Leave
<1>2. \A u \in Threads : u # t => pc[u] = "idle"
    BY <1>1 DEF IndexInv, LockHeld
<1>3. CASE PushFull(t) \/ PopEmpty(t) \/ Check(t)
    <2> USE DEF PushFull, PopEmpty, Check
    <2>1. TypeOK'
        BY <1>3 DEF IndexInv, TypeOK, Places
    <2>2. LockHeld'
        BY <1>1, <1>2, <1>3 DEF IndexInv, LockHeld, TypeOK
    <2>3. \A u \in Threads : ArgOK(u)' /\ PlaceOK(u)'
        BY <1>2, <1>3 DEF IndexInv, TypeOK, ArgOK, PlaceOK
    <2>4. QED
        BY <1>2, <1>3, <2>1, <2>2, <2>3 DEF IndexInv, Folding, TypeOK
<1>4. CASE PushStore(t)
    <2> USE DEF PushStore
    <2>1. bufs' \in [Slots -> [data : Data, size : 0 .. BSize]]
        BY <1>4, SlotInRing DEF IndexInv, TypeOK, ArgOK, Frames, Fits
    <2>2. TypeOK'
        BY <1>4, <2>1 DEF IndexInv, TypeOK, Places
    <2>3. LockHeld'
        BY <1>1, <1>2, <1>4 DEF IndexInv, LockHeld, TypeOK
    <2>4. \A u \in Threads : ArgOK(u)' /\ PlaceOK(u)'
        BY <1>2, <1>4 DEF IndexInv, TypeOK, ArgOK, PlaceOK
    <2>5. QED
        BY <1>2, <1>4, <2>2, <2>3, <2>4 DEF IndexInv, Folding, TypeOK
<1>5. CASE PushInc(t)
    <2> USE DEF PushInc
    <2>0. got' = [u \in Threads |-> got'[u]]
        BY <1>5 DEF IndexInv, TypeOK
    <2>1. TypeOK'
        BY <1>5, <2>0 DEF IndexInv, TypeOK, Places
    <2>2. LockHeld'
        BY <1>1, <1>2, <1>5 DEF IndexInv, LockHeld, TypeOK
    <2>3. \A u \in Threads : ArgOK(u)' /\ PlaceOK(u)'
        BY <1>2, <1>5 DEF IndexInv, TypeOK, ArgOK, PlaceOK
    <2>4. push_idx < pop_idx + QSize /\ pop_idx <= push_idx
        BY <1>2, <1>5 DEF IndexInv, PlaceOK
    <2>5. ~WithReset => pop_idx < QSize
        BY <1>2, <1>5 DEF IndexInv, TypeOK, Folding
    <2>6. QED
        BY <1>2, <1>5, <2>1, <2>2, <2>3, <2>4, <2>5 DEF IndexInv, TypeOK
<1>6. CASE PopCopy(t)
    <2> USE DEF PopCopy
    <2>1. arg'[t] \in [data : Data, size : Int]
        BY <1>6, ClipType, SlotInRing DEF IndexInv, TypeOK, ArgOK
    <2>2. TypeOK'
        BY <1>6 DEF IndexInv, TypeOK, Places
    <2>3. LockHeld'
        BY <1>1, <1>2, <1>6 DEF IndexInv, LockHeld, TypeOK
    <2>4. \A u \in Threads : ArgOK(u)' /\ PlaceOK(u)'
        BY <1>2, <1>6, <2>1 DEF IndexInv, TypeOK, ArgOK, PlaceOK
    <2>5. QED
        BY <1>2, <1>6, <2>2, <2>3, <2>4 DEF IndexInv, Folding, TypeOK
<1>7. CASE PopInc(t)
    <2> USE DEF PopInc
    <2>0. got' = [u \in Threads |-> got'[u]]
        BY <1>7 DEF IndexInv, TypeOK
    <2>1. TypeOK'
        BY <1>7, <2>0 DEF IndexInv, TypeOK, Places
    <2>2. LockHeld'
        BY <1>1, <1>2, <1>7 DEF IndexInv, LockHeld, TypeOK
    <2>3. \A u \in Threads : ArgOK(u)' /\ PlaceOK(u)'
        BY <1>2, <1>7 DEF IndexInv, TypeOK, ArgOK, PlaceOK
    <2>4. pop_idx < push_idx /\ push_idx <= pop_idx + QSize
        BY <1>2, <1>7 DEF IndexInv, PlaceOK
    <2>5. pop_idx' = QSize => Folding'
        BY <1>7, <2>4 DEF IndexInv, TypeOK, Folding
    <2>6. ~WithReset => pop_idx < QSize
        BY <1>2, <1>7 DEF IndexInv, TypeOK, Folding
    <2>7. QED
        BY <1>2, <1>7, <2>1, <2>2, <2>3, <2>4, <2>5, <2>6 DEF IndexInv, TypeOK
<1>8. CASE WrapPush(t)
    <2> USE DEF WrapPush
    <2>1. TypeOK'
        BY <1>8 DEF IndexInv, TypeOK, Places
    <2>2. LockHeld'
        BY <1>1, <1>2, <1>8 DEF IndexInv, LockHeld, TypeOK
    <2>3. /\ push_idx >= QSize /\ pop_idx >= QSize
          /\ pop_idx <= push_idx /\ push_idx <= pop_idx + QSize
        BY <1>2, <1>8 DEF IndexInv, PlaceOK
    <2>4. pc'[t] = "wrap_pop"
        BY <1>8 DEF IndexInv, TypeOK
    <2>5. \A u \in Threads : ArgOK(u)' /\ PlaceOK(u)'
        BY <1>2, <1>8, <2>3, <2>4 DEF IndexInv, TypeOK, ArgOK, PlaceOK
    <2>6. QED
        BY <1>8, <2>1, <2>2, <2>3, <2>4, <2>5 DEF IndexInv, Folding, TypeOK
<1>9. CASE WrapPop(t)
    <2> USE DEF WrapPop
    <2>1. TypeOK'
        BY <1>9 DEF IndexInv, TypeOK, Places
    <2>2. LockHeld'
        BY <1>1, <1>2, <1>9 DEF IndexInv, LockHeld, TypeOK
    <2>3. /\ pop_idx >= QSize /\ pop_idx <= push_idx + QSize
          /\ push_idx <= pop_idx
        BY <1>9 DEF IndexInv, PlaceOK
    <2>4. \A u \in Threads : ArgOK(u)' /\ PlaceOK(u)'
        BY <1>2, <1>9, <2>3 DEF IndexInv, TypeOK, ArgOK, PlaceOK
    <2>5. QED
        BY <1>9, <2>1, <2>2, <2>3, <2>4 DEF IndexInv, Folding, TypeOK
<1>10. CASE Reset(t)
    <2> USE DEF Reset
    <2>1. TypeOK'
        BY <1>10 DEF IndexInv, TypeOK, Places
    <2>2. LockHeld'
        BY <1>1, <1>2, <1>10 DEF IndexInv, LockHeld, TypeOK
    <2>3. \A u \in Threads : ArgOK(u)' /\ PlaceOK(u)'
        BY <1>2, <1>10 DEF IndexInv, TypeOK, ArgOK, PlaceOK
    <2>4. WithReset
        BY <1>10 DEF IndexInv, PlaceOK
    <2>5. QED
        BY <1>2, <1>10, <2>1, <2>2, <2>3, <2>4 DEF IndexInv, TypeOK
<1>11. CASE Leave(t)
    <2> USE DEF Leave
    <2>1. TypeOK'
        BY <1>11 DEF IndexInv, TypeOK, Places
    <2>2. LockHeld'
        BY <1>1, <1>2, <1>11 DEF IndexInv, LockHeld, TypeOK
    <2>3. \A u \in Threads : ArgOK(u)' /\ PlaceOK(u)'
        BY <1>2, <1>11 DEF IndexInv, TypeOK, ArgOK, PlaceOK
    <2>4. QED
        BY <1>2, <1>11, <2>1, <2>2, <2>3 DEF IndexInv, Folding, TypeOK
<1>12. QED
    BY <1>3, <1>4, <1>5, <1>6, <1>7, <1>8, <1>9, <1>10, <1>11 DEF Body

\* Every step keeps the inductive invariant on the indexes.
LEMMA NextIndexInv == IndexInv /\ [Next]_vars => IndexInv'
<1> SUFFICES ASSUME IndexInv, [Next]_vars PROVE IndexInv'
    OBVIOUS
<1>1. CASE UNCHANGED vars
    BY <1>1 DEF vars, IndexInv, TypeOK, LockHeld, ArgOK, PlaceOK, Folding, At
<1>2. ASSUME NEW t \in Threads, Body(t) PROVE IndexInv'
    BY <1>2, BodyIndexInv
<1>3. ASSUME NEW t \in Threads, Call(t) PROVE IndexInv'
    <2>1. ASSUME NEW f \in Frames, PushMisfit(t, f) PROVE IndexInv'
        <3> USE DEF PushMisfit, At, Return, shared
        <3>1. TypeOK'
            BY <2>1 DEF IndexInv, TypeOK
        <3>2. QED
            BY <2>1, <3>1
               DEF IndexInv, LockHeld, ArgOK, PlaceOK, Folding
    <2>2. ASSUME NEW f \in Frames, PushEnter(t, f) PROVE IndexInv'
        BY <2>2, EnterIndexInv DEF PushEnter
    <2>3. ASSUME NEW n \in Room, PopEnter(t, n) PROVE IndexInv'
        BY <2>3, EnterIndexInv DEF PopEnter
    <2>4. CASE CheckEnter(t)
        BY <2>4, EnterIndexInv DEF CheckEnter
    <2>5. CASE ResetEnter(t)
        BY <2>5, EnterIndexInv DEF ResetEnter
    <2>6. QED
        BY <1>3, <2>1, <2>2, <2>3, <2>4, <2>5 DEF Call
<1>4. QED
    BY <1>1, <1>2, <1>3 DEF Next

\* The inductive invariant holds throughout, for every ring and every
\* number of threads.
THEOREM IndexInvHolds == Spec => []IndexInv
BY InitIndexInv, NextIndexInv, PTL DEF Spec

\* Whatever the threads do, the indexes hold between 0 and QSize frames,
\* also in the middle of pop's fold.
THEOREM DepthBoundHolds == Spec => []DepthBound
<1>1. IndexInv => DepthBound
    BY DEF IndexInv, TypeOK, DepthBound, Pushed, PlaceOK, At
<1>2. QED
    BY <1>1, IndexInvHolds, PTL

\* A queue that is never reset keeps both indexes below two rings.
THEOREM IndexBoundHolds == Spec => []IndexBound
<1>1. IndexInv => IndexBound
    BY DEF IndexInv, IndexBound
<1>2. QED
    BY <1>1, IndexInvHolds, PTL

-----------------------------------------------------------------------------
(***************************************************************************)
(* The ring implements the bounded FIFO.                                   *)
(***************************************************************************)

\* Facts about % that place an index in its slot.
LEMMA DivMod ==
    ASSUME NEW a \in Int, NEW q \in Nat \ {0}
    PROVE  /\ a = q * (a \div q) + (a % q)
           /\ a \div q \in Int
           /\ a % q \in 0 .. q - 1
OBVIOUS

\* A multiple of the ring size less than a ring away from zero is zero.
LEMMA SmallMultiple ==
    ASSUME NEW q \in Nat \ {0}, NEW d \in Int, q * d < q, -q < q * d
    PROVE  d = 0
<1>1. CASE d >= 1
    <2>1. q * d >= q * 1
        BY <1>1
    <2>2. QED
        BY <2>1
<1>2. CASE d <= -1
    <2>1. q * d <= q * (-1)
        BY <1>2
    <2>2. QED
        BY <2>1
<1>3. QED
    BY <1>1, <1>2

\* An index and the one a ring behind it select the same slot.
LEMMA SameSlot ==
    ASSUME NEW a \in Int, NEW q \in Nat \ {0}
    PROVE  (a - q) % q = a % q
<1> DEFINE b == a - q
           k == (a \div q) - 1
           l == b \div q
           r == a % q
           s == b % q
<1>1. a = q * (a \div q) + r /\ a \div q \in Int /\ r \in 0 .. q - 1
    BY DivMod
<1>2. b = q * l + s /\ l \in Int /\ s \in 0 .. q - 1
    <2>1. b \in Int
        OBVIOUS
    <2> HIDE DEF b
    <2>2. QED
        BY <2>1, DivMod
<1>3. k \in Int /\ q * k = q * (a \div q) - q
    BY <1>1
<1>4. q * k + r = q * l + s
    BY <1>1, <1>2, <1>3
<1> HIDE DEF b, k, l, r, s
<1>5. q * (k - l) = s - r
    BY <1>1, <1>2, <1>3, <1>4
<1>6. k - l = 0
    BY <1>1, <1>2, <1>3, <1>5, SmallMultiple
<1>7. r = s
    BY <1>1, <1>2, <1>3, <1>5, <1>6
<1>8. QED
    BY <1>7 DEF b, r, s

\* Two different indexes less than a ring apart select different slots.
LEMMA DistinctSlots ==
    ASSUME NEW a \in Int, NEW b \in Int, NEW q \in Nat \ {0},
           a < b, b < a + q
    PROVE  a % q # b % q
<1> SUFFICES ASSUME a % q = b % q PROVE FALSE
    OBVIOUS
<1>1. a = q * (a \div q) + (a % q) /\ a \div q \in Int /\ a % q \in Int
    BY DivMod
<1>2. b = q * (b \div q) + (b % q) /\ b \div q \in Int /\ b % q \in Int
    BY DivMod
<1> DEFINE d == (b \div q) - (a \div q)
<1>3. d \in Int /\ q * d = b - a
    BY <1>1, <1>2
<1> HIDE DEF d
<1>4. d = 0
    BY <1>3, SmallMultiple
<1>5. QED
    BY <1>3, <1>4

\* In a new queue no thread is about to move an index.
LEMMA InitSlotInv == Init => SlotInv
BY DEF Init, SlotInv, At

\* What a thread put in or took from a slot stands until it moves its index.
LEMMA NextSlotInv == IndexInv /\ SlotInv /\ [Next]_vars => SlotInv'
<1> SUFFICES ASSUME IndexInv, SlotInv, [Next]_vars PROVE SlotInv'
    OBVIOUS
<1> USE DEF At, Goto, Return, shared
<1>1. CASE UNCHANGED vars
    BY <1>1 DEF vars, SlotInv
<1>2. ASSUME NEW t \in Threads, Body(t) PROVE SlotInv'
    <2>1. lock = t /\ pc[t] # "idle"
        BY <1>2 DEF IndexInv, LockHeld, Body, PushFull, PushStore, PushInc,
           PopEmpty, PopCopy, PopInc, WrapPush, WrapPop, Check, Reset, Leave
    <2>2. \A u \in Threads : u # t => pc[u] = "idle"
        BY <2>1 DEF IndexInv, LockHeld
    <2>3. CASE PushStore(t)
        <3>1. bufs'[push_idx % QSize] = arg[t]
            BY <2>3, SlotInRing DEF PushStore, IndexInv, TypeOK
        <3>2. QED
            BY <2>2, <2>3, <3>1 DEF PushStore, SlotInv, IndexInv, TypeOK
    <2>4. CASE PopCopy(t)
        <3>1. arg'[t] = Clip(bufs[pop_idx % QSize], arg[t]) /\ arg[t] \in Room
            BY <2>4 DEF PopCopy, IndexInv, TypeOK, ArgOK
        <3>2. QED
            BY <2>2, <2>4, <3>1 DEF PopCopy, SlotInv, IndexInv, TypeOK
    <2>5. CASE ~PushStore(t) /\ ~PopCopy(t)
        <3>1. pc'[t] \notin {"push_inc", "pop_inc"} /\
              \A u \in Threads : u # t => pc'[u] = pc[u]
            BY <1>2, <2>5 DEF IndexInv, TypeOK, Body, PushFull, PushInc,
               PopEmpty, PopInc, WrapPush, WrapPop, Check, Reset, Leave
        <3>2. QED
            BY <2>2, <3>1 DEF SlotInv
    <2>6. QED
        BY <2>3, <2>4, <2>5
<1>3. ASSUME NEW t \in Threads, Call(t) PROVE SlotInv'
    <2>1. /\ UNCHANGED shared
          /\ \A u \in Threads : pc'[u] \in {"push_inc", "pop_inc"} =>
                 pc'[u] = pc[u] /\ arg'[u] = arg[u]
        BY <1>3 DEF Call, PushMisfit, PushEnter, PopEnter, CheckEnter,
           ResetEnter, Enter, IndexInv, TypeOK
    <2>2. QED
        BY <2>1 DEF SlotInv
<1>4. QED
    BY <1>1, <1>2, <1>3 DEF Next

SlotFrame == [data : Data, size : 0 .. BSize]

QueuedOK ==
    /\ Queued \in Seq(SlotFrame)
    /\ Len(Queued) = Pushed - pop_idx
    /\ \A i \in 1 .. Len(Queued) : Queued[i] = bufs[(pop_idx + i - 1) % QSize]

\* The queue the indexes and slots encode is a sequence of stored frames.
LEMMA QueuedSeq == IndexInv => QueuedOK
<1> SUFFICES ASSUME IndexInv PROVE QueuedOK
    OBVIOUS
<1>1. Pushed - pop_idx \in Nat
    BY DEF IndexInv, TypeOK, Pushed, PlaceOK, At
<1>2. \A i \in 1 .. Pushed - pop_idx :
          bufs[(pop_idx + i - 1) % QSize] \in SlotFrame
    <2> SUFFICES ASSUME NEW i \in 1 .. Pushed - pop_idx
                 PROVE  bufs[(pop_idx + i - 1) % QSize] \in SlotFrame
        OBVIOUS
    <2>1. pop_idx + i - 1 \in Nat
        BY <1>1 DEF IndexInv, TypeOK
    <2>2. (pop_idx + i - 1) % QSize \in Slots
        BY <2>1, SlotInRing
    <2>3. QED
        BY <2>2 DEF IndexInv, TypeOK, SlotFrame
<1>3. QED
    BY <1>1, <1>2 DEF Queued, QueuedOK

\* The same after a step.
LEMMA QueuedSeqPrime == IndexInv' => QueuedOK'
BY QueuedSeq, PTL

\* Two states whose indexes span equally many, equal slots encode the same
\* queue.
LEMMA SameQueued ==
    ASSUME IndexInv, IndexInv',
           Pushed' - pop_idx' = Pushed - pop_idx,
           \A i \in 1 .. Pushed - pop_idx :
               bufs'[(pop_idx' + i - 1) % QSize] = bufs[(pop_idx + i - 1) % QSize]
    PROVE  Queued' = Queued
BY DEF Queued

\* One queue extends another by one frame at the back.
LEMMA AppendQueued ==
    ASSUME IndexInv, IndexInv', NEW f \in SlotFrame,
           Pushed' - pop_idx' = Pushed - pop_idx + 1,
           pop_idx' = pop_idx, bufs' = bufs,
           bufs[Pushed % QSize] = f
    PROVE  Queued' = Append(Queued, f)
<1>1. /\ Queued \in Seq(SlotFrame)
      /\ Len(Queued) = Pushed - pop_idx
      /\ \A i \in 1 .. Len(Queued) :
            Queued[i] = bufs[(pop_idx + i - 1) % QSize]
    BY QueuedSeq DEF QueuedOK
<1>2. /\ Queued' \in Seq(SlotFrame)
      /\ Len(Queued') = Pushed - pop_idx + 1
      /\ \A i \in 1 .. Len(Queued') :
            Queued'[i] = bufs[(pop_idx + i - 1) % QSize]
    <2>1. /\ Queued' \in Seq(SlotFrame)
          /\ Len(Queued') = Pushed' - pop_idx'
          /\ \A i \in 1 .. Len(Queued') :
                Queued'[i] = bufs'[(pop_idx' + i - 1) % QSize]
        BY QueuedSeqPrime DEF QueuedOK
    <2>2. QED
        BY <2>1
<1>3. Pushed \in Int /\ pop_idx \in Int /\ Pushed - pop_idx \in Nat
    BY <1>1 DEF IndexInv, TypeOK, Pushed
<1>4. /\ Append(Queued, f) \in Seq(SlotFrame)
      /\ Len(Append(Queued, f)) = Len(Queued) + 1
      /\ \A i \in 1 .. Len(Queued) : Append(Queued, f)[i] = Queued[i]
      /\ Append(Queued, f)[Len(Queued) + 1] = f
    BY ONLY <1>1, f \in SlotFrame
<1>5. \A i \in 1 .. Len(Queued') : Queued'[i] = Append(Queued, f)[i]
    <2> SUFFICES ASSUME NEW i \in 1 .. Len(Queued')
                 PROVE  Queued'[i] = Append(Queued, f)[i]
        OBVIOUS
    <2>1. CASE i = Len(Queued) + 1
        <3>1. pop_idx + i - 1 = Pushed
            BY <1>1, <1>3, <2>1
        <3>2. QED
            BY <1>2, <1>4, <2>1, <3>1
    <2>2. CASE i # Len(Queued) + 1
        BY <1>1, <1>2, <1>3, <1>4, <2>2
    <2>3. QED
        BY <2>1, <2>2
<1>6. QED
    BY <1>1, <1>2, <1>3, <1>4, <1>5, EqualSeqs

\* One queue is another without its oldest frame.
LEMMA TailQueued ==
    ASSUME IndexInv, IndexInv',
           pop_idx < Pushed,
           Pushed' = Pushed, pop_idx' = pop_idx + 1, bufs' = bufs
    PROVE  /\ Queued # << >>
           /\ Queued' = Tail(Queued)
           /\ Head(Queued) = bufs[pop_idx % QSize]
<1>1. /\ Queued \in Seq(SlotFrame)
      /\ Len(Queued) = Pushed - pop_idx
      /\ \A i \in 1 .. Len(Queued) :
            Queued[i] = bufs[(pop_idx + i - 1) % QSize]
    BY QueuedSeq DEF QueuedOK
<1>2. /\ Queued' \in Seq(SlotFrame)
      /\ Len(Queued') = Pushed' - pop_idx'
      /\ \A i \in 1 .. Len(Queued') :
            Queued'[i] = bufs'[(pop_idx' + i - 1) % QSize]
    BY QueuedSeqPrime DEF QueuedOK
<1>3. Pushed \in Int /\ pop_idx \in Int
    BY DEF IndexInv, TypeOK, Pushed
<1>4. Queued # << >>
    BY <1>1, <1>3
<1>5. /\ Tail(Queued) \in Seq(SlotFrame)
      /\ Len(Tail(Queued)) = Len(Queued) - 1
      /\ \A i \in 1 .. Len(Tail(Queued)) : Tail(Queued)[i] = Queued[i + 1]
    BY ONLY <1>1, <1>4
<1>6. \A i \in 1 .. Len(Queued') : Queued'[i] = Tail(Queued)[i]
    <2> SUFFICES ASSUME NEW i \in 1 .. Len(Queued')
                 PROVE  Queued'[i] = Tail(Queued)[i]
        OBVIOUS
    <2>1. pop_idx' + i - 1 = pop_idx + (i + 1) - 1
        BY <1>2, <1>3
    <2>2. i \in 1 .. Len(Tail(Queued)) /\ i + 1 \in 1 .. Len(Queued)
        <3>1. Len(Queued') = Len(Queued) - 1 /\ Len(Queued) \in Nat
            BY <1>1, <1>2, <1>3
        <3>2. QED
            BY <1>5, <3>1
    <2>3. Queued'[i] = bufs[(pop_idx + (i + 1) - 1) % QSize]
        BY <1>2, <2>1
    <2>4. Queued[i + 1] = bufs[(pop_idx + (i + 1) - 1) % QSize]
        BY <1>1, <2>2
    <2>5. QED
        BY <1>5, <2>2, <2>3, <2>4
<1>7. Queued' = Tail(Queued)
    <2>1. Len(Queued') = Len(Tail(Queued))
        BY <1>1, <1>2, <1>3, <1>5
    <2>2. QED
        BY <1>2, <1>5, <1>6, <2>1, EqualSeqs
<1>8. Head(Queued) = bufs[pop_idx % QSize]
    <2>1. pop_idx + 1 - 1 = pop_idx /\ 1 \in 1 .. Len(Queued)
        BY <1>1, <1>3
    <2>2. QED
        BY <1>1, <2>1
<1>9. QED
    BY <1>4, <1>7, <1>8

\* Every step of the ring is a step of the FIFO or changes nothing in it.
LEMMA StepSimulation ==
    ASSUME IndexInv, IndexInv', SlotInv, [Next]_vars
    PROVE  [Fifo!Next]_(Fifo!vars)
<1> USE DEF At, Goto, Return, shared, Refused, Accepted, Delivered, Counted,
            Fifo!Refused, Fifo!Accepted, Fifo!Delivered, Fifo!Counted
<1>0. pop_idx \in Int /\ push_idx \in Int /\ Pushed \in Int
    BY DEF IndexInv, TypeOK, Pushed
<1>1. CASE UNCHANGED vars
    BY <1>1 DEF vars, Fifo!vars, Queued, Pushed
<1>2. ASSUME NEW t \in Threads, Call(t) PROVE [Fifo!Next]_(Fifo!vars)
    <2>1. UNCHANGED shared /\ Pushed' = Pushed
        BY <1>2 DEF Call, PushMisfit, PushEnter, PopEnter, CheckEnter,
           ResetEnter, Enter, IndexInv, LockHeld, TypeOK, Pushed
    <2>2. Queued' = Queued
        BY <2>1 DEF Queued
    <2>3. ASSUME NEW f \in Frames, PushMisfit(t, f) PROVE Fifo!Next
        BY <2>2, <2>3 DEF PushMisfit, Fifo!Next, Fifo!Misfit
    <2>4. CASE UNCHANGED got
        BY <2>2, <2>4 DEF Fifo!vars
    <2>5. QED
        BY <1>2, <2>3, <2>4 DEF Call, PushEnter, PopEnter, CheckEnter,
           ResetEnter, Enter
<1>3. ASSUME NEW t \in Threads, Body(t) PROVE [Fifo!Next]_(Fifo!vars)
    <2>1. lock = t /\ pc[t] # "idle"
        BY <1>3 DEF IndexInv, LockHeld, Body, PushFull, PushStore, PushInc,
           PopEmpty, PopCopy, PopInc, WrapPush, WrapPop, Check, Reset, Leave
    <2>2. \A u \in Threads : u # t => pc[u] = "idle"
        BY <2>1 DEF IndexInv, LockHeld
    <2>3. Queued \in Seq(SlotFrame) /\ Len(Queued) = Pushed - pop_idx
        BY QueuedSeq DEF QueuedOK
    <2>4. CASE PushFull(t)
        <3>1. Pushed = push_idx /\ Pushed' = push_idx
            BY <2>2, <2>4 DEF PushFull, Pushed, IndexInv, TypeOK
        <3>2. Queued' = Queued
            BY <2>4, <3>1 DEF PushFull, Queued
        <3>3. Len(Queued) = QSize
            BY <1>0, <2>2, <2>3, <2>4, <3>1 DEF PushFull, IndexInv
        <3>4. QED
            BY <2>4, <3>2, <3>3 DEF PushFull, Fifo!Next, Fifo!Full
    <2>5. CASE PopEmpty(t)
        <3>1. Pushed = push_idx /\ Pushed' = push_idx
            BY <2>2, <2>5 DEF PopEmpty, Pushed, IndexInv, TypeOK
        <3>2. Queued' = Queued
            BY <2>5, <3>1 DEF PopEmpty, Queued
        <3>3. Len(Queued) = 0
            BY <1>0, <2>2, <2>3, <2>5, <3>1 DEF PopEmpty, IndexInv
        <3>4. Queued = << >>
            BY ONLY <2>3, <3>3
        <3>5. QED
            BY <2>5, <3>2, <3>4 DEF PopEmpty, Fifo!Next, Fifo!Empty
    <2>6. CASE Check(t)
        <3>1. Pushed = push_idx /\ Pushed' = push_idx
            BY <2>2, <2>6 DEF Check, Pushed, IndexInv, TypeOK
        <3>2. Queued' = Queued
            BY <2>6, <3>1 DEF Check, Queued
        <3>3. QED
            BY <2>3, <2>6, <3>1, <3>2 DEF Check, Fifo!Next, Fifo!Depth
    <2>7. CASE PushStore(t)
        <3>1. /\ Pushed = push_idx /\ Pushed' = push_idx /\ pop_idx' = pop_idx
              /\ push_idx < pop_idx + QSize
            BY <1>0, <2>2, <2>7 DEF PushStore, Pushed, IndexInv, TypeOK
        <3>2. ASSUME NEW i \in 1 .. Pushed - pop_idx
              PROVE  bufs'[(pop_idx' + i - 1) % QSize]
                         = bufs[(pop_idx + i - 1) % QSize]
            <4>1. (pop_idx + i - 1) % QSize # push_idx % QSize
                <5>1. /\ pop_idx + i - 1 \in Int
                      /\ pop_idx + i - 1 < push_idx
                      /\ push_idx < pop_idx + i - 1 + QSize
                    BY ONLY <1>0, <3>1, i \in 1 .. Pushed - pop_idx, QSizeAssumption
                <5>2. QED
                    BY <1>0, <5>1, DistinctSlots
            <4>2. QED
                BY <2>7, <3>1, <4>1 DEF PushStore, IndexInv, TypeOK
        <3>3. Queued' = Queued
            BY <3>1, <3>2, SameQueued
        <3>4. QED
            BY <2>7, <3>3 DEF PushStore, Fifo!vars
    <2>8. CASE PushInc(t)
        <3>1. Pushed = push_idx /\ Pushed' = push_idx + 1
            BY <2>2, <2>8 DEF PushInc, Pushed, IndexInv, TypeOK
        <3>2. arg[t] \in SlotFrame /\ arg[t] \in Frames /\ Fits(arg[t])
            BY <2>8 DEF PushInc, IndexInv, ArgOK, Frames, Fits, SlotFrame
        <3>3. bufs[Pushed % QSize] = arg[t]
            BY <2>8, <3>1 DEF PushInc, SlotInv
        <3>4. Pushed' - pop_idx' = Pushed - pop_idx + 1
            BY <1>0, <2>8, <3>1 DEF PushInc
        <3>5. Queued' = Append(Queued, arg[t])
            BY <2>8, <3>2, <3>3, <3>4, AppendQueued DEF PushInc
        <3>6. Len(Queued) < QSize
            BY <1>0, <2>3, <2>8, <3>1 DEF PushInc, IndexInv, PlaceOK
        <3>7. QED
            BY <2>8, <3>2, <3>5, <3>6 DEF PushInc, Fifo!Next, Fifo!Push
    <2>9. CASE PopCopy(t)
        <3>1. Pushed = push_idx /\ Pushed' = push_idx
            BY <2>2, <2>9 DEF PopCopy, Pushed, IndexInv, TypeOK
        <3>2. Queued' = Queued
            BY <2>9, <3>1 DEF PopCopy, Queued
        <3>3. QED
            BY <2>9, <3>2 DEF PopCopy, Fifo!vars
    <2>10. CASE PopInc(t)
        <3>1. Pushed = push_idx /\ Pushed' = push_idx
            BY SMTT(30), <2>2, <2>10 DEF PopInc, Pushed, IndexInv, TypeOK
        <3>2. pop_idx < Pushed
            BY <2>10, <3>1 DEF PopInc, IndexInv, PlaceOK
        <3>3. /\ Queued # << >>
              /\ Queued' = Tail(Queued)
              /\ Head(Queued) = bufs[pop_idx % QSize]
            BY <2>10, <3>1, <3>2, TailQueued DEF PopInc
        <3>4. PICK n \in Room : arg[t] = Clip(bufs[pop_idx % QSize], n)
            BY <2>10 DEF PopInc, SlotInv
        <3>5. Fifo!Pop(t, n)
            BY <2>10, <3>3, <3>4 DEF PopInc, Fifo!Pop
        <3>6. QED
            BY <3>5 DEF Fifo!Next
    <2>11. CASE WrapPush(t)
        <3>1. Pushed = push_idx /\ Pushed' = push_idx - QSize + QSize
            BY <2>2, <2>11 DEF WrapPush, Pushed, IndexInv, TypeOK
        <3>2. Pushed' = Pushed
            BY <1>0, <3>1
        <3>3. Queued' = Queued
            BY <2>11, <3>2 DEF WrapPush, Queued
        <3>4. QED
            BY <2>11, <3>3 DEF WrapPush, Fifo!vars
    <2>12. CASE WrapPop(t)
        <3>1. /\ Pushed = push_idx + QSize /\ Pushed' = push_idx
              /\ pop_idx' = pop_idx - QSize
            BY <2>2, <2>12 DEF WrapPop, Pushed, IndexInv, TypeOK
        <3>2. ASSUME NEW i \in 1 .. Pushed - pop_idx
              PROVE  bufs'[(pop_idx' + i - 1) % QSize]
                         = bufs[(pop_idx + i - 1) % QSize]
            <4>1. pop_idx + i - 1 \in Int
                BY ONLY <1>0, i \in 1 .. Pushed - pop_idx
            <4>2. pop_idx' + i - 1 = (pop_idx + i - 1) - QSize
                BY ONLY <1>0, <3>1, i \in 1 .. Pushed - pop_idx, QSizeAssumption
            <4>3. QED
                BY <2>12, <4>1, <4>2, SameSlot DEF WrapPop
        <3>3. Pushed' - pop_idx' = Pushed - pop_idx
            BY <1>0, <3>1
        <3>4. Queued' = Queued
            BY <3>2, <3>3, SameQueued
        <3>5. QED
            BY <2>12, <3>4 DEF WrapPop, Fifo!vars
    <2>13. CASE Reset(t)
        <3>1. Pushed' = push_idx /\ pop_idx' = push_idx
            BY <2>2, <2>13 DEF Reset, Pushed, IndexInv, TypeOK
        <3>2. Queued' \in Seq(SlotFrame) /\ Len(Queued') = Pushed' - pop_idx'
            BY QueuedSeqPrime DEF QueuedOK
        <3>3. Len(Queued') = 0
            BY <1>0, <3>1, <3>2
        <3>4. Queued' = << >>
            BY ONLY <3>2, <3>3
        <3>5. QED
            BY <2>13, <3>4 DEF Reset, Fifo!Next, Fifo!Reset
    <2>14. CASE Leave(t)
        <3>1. Pushed = push_idx /\ Pushed' = push_idx
            BY <2>2, <2>14 DEF Leave, Pushed, IndexInv, TypeOK
        <3>2. Queued' = Queued
            BY <2>14, <3>1 DEF Leave, Queued
        <3>3. QED
            BY <2>14, <3>2 DEF Leave, Fifo!vars
    <2>15. QED
        BY <1>3, <2>4, <2>5, <2>6, <2>7, <2>8, <2>9, <2>10, <2>11, <2>12,
           <2>13, <2>14 DEF Body
<1>4. QED
    BY <1>1, <1>2, <1>3 DEF Next

\* The ring implements the bounded FIFO its callers rely on.
THEOREM RingImplementsFifo == Spec => FifoSpec
<1>1. Init => Fifo!Init
    BY DEF Init, Fifo!Init, Queued, Pushed, At, Refused, Fifo!Refused
<1>2. Init => SlotInv
    BY InitSlotInv
<1>3. IndexInv /\ SlotInv /\ [Next]_vars => SlotInv'
    BY NextSlotInv
<1>4. IndexInv /\ IndexInv' /\ SlotInv /\ [Next]_vars
          => [Fifo!Next]_(Fifo!vars)
    BY StepSimulation
<1>5. QED
    BY <1>1, <1>2, <1>3, <1>4, IndexInvHolds, PTL DEF Spec, FifoSpec, Fifo!Spec
=============================================================================
