------------------------------- MODULE QBuf -------------------------------
(***************************************************************************)
(* The ring of frame buffers between a driver's worker thread and its IPC  *)
(* thread (x86/system/drivers/wlan/utils/qbuf.c; the raspi5 and raspix     *)
(* drivers carry the same file).  The two indexes are plain C ints that    *)
(* grow past the ring and are folded back by pop, in two separate stores,  *)
(* so every call runs under the queue's lock.  Each store to the shared    *)
(* structure is a step here: only the lock makes a call atomic.            *)
(***************************************************************************)
EXTENDS Integers, Sequences

CONSTANTS
    Threads,    \* callers
    Data,       \* frame contents
    Sizes,      \* the frame sizes callers pass to push
    Room,       \* the buffer sizes callers pass to pop
    QSize,      \* qbuf->qsize
    BSize,      \* qbuf->bsize
    WithReset,  \* whether any caller uses queue_buffer_reset (x86: none)
    IdxCap      \* bound on push_idx, which reset lets grow for ever

NoThread == "unlocked"

ASSUME QSizeAssumption == QSize \in Nat \ {0}
ASSUME BSizeAssumption == BSize \in Nat
ASSUME SizesAssumption == Sizes \subseteq Int /\ Room \subseteq Int
ASSUME DataAssumption == Data # {}
ASSUME ThreadsAssumption == NoThread \notin Threads
ASSUME ResetAssumption == WithReset \in BOOLEAN
ASSUME IdxCapAssumption == IdxCap \in Nat

VARIABLES
    bufs,       \* slot -> the frame last stored there
    push_idx,
    pop_idx,
    lock,       \* the thread inside the lock
    pc,         \* pc[t]: where thread t is in a call
    arg,        \* arg[t]: what the call in progress was given or has read
    got         \* got[t]: what t's last call returned

vars == <<bufs, push_idx, pop_idx, lock, pc, arg, got>>
shared == <<bufs, push_idx, pop_idx>>

Frames == [data : Data, size : Sizes]

\* The admission rule of push: nothing empty, nothing larger than a slot.
Fits(f) == 0 < f.size /\ f.size <= BSize

\* pop copies min(src->size, size) bytes.
Clip(f, size) == IF f.size < size THEN f ELSE [f EXCEPT !.size = size]

Refused == <<"none">>
Accepted(f) == <<"pushed", f>>
Delivered(f) == <<"popped", f>>
Counted(n) == <<"depth", n>>

Slots == 0 .. QSize - 1
EmptySlot == [data |-> CHOOSE d \in Data : TRUE, size |-> 0]

(***************************************************************************)
(* queue_buffer_alloc                                                      *)
(***************************************************************************)
Init ==
    /\ bufs = [i \in Slots |-> EmptySlot]
    /\ push_idx = 0
    /\ pop_idx = 0
    /\ lock = NoThread
    /\ pc = [t \in Threads |-> "idle"]
    /\ arg = [t \in Threads |-> EmptySlot]
    /\ got = [t \in Threads |-> Refused]

At(t, here) == pc[t] = here
Goto(t, there) == pc' = [pc EXCEPT ![t] = there]
Return(t, result) == got' = [got EXCEPT ![t] = result]

\* pthread_mutex_lock and pthread_mutex_unlock around the body of a call.
NoMutexEnter(t, body, a) ==
    /\ At(t, "idle")
    /\ lock' = t
    /\ Goto(t, body)
    /\ arg' = [arg EXCEPT ![t] = a]
    /\ UNCHANGED <<shared, got>>

Enter(t, body, a) ==
    /\ At(t, "idle")
    /\ lock = NoThread
    /\ lock' = t
    /\ Goto(t, body)
    /\ arg' = [arg EXCEPT ![t] = a]
    /\ UNCHANGED <<shared, got>>

Leave(t) ==
    /\ At(t, "unlock")
    /\ lock' = NoThread
    /\ Goto(t, "idle")
    /\ arg' = [arg EXCEPT ![t] = EmptySlot]
    /\ UNCHANGED <<shared, got>>

(***************************************************************************)
(* queue_buffer_push                                                       *)
(***************************************************************************)
PushMisfit(t, f) ==
    /\ At(t, "idle")
    /\ ~Fits(f)
    /\ Return(t, Refused)
    /\ UNCHANGED <<shared, lock, pc, arg>>

PushEnter(t, f) ==
    /\ Fits(f)
    /\ push_idx < IdxCap
    /\ Enter(t, "push", f)

PushFull(t) ==
    /\ At(t, "push")
    /\ push_idx - pop_idx >= QSize
    /\ Return(t, Refused)
    /\ Goto(t, "unlock")
    /\ UNCHANGED <<shared, lock, arg>>

\* Off by one in the space check.
PushStoreOverfull(t) ==
    /\ At(t, "push")
    /\ push_idx - pop_idx <= QSize
    /\ bufs' = [bufs EXCEPT ![push_idx % QSize] = arg[t]]
    /\ Goto(t, "push_inc")
    /\ UNCHANGED <<push_idx, pop_idx, lock, arg, got>>

PushStore(t) ==
    /\ At(t, "push")
    /\ push_idx - pop_idx < QSize
    /\ bufs' = [bufs EXCEPT ![push_idx % QSize] = arg[t]]
    /\ Goto(t, "push_inc")
    /\ UNCHANGED <<push_idx, pop_idx, lock, arg, got>>

PushInc(t) ==
    /\ At(t, "push_inc")
    /\ push_idx' = push_idx + 1
    /\ Return(t, Accepted(arg[t]))
    /\ Goto(t, "unlock")
    /\ UNCHANGED <<bufs, pop_idx, lock, arg>>

(***************************************************************************)
(* queue_buffer_pop                                                        *)
(***************************************************************************)
PopEnter(t, size) == Enter(t, "pop", size)

PopEmpty(t) ==
    /\ At(t, "pop")
    /\ push_idx <= pop_idx
    /\ Return(t, Refused)
    /\ Goto(t, "unlock")
    /\ UNCHANGED <<shared, lock, arg>>

PopCopy(t) ==
    /\ At(t, "pop")
    /\ push_idx > pop_idx
    /\ arg' = [arg EXCEPT ![t] = Clip(bufs[pop_idx % QSize], arg[t])]
    /\ Goto(t, "pop_inc")
    /\ UNCHANGED <<shared, lock, got>>

\* The fold that brings both indexes back, left out.
PopIncNoWrap(t) ==
    /\ At(t, "pop_inc")
    /\ pop_idx' = pop_idx + 1
    /\ Return(t, Delivered(arg[t]))
    /\ Goto(t, "unlock")
    /\ UNCHANGED <<bufs, push_idx, lock, arg>>

PopInc(t) ==
    /\ At(t, "pop_inc")
    /\ pop_idx' = pop_idx + 1
    /\ Return(t, Delivered(arg[t]))
    /\ Goto(t, IF push_idx >= QSize /\ pop_idx' >= QSize
               THEN "wrap_push" ELSE "unlock")
    /\ UNCHANGED <<bufs, push_idx, lock, arg>>

WrapPush(t) ==
    /\ At(t, "wrap_push")
    /\ push_idx' = push_idx - QSize
    /\ Goto(t, "wrap_pop")
    /\ UNCHANGED <<bufs, pop_idx, lock, arg, got>>

WrapPop(t) ==
    /\ At(t, "wrap_pop")
    /\ pop_idx' = pop_idx - QSize
    /\ Goto(t, "unlock")
    /\ UNCHANGED <<bufs, push_idx, lock, arg, got>>

(***************************************************************************)
(* queue_buffer_check and queue_buffer_reset                               *)
(***************************************************************************)
CheckEnter(t) == Enter(t, "check", EmptySlot)

Check(t) ==
    /\ At(t, "check")
    /\ Return(t, Counted(push_idx - pop_idx))
    /\ Goto(t, "unlock")
    /\ UNCHANGED <<shared, lock, arg>>

ResetEnter(t) ==
    /\ WithReset
    /\ Enter(t, "reset", EmptySlot)

Reset(t) ==
    /\ At(t, "reset")
    /\ pop_idx' = push_idx
    /\ Goto(t, "unlock")
    /\ UNCHANGED <<bufs, push_idx, lock, arg, got>>

Call(t) ==
    \/ \E f \in Frames : PushMisfit(t, f) \/ PushEnter(t, f)
    \/ \E size \in Room : PopEnter(t, size)
    \/ CheckEnter(t)
    \/ ResetEnter(t)

Body(t) ==
    \/ PushFull(t)
    \/ PushStore(t)
    \/ PushInc(t)
    \/ PopEmpty(t)
    \/ PopCopy(t)
    \/ PopInc(t)
    \/ WrapPush(t)
    \/ WrapPop(t)
    \/ Check(t)
    \/ Reset(t)
    \/ Leave(t)

Next == \E t \in Threads : Call(t) \/ Body(t)

Spec == Init /\ [][Next]_vars
-----------------------------------------------------------------------------
(***************************************************************************)
(* Properties                                                              *)
(***************************************************************************)
Places == {"idle", "push", "push_inc", "pop", "pop_inc", "wrap_push",
           "wrap_pop", "check", "reset", "unlock"}

\* The types of the shared structure and of each thread's place in it; a
\* slot never holds more bytes than queue_buffer_alloc gave it.
TypeOK ==
    /\ bufs \in [Slots -> [data : Data, size : 0 .. BSize]]
    /\ push_idx \in Int
    /\ pop_idx \in Int
    /\ lock \in Threads \cup {NoThread}
    /\ pc \in [Threads -> Places]
    /\ arg = [t \in Threads |-> arg[t]]
    /\ got = [t \in Threads |-> got[t]]

\* Between the two stores of pop's fold push_idx is a ring behind.
Pushed == push_idx + (IF \E t \in Threads : At(t, "wrap_pop") THEN QSize ELSE 0)

\* The frames queued, oldest first, as the indexes and slots encode them.
Queued == [i \in 1 .. Pushed - pop_idx |-> bufs[(pop_idx + i - 1) % QSize]]

\* The indexes never hold more frames than slots, nor fewer than none,
\* whatever the calls of the two threads and wherever pop is in its fold
\* (queue_buffer_push's space test, queue_buffer_pop's index fold).
DepthBound ==
    /\ 0 <= Pushed - pop_idx
    /\ Pushed - pop_idx <= QSize

\* In a driver that never resets a queue, pop's fold keeps both ints below
\* two rings for ever, so neither can overflow.
IndexBound == ~WithReset => push_idx < 2 * QSize /\ pop_idx <= QSize

\* The strengthening that makes the two bounds inductive: who holds the
\* lock, and what each place in a call has established about the indexes.
LockHeld == \A t \in Threads : ~At(t, "idle") <=> lock = t

Folding == \E t \in Threads : At(t, "wrap_push") \/ At(t, "wrap_pop")

ArgOK(t) ==
    CASE pc[t] \in {"push", "push_inc"} -> arg[t] \in Frames /\ Fits(arg[t])
      [] At(t, "pop") -> arg[t] \in Room
      [] At(t, "pop_inc") -> arg[t] \in [data : Data, size : Int]
      [] OTHER -> TRUE

PlaceOK(t) ==
    /\ At(t, "push_inc") => push_idx < pop_idx + QSize
    /\ At(t, "pop_inc") => pop_idx < push_idx
    /\ At(t, "reset") => WithReset
    /\ At(t, "wrap_push") => push_idx >= QSize /\ pop_idx >= QSize
    /\ At(t, "wrap_pop") => /\ pop_idx >= QSize
                            /\ pop_idx <= push_idx + QSize
                            /\ push_idx <= pop_idx

IndexInv ==
    /\ TypeOK
    /\ push_idx >= 0 /\ pop_idx >= 0
    /\ LockHeld
    /\ \A t \in Threads : ArgOK(t) /\ PlaceOK(t)
    /\ (\A t \in Threads : ~At(t, "wrap_pop")) =>
          pop_idx <= push_idx /\ push_idx <= pop_idx + QSize
    /\ ~WithReset => /\ push_idx < 2 * QSize
                     /\ pop_idx <= QSize
                     /\ pop_idx = QSize => Folding

\* What a thread about to move an index has already put in, or taken from,
\* the slot that index selects.
SlotInv ==
    \A t \in Threads :
        /\ At(t, "push_inc") => bufs[push_idx % QSize] = arg[t]
        /\ At(t, "pop_inc") =>
              \E n \in Room : arg[t] = Clip(bufs[pop_idx % QSize], n)

Fifo == INSTANCE BoundedFifo WITH fifo <- Queued, Capacity <- QSize
\* The ring is a bounded FIFO to its callers: no frame is lost, duplicated,
\* reordered or mixed with another one, and a refusal is truthful.
FifoSpec == Fifo!Spec
=============================================================================
