------------------------------- MODULE IwlTxq -------------------------------
(***************************************************************************)
(* The data queue of the Intel WLAN driver                                 *)
(* (x86/system/drivers/wlan/iwl/trans.c): frames are put on the ring by    *)
(* the IPC thread and by the worker, under tx_lock; the worker takes back  *)
(* entries when the firmware reports them sent, and sets the ring up anew  *)
(* when the station connects again, both without the lock.  IwlData adds   *)
(* the callers.                                                            *)
(***************************************************************************)
EXTENDS Integers, Sequences, Functions

CONSTANTS
    Size,        \* q->size, a power of two
    Start,       \* the entry at which the firmware starts a queue
    Threads,     \* the threads that transmit
    Worker,      \* the one of them that polls the device
    MaxFrames    \* bound: frames accepted in a behaviour

ASSUME SizeAssumption == Size \in {2, 4, 8, 16, 32, 64, 128, 256}
ASSUME StartAssumption == Start \in 0 .. Size - 1
ASSUME WorkerAssumption == Worker \in Threads /\ "free" \notin Threads
ASSUME FrameAssumption == MaxFrames \in Nat

VARIABLES
    lock,       \* the holder of tx_lock
    pc,         \* where each thread is in iwlm_trans_tx_frame
    idx,        \* the entry it fills
    write_ptr, read_ptr,
    ring,       \* the frame in each entry
    hw,         \* the device's read index
    bell,       \* the write index last told to the device
    answers,    \* TX responses on their way: the ssn each carries
    taken,      \* the frames tx_frame accepted, in order
    onair,      \* the frames the device transmitted, in order
    dropped     \* the frames the firmware dropped with their queue

txvars == <<lock, pc, idx>>
txqvars == <<txvars, write_ptr, read_ptr, ring, hw, bell, answers, taken, onair,
             dropped>>

Slots == 0 .. Size - 1
Free == "free"
NoFrame == 0

\* txq_alloc for the first connection.
TxqInit ==
    /\ lock = Free
    /\ pc = [t \in Threads |-> "idle"]
    /\ idx = [t \in Threads |-> 0]
    /\ write_ptr = Start /\ read_ptr = Start
    /\ ring = [i \in Slots |-> NoFrame]
    /\ hw = Start /\ bell = Start
    /\ answers = << >> /\ taken = << >> /\ onair = << >> /\ dropped = {}

(***************************************************************************)
(* iwlm_trans_tx_frame: lock, find room, fill the entry, move the write    *)
(* pointer and ring the doorbell, unlock.  The queue is in use and every   *)
(* caller's frame fits an entry (data.c:163, mlme.c:424), so its other two *)
(* early returns are never taken.                                          *)
(***************************************************************************)
\* tx_lock not taken.
LockNot(t) ==
    /\ pc[t] = "idle"
    /\ Len(taken) < MaxFrames
    /\ pc' = [pc EXCEPT ![t] = "room"]
    /\ UNCHANGED <<lock, idx, write_ptr, read_ptr, ring, hw, bell, answers, taken,
                   onair, dropped>>

Lock(t) ==
    /\ pc[t] = "idle"
    /\ lock = Free
    /\ Len(taken) < MaxFrames
    /\ lock' = t
    /\ pc' = [pc EXCEPT ![t] = "room"]
    /\ UNCHANGED <<idx, write_ptr, read_ptr, ring, hw, bell, answers, taken,
                   onair, dropped>>

Room == (read_ptr - write_ptr - 1) % Size

\* The lock kept on the way out.
RefuseHeld(t) ==
    /\ pc[t] = "room"
    /\ Room < 2
    /\ pc' = [pc EXCEPT ![t] = "idle"]
    /\ UNCHANGED <<lock, idx, write_ptr, read_ptr, ring, hw, bell, answers, taken,
                   onair, dropped>>

Refuse(t) ==
    /\ pc[t] = "room"
    /\ Room < 2
    /\ pc' = [pc EXCEPT ![t] = "unlock"]
    /\ UNCHANGED <<lock, idx, write_ptr, read_ptr, ring, hw, bell, answers, taken,
                   onair, dropped>>

\* No room asked for.
AcceptFull(t) ==
    /\ pc[t] = "room"
    /\ idx' = [idx EXCEPT ![t] = write_ptr]
    /\ pc' = [pc EXCEPT ![t] = "fill"]
    /\ UNCHANGED <<lock, write_ptr, read_ptr, ring, hw, bell, answers, taken,
                   onair, dropped>>

Accept(t) ==
    /\ pc[t] = "room"
    /\ Room >= 2
    /\ idx' = [idx EXCEPT ![t] = write_ptr]
    /\ pc' = [pc EXCEPT ![t] = "fill"]
    /\ UNCHANGED <<lock, write_ptr, read_ptr, ring, hw, bell, answers, taken,
                   onair, dropped>>

Fill(t) ==
    /\ pc[t] = "fill"
    /\ ring' = [ring EXCEPT ![idx[t]] = Len(taken) + 1]
    /\ taken' = Append(taken, Len(taken) + 1)
    /\ pc' = [pc EXCEPT ![t] = "post"]
    /\ UNCHANGED <<lock, idx, write_ptr, read_ptr, hw, bell, answers, onair,
                   dropped>>

Post(t) ==
    /\ pc[t] = "post"
    /\ write_ptr' = (write_ptr + 1) % Size
    /\ bell' = write_ptr'
    /\ pc' = [pc EXCEPT ![t] = "unlock"]
    /\ UNCHANGED <<lock, idx, read_ptr, ring, hw, answers, taken, onair,
                   dropped>>

Unlock(t) ==
    /\ pc[t] = "unlock"
    /\ lock' = Free
    /\ pc' = [pc EXCEPT ![t] = "idle"]
    /\ UNCHANGED <<idx, write_ptr, read_ptr, ring, hw, bell, answers, taken,
                   onair, dropped>>

(***************************************************************************)
(* The device transmits what lies between its read index and the last      *)
(* doorbell, and reports the index it has reached.                         *)
(***************************************************************************)
Transmit ==
    /\ hw # bell
    /\ onair' = Append(onair, ring[hw])
    /\ hw' = (hw + 1) % Size
    /\ answers' = Append(answers, hw')
    /\ UNCHANGED <<txvars, write_ptr, read_ptr, ring, bell, taken, dropped>>

(***************************************************************************)
(* iwlm_trans_tx_reclaim, in the worker, without tx_lock.                  *)
(***************************************************************************)
Reclaim ==
    /\ answers # << >>
    /\ pc[Worker] = "idle"
    /\ read_ptr' = Head(answers) % Size
    /\ answers' = Tail(answers)
    /\ UNCHANGED <<txvars, write_ptr, ring, hw, bell, taken, onair, dropped>>

\* The entries the device may still read.
Owned == {(hw + k) % Size : k \in 0 .. ((bell - hw) % Size) - 1}

(***************************************************************************)
(* txq_alloc for a new connection, in the worker, without tx_lock: the     *)
(* firmware drops the old queue with what is on it and answers with the    *)
(* new one's first entry, after the last TX response of the old queue on   *)
(* the receive ring.                                                       *)
(***************************************************************************)
TxqAlloc ==
    /\ pc[Worker] = "idle"
    /\ answers = << >>
    /\ write_ptr' = Start /\ read_ptr' = Start
    /\ hw' = Start /\ bell' = Start
    /\ dropped' = dropped \cup {ring[i] : i \in Owned}
    /\ UNCHANGED <<txvars, ring, answers, taken, onair>>

-----------------------------------------------------------------------------
(***************************************************************************)
(* The pointers stay on the ring, and tx_lock is held inside tx_frame.     *)
(***************************************************************************)
TxqTypeOK ==
    /\ lock \in Threads \cup {Free}
    /\ pc \in [Threads -> {"idle", "room", "fill", "post", "unlock"}]
    /\ idx \in [Threads -> Slots]
    /\ {write_ptr, read_ptr, hw, bell} \subseteq Slots
    /\ ring \in [Slots -> 0 .. MaxFrames]
    /\ answers \in Seq(Slots)
    /\ \A t \in Threads : pc[t] # "idle" => lock = t

\* No longer the device's: sent, or gone with its queue.
Settled(f) == f \in {NoFrame} \cup dropped \cup Range(onair)

(***************************************************************************)
(* tx_frame never fills an entry with a frame on it that the device has    *)
(* yet to transmit, although it reads read_ptr while the worker moves it   *)
(* and a full ring has the pointers of an empty one.                       *)
(***************************************************************************)
NoOverwrite == \A t \in Threads : pc[t] = "fill" => Settled(ring[idx[t]])

(***************************************************************************)
(* "The lock serializes the ring update": the device transmits the frames  *)
(* that tx_frame accepted, each once and in order, and passes over none    *)
(* but those that went with a dropped queue.                               *)
(***************************************************************************)
SentInOrder ==
    /\ \A i, j \in DOMAIN onair : i < j => onair[i] < onair[j]
    /\ onair # << >> => 1 .. onair[Len(onair)] \subseteq Range(onair) \cup dropped

(***************************************************************************)
(* A frame that tx_frame accepted is transmitted, unless its queue is      *)
(* dropped first.                                                          *)
(***************************************************************************)
EveryFrameSent ==
    \A k \in 1 .. MaxFrames : Len(taken) >= k ~> k \in Range(onair) \cup dropped
=============================================================================
