---------------------------- MODULE BoundedFifo ----------------------------
(***************************************************************************)
(* What a packet queue of the WLAN drivers promises its two ends: a FIFO   *)
(* of at most Capacity frames.  A push is accepted or refused as a whole,  *)
(* a pop takes the oldest frame, a reset drops everything queued.          *)
(***************************************************************************)
EXTENDS Naturals, Sequences

CONSTANTS
    Threads,    \* the threads that use the queue
    Frames,     \* every frame a caller may offer
    Room,       \* the sizes of the buffers a caller may pop into
    Capacity,   \* the most frames the queue holds
    Fits(_),    \* the frames the queue is willing to take
    Clip(_, _)  \* a frame as delivered into a buffer of a given size

VARIABLES
    fifo,       \* the frames queued, oldest first
    got         \* got[t]: what the last completed call returned to t

vars == <<fifo, got>>

Refused == <<"none">>
Accepted(f) == <<"pushed", f>>
Delivered(f) == <<"popped", f>>
Counted(n) == <<"depth", n>>

Init ==
    /\ fifo = << >>
    /\ got = [t \in Threads |-> Refused]

Push(t, f) ==
    /\ Fits(f)
    /\ Len(fifo) < Capacity
    /\ fifo' = Append(fifo, f)
    /\ got' = [got EXCEPT ![t] = Accepted(f)]

Pop(t, size) ==
    /\ fifo # << >>
    /\ fifo' = Tail(fifo)
    /\ got' = [got EXCEPT ![t] = Delivered(Clip(Head(fifo), size))]

Depth(t) ==
    /\ got' = [got EXCEPT ![t] = Counted(Len(fifo))]
    /\ UNCHANGED fifo

Full(t) ==
    /\ Len(fifo) = Capacity
    /\ got' = [got EXCEPT ![t] = Refused]
    /\ UNCHANGED fifo

Empty(t) ==
    /\ fifo = << >>
    /\ got' = [got EXCEPT ![t] = Refused]
    /\ UNCHANGED fifo

Misfit(t, f) ==
    /\ ~Fits(f)
    /\ got' = [got EXCEPT ![t] = Refused]
    /\ UNCHANGED fifo

Reset ==
    /\ fifo' = << >>
    /\ UNCHANGED got

Next ==
    \/ \E t \in Threads :
        \/ \E f \in Frames : Push(t, f) \/ Misfit(t, f)
        \/ \E size \in Room : Pop(t, size)
        \/ Depth(t)
        \/ Full(t)
        \/ Empty(t)
    \/ Reset

Spec == Init /\ [][Next]_vars
=============================================================================
