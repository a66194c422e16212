---------------------------- MODULE BlockDevice ----------------------------
(***************************************************************************)
(* What a block driver promises its caller: one transfer at a time, which  *)
(* takes effect at one moment between its call and its return.  A transfer *)
(* that fails may have taken effect by then or not, and takes none later.  *)
(***************************************************************************)
EXTENDS Naturals

CONSTANTS
    Capacity,   \* number of blocks
    MaxChunk,   \* blocks a transfer carries at most
    Values      \* contents of a block

VARIABLES
    store,      \* the contents of the device
    busy,       \* whether a transfer is under way
    call,       \* the transfer: direction, place, length, data to write
    taken,      \* whether it has taken effect
    last        \* the result of the last transfer, with the blocks it moved

vars == <<store, busy, call, taken, last>>

Blocks == 0 .. Capacity - 1
Offsets(n) == 0 .. n - 1

\* The contents s with n blocks of data written at lba; the n blocks at lba.
Written(s, lba, n, data) ==
    [b \in Blocks |-> IF b \in lba .. lba + n - 1 THEN data[b - lba] ELSE s[b]]
Slice(s, lba, n) == [i \in Offsets(n) |-> s[lba + i]]

Init ==
    /\ store \in [Blocks -> Values]
    /\ ~busy
    /\ ~taken

Begin ==
    /\ ~busy
    /\ busy'
    /\ call'.lba \in Nat
    /\ call'.n \in 1 .. MaxChunk
    /\ call'.write => call'.data \in [Offsets(call'.n) -> Values]
    /\ UNCHANGED <<store, taken, last>>

Effect ==
    /\ busy
    /\ ~taken
    /\ taken'
    /\ call.lba + call.n <= Capacity
    /\ store' = IF call.write THEN Written(store, call.lba, call.n, call.data)
                              ELSE store
    /\ UNCHANGED <<busy, call, last>>

Succeed ==
    /\ busy
    /\ taken
    /\ last' = [ok |-> TRUE, data |-> Slice(store, call.lba, call.n)]
    /\ ~busy'
    /\ ~taken'
    /\ UNCHANGED store

Fail ==
    /\ busy
    /\ last' = [ok |-> FALSE, data |-> <<>>]
    /\ ~busy'
    /\ ~taken'
    /\ UNCHANGED store

Next == Begin \/ Effect \/ Succeed \/ Fail

Spec == Init /\ [][Next]_vars
=============================================================================
