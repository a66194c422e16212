------------------------------ MODULE IwlData -------------------------------
(***************************************************************************)
(* The transmit path of the Intel WLAN driver, from netd's write to the    *)
(* data queue (x86/system/drivers/wlan: net_write of main.c, iwlm_data_tx  *)
(* of mvm/data.c, over the queue of IwlTxq).  The IPC thread looks at      *)
(* d->state, d->cur_ap and d->pairwise_key_set one after the other, with   *)
(* no lock, while the worker leaves one access point and joins another     *)
(* (mvm/mlme.c).                                                           *)
(***************************************************************************)
EXTENDS IwlTxq

CONSTANTS
    Ipc,        \* the thread that runs net_write
    Aps,        \* the access points in range
    Odd,        \* those of netd's frames that iwlm_data_tx refuses (too short,
                \* too long, or malformed in the batch)
    Batch,      \* the most frames in one write
    Overlap,    \* a net_write may outlast the worker's way to the next join
    MaxNet,     \* bound: frames netd has to send
    MaxMgmt,    \* bound: management and EAPOL frames the worker sends
    MaxJoins    \* bound: connections after the first

ASSUME ThreadsAssumption == Threads = {Ipc, Worker} /\ Ipc # Worker
ASSUME DataAssumption ==
    /\ Batch \in Nat \ {0} /\ {MaxNet, MaxMgmt, MaxJoins} \subseteq Nat
    /\ Odd \subseteq 1 .. MaxNet /\ Overlap \in BOOLEAN
    /\ MaxFrames = MaxNet + MaxMgmt

VARIABLES
    state,              \* d->state: CONNECTED, FW_LOADED, or on the way up
    cur_ap,             \* d->cur_ap.bssid
    pairwise_key_set,
    link,               \* where the worker is in leaving and joining
    session,            \* the access point whose station owns the queue
    joins,              \* the connections begun after the first
    net,                \* the IPC thread's net_write: where it is, the frames
                        \* taken from the batch, the batch, the header built
    next,               \* the frames netd was told are taken
    tags                \* of each accepted frame: its sender, netd's number
                        \* for it, its header, and the session it went into

mlme == <<state, cur_ap, pairwise_key_set, link, session, joins>>
vars == <<txqvars, mlme, net, next, tags>>

Tags == [by : Threads, n : 0 .. MaxNet, ap : Aps, enc : BOOLEAN,
         into : Aps]
Quiet == [pc |-> "idle", off |-> 0, size |-> 0, ap |-> cur_ap, enc |-> FALSE,
          ok |-> FALSE]

\* The first connection stands.
Init ==
    /\ TxqInit
    /\ state = "CONNECTED" /\ cur_ap \in Aps /\ pairwise_key_set = TRUE
    /\ link = "up" /\ session = cur_ap /\ joins = 0
    /\ net = Quiet /\ next = 0 /\ tags = << >>

(***************************************************************************)
(* net_write: a batch of frames, each handed to iwlm_data_tx until one is  *)
(* refused; netd is told how many were taken, and writes the rest again.   *)
(***************************************************************************)
NetWrite ==
    /\ net.pc = "idle"
    /\ state = "CONNECTED"
    /\ \E n \in 1 .. Batch :
          /\ next + n <= MaxNet
          /\ net' = [Quiet EXCEPT !.pc = "check", !.size = n]
    /\ UNCHANGED <<txqvars, mlme, next, tags>>

\* iwlm_data_tx as far as its early returns.
Check ==
    /\ net.pc = "check"
    /\ net' = [net EXCEPT !.pc =
          IF net.off < net.size /\ state = "CONNECTED"
                /\ next + net.off + 1 \notin Odd THEN "header" ELSE "return"]
    /\ UNCHANGED <<txqvars, mlme, next, tags>>

Header ==
    /\ net.pc = "header"
    /\ net' = [net EXCEPT !.pc = "flag", !.ap = cur_ap]
    /\ UNCHANGED <<txqvars, mlme, next, tags>>

Flag ==
    /\ net.pc = "flag"
    /\ net' = [net EXCEPT !.pc = "send", !.enc = pairwise_key_set, !.ok = FALSE]
    /\ UNCHANGED <<txqvars, mlme, next, tags>>

\* iwlm_trans_tx_frame: entering, finding room, moving the write pointer.
Send ==
    /\ net.pc = "send"
    /\ Lock(Ipc) \/ Refuse(Ipc) \/ Accept(Ipc) \/ Post(Ipc)
    /\ UNCHANGED <<mlme, net, next, tags>>

SendFill ==
    /\ Fill(Ipc)
    /\ net' = [net EXCEPT !.ok = TRUE]
    /\ tags' = Append(tags, [by |-> Ipc, n |-> next + net.off + 1, ap |-> net.ap,
                             enc |-> net.enc, into |-> session])
    /\ UNCHANGED <<mlme, next>>

SendDone ==
    /\ Unlock(Ipc)
    /\ net' = IF net.ok THEN [net EXCEPT !.pc = "check", !.off = @ + 1]
                        ELSE [net EXCEPT !.pc = "return"]
    /\ UNCHANGED <<mlme, next, tags>>

\* The whole batch reported, whatever was taken.
NetReturnAll ==
    /\ net.pc = "return"
    /\ next' = next + net.size
    /\ net' = Quiet
    /\ UNCHANGED <<txqvars, mlme, tags>>

NetReturn ==
    /\ net.pc = "return"
    /\ next' = next + net.off
    /\ net' = Quiet
    /\ UNCHANGED <<txqvars, mlme, tags>>

NetStep == Check \/ Header \/ Flag \/ Send \/ SendFill \/ SendDone \/ NetReturn

(***************************************************************************)
(* The worker: the frames it sends itself (tx_mgmt, eapol_tx) and its way  *)
(* from one access point to the next.  IwlSta has that way in full; here   *)
(* are the steps that touch what the IPC thread reads.                     *)
(***************************************************************************)
AtRest == pc[Worker] = "idle"

WorkerSend ==
    /\ \/ Lock(Worker) /\ link \in {"joining", "keyed", "up"}
            /\ Len(SelectSeq(tags, LAMBDA f : f.by = Worker)) < MaxMgmt
       \/ Refuse(Worker) \/ Accept(Worker) \/ Post(Worker) \/ Unlock(Worker)
    /\ UNCHANGED <<mlme, net, next, tags>>

WorkerFill ==
    /\ Fill(Worker)
    /\ tags' = Append(tags, [by |-> Worker, n |-> 0, ap |-> cur_ap,
                             enc |-> FALSE, into |-> session])
    /\ UNCHANGED <<mlme, net, next>>

\* A deauthentication, or the first line of iwlm_mvm_disconnect.
Leave ==
    /\ AtRest /\ link = "up"
    /\ state' = "FW_LOADED"
    /\ link' \in {"deauth", "remove"}
    /\ UNCHANGED <<cur_ap, pairwise_key_set, session, joins, txqvars, net, next,
                   tags>>

\* The worker's commands and scans take longer than a net_write under way.
Outlasted == Overlap \/ net.pc = "idle"

\* The last line of iwlm_mvm_disconnect.
Disconnected ==
    /\ AtRest /\ link = "remove"
    /\ Outlasted
    /\ pairwise_key_set' = FALSE
    /\ link' = "down"
    /\ UNCHANGED <<state, cur_ap, session, joins, txqvars, net, next, tags>>

\* iwlm_mvm_connect: the access point, then, with the PMK computed, the flags.
Pick ==
    /\ AtRest /\ link \in {"deauth", "down"}
    /\ Outlasted
    /\ joins < MaxJoins
    /\ cur_ap' \in Aps
    /\ joins' = joins + 1
    /\ link' = "picked"
    /\ UNCHANGED <<state, pairwise_key_set, session, txqvars, net, next, tags>>

Reset ==
    /\ AtRest /\ link = "picked"
    /\ pairwise_key_set' = FALSE
    /\ link' = "alloc"
    /\ UNCHANGED <<state, cur_ap, session, joins, txqvars, net, next, tags>>

Alloc ==
    /\ link = "alloc"
    /\ TxqAlloc
    /\ session' = cur_ap
    /\ state' = "AUTHENTICATING"
    /\ link' = "joining"
    /\ UNCHANGED <<cur_ap, pairwise_key_set, joins, net, next, tags>>

\* The last handshake message: the key, then CONNECTED.
KeySet ==
    /\ AtRest /\ link = "joining"
    /\ pairwise_key_set' = TRUE
    /\ link' = "keyed"
    /\ UNCHANGED <<state, cur_ap, session, joins, txqvars, net, next, tags>>

\* CONNECTED before the key is in.
UpEarly ==
    /\ AtRest /\ link \in {"joining", "keyed"}
    /\ state' = "CONNECTED"
    /\ link' = IF link = "keyed" THEN "up" ELSE link
    /\ UNCHANGED <<cur_ap, pairwise_key_set, session, joins, txqvars, net, next,
                   tags>>

Up ==
    /\ AtRest /\ link = "keyed"
    /\ state' = "CONNECTED"
    /\ link' = "up"
    /\ UNCHANGED <<cur_ap, pairwise_key_set, session, joins, txqvars, net, next,
                   tags>>

\* A wait of iwlm_mvm_connect runs out: the contexts are removed, the flags
\* stay.
Failed ==
    /\ AtRest /\ link \in {"joining", "keyed"}
    /\ state' = "FW_LOADED"
    /\ link' = "down"
    /\ UNCHANGED <<cur_ap, pairwise_key_set, session, joins, txqvars, net, next,
                   tags>>

OnAir == Transmit /\ UNCHANGED <<mlme, net, next, tags>>
Poll == Reclaim /\ UNCHANGED <<mlme, net, next, tags>>

Next ==
    \/ NetWrite \/ NetStep
    \/ WorkerSend \/ WorkerFill
    \/ Leave \/ Disconnected \/ Pick \/ Reset \/ Alloc \/ KeySet \/ Up \/ Failed
    \/ OnAir \/ Poll

\* The device transmits; the worker polls again and again, between the frames
\* it sends itself; a thread in tx_frame leaves it; netd writes again what was
\* not taken.
Fairness ==
    /\ WF_vars(OnAir) /\ SF_vars(Poll)
    /\ WF_vars(WorkerFill) /\ WF_vars(WorkerSend /\ ~AtRest)
    /\ WF_vars(NetStep) /\ WF_vars(NetWrite)

Spec == Init /\ [][Next]_vars /\ Fairness

-----------------------------------------------------------------------------
(***************************************************************************)
(* The pointers stay on the ring, tx_lock is held inside tx_frame, and the *)
(* IPC thread is there only on behalf of net_write.                        *)
(***************************************************************************)
TypeOK ==
    /\ TxqTypeOK
    /\ state \in {"CONNECTED", "FW_LOADED", "AUTHENTICATING"}
    /\ {cur_ap, session} \subseteq Aps
    /\ net.off \in 0 .. net.size /\ next + net.size <= MaxNet
    /\ tags \in Seq(Tags) /\ Len(tags) = Len(taken)
    /\ pc[Ipc] # "idle" => net.pc = "send"

(***************************************************************************)
(* What net_write reports is what it queued: however often the ring fills  *)
(* or the station leaves in the middle of a batch, and netd writes the     *)
(* rest again, each of netd's frames enters the queue once, in netd's      *)
(* order, and none that was reported is missing.                           *)
(***************************************************************************)
NetdInOrder ==
    LET mine == {i \in DOMAIN tags : tags[i].by = Ipc}
    IN  /\ \A i, j \in mine : i < j => tags[i].n < tags[j].n
        /\ \E k \in next .. MaxNet : {tags[i].n : i \in mine} = 1 .. k

(***************************************************************************)
(* A frame of netd's goes into the session whose access point its header   *)
(* names, and is marked for encryption, although iwlm_data_tx tests        *)
(* CONNECTED before it reads the address and the flag, and a               *)
(* deauthentication may come between.                                      *)
(***************************************************************************)
SessionFrames ==
    \A i \in DOMAIN tags :
        tags[i].by = Ipc => tags[i].enc /\ tags[i].ap = tags[i].into

(***************************************************************************)
(* A station that stays connected takes all of netd's frames, up to the    *)
(* first one that iwlm_data_tx refuses.                                    *)
(***************************************************************************)
Sendable == {n \in 0 .. MaxNet : \A k \in 1 .. n : k \notin Odd}

NetdServed ==
    <>[](state = "CONNECTED") => <>(\A n \in Sendable : next >= n)
=============================================================================
