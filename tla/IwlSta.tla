------------------------------- MODULE IwlSta -------------------------------
(***************************************************************************)
(* The station of the Intel WLAN driver (x86/system/drivers/wlan): the     *)
(* worker thread of main.c, which scans, connects and reconnects, the      *)
(* MLME of mvm/mlme.c and mvm/scan.c that it drives, the one-slot mailbox  *)
(* through which the IPC thread asks for a scan or a connection, and the   *)
(* contexts and keys the firmware holds as a result.                       *)
(*                                                                         *)
(* A host command is one step here: IwlRx models what happens inside it.   *)
(* While the worker waits in one it polls the receive ring, so packets are *)
(* handled between any two of its steps.                                   *)
(***************************************************************************)
EXTENDS Naturals, Sequences

CONSTANTS
    Nets,       \* the networks in range; an SSID stands for its one AP
    Wpa2,       \* those of Nets that use WPA2-PSK with CCMP
    Config,     \* the SSIDs of network.json, in order
    FwFails,    \* commands may be lost, refused or answered too late
    ScanLate,   \* a scan may outlast SCAN_TIMEOUT_MS
    ApLeaves,   \* an AP may deauthenticate a station it has associated
    MaxCmds,    \* bound: dev.cmd requests in a behaviour
    MaxScans,   \* bound: scans the firmware has under way
    MaxInstall  \* bound: key handlers nested in one another's commands

ASSUME NetAssumption == Wpa2 \subseteq Nets /\ Config \in Seq(Nets)
ASSUME FlagAssumption == {FwFails, ScanLate, ApLeaves} \subseteq BOOLEAN
ASSUME BoundAssumption ==
    MaxCmds \in Nat /\ MaxScans \in Nat \ {0} /\ MaxInstall \in Nat \ {0}

VARIABLES
    pc,         \* where the worker is
    job,        \* what it is doing: for whom, what, which SSID
    left,       \* the contexts still to be added or removed
    auto,       \* the next entry of Config that auto_connect_step tries
    state,      \* d->state
    cur_ap,     \* d->cur_ap
    cur_ssid,   \* main.c's cur_ssid
    aps,        \* d->aps
    scan_done, scan_ready,
    eapol_msg, have_ptk, pairwise_key_set,
    install,    \* the calls of iwlm_mlme_rx_eapol that are installing a key,
                \* each from inside a command of the one before, and which key
    fresh,      \* history: what the present attempt to connect has brought, of
                \* the nonce, with the d->ptk derived from it, and the two keys
    contexts,   \* the contexts the firmware holds, with the AP they are for
    keys,       \* the keys the firmware holds
    scans,      \* scans the firmware has started and not completed
    pending,    \* pending_cmd, cmd_ssid
    accepted,   \* the requests the mailbox took
    executed    \* the requests the worker took out

flags == <<eapol_msg, have_ptk, pairwise_key_set>>
mlme == <<state, cur_ap, flags, fresh>>
scan == <<aps, scan_done, scan_ready>>
fw == <<contexts, keys, scans>>
mailbox == <<pending, accepted, executed>>
work == <<pc, job, left, auto, cur_ssid, install>>
vars == <<mlme, scan, fw, mailbox, work>>

None == "none"
NoJob == [by |-> None, what |-> None, ssid |-> None]
States == {"FW_LOADED", "SCANNING", "AUTHENTICATING", "ASSOCIATING", "EAPOL",
           "CONNECTED"}
Connecting == {"AUTHENTICATING", "ASSOCIATING", "EAPOL", "CONNECTED"}
CtxNames == {"phy", "mac", "binding", "sta"}
Contexts == CtxNames \X Nets

(***************************************************************************)
(* net_mounted has run: the firmware is up and the worker starts.          *)
(***************************************************************************)
Init ==
    /\ pc = "loop" /\ job = NoJob /\ left = << >> /\ auto = 0
    /\ state = "FW_LOADED" /\ cur_ap = None /\ cur_ssid = None
    /\ aps = {} /\ scan_done = FALSE /\ scan_ready = FALSE
    /\ eapol_msg = 0 /\ have_ptk = FALSE /\ pairwise_key_set = FALSE
    /\ install = << >> /\ fresh = {}
    /\ contexts = {} /\ keys = {} /\ scans = 0
    /\ pending = NoJob /\ accepted = << >> /\ executed = << >>

(***************************************************************************)
(* The IPC thread: enqueue_cmd.  A request is refused while one waits.     *)
(***************************************************************************)
Requests == [by : {"cmd"}, what : {"scan"}, ssid : {None}]
                \cup [by : {"cmd"}, what : {"connect"}, ssid : Nets]

\* The mailbox overwritten by a second request.
EnqueueOver(r) ==
    /\ Len(accepted) < MaxCmds
    /\ pending' = r
    /\ accepted' = Append(accepted, r)
    /\ UNCHANGED <<mlme, scan, fw, work, executed>>

Enqueue(r) ==
    /\ Len(accepted) < MaxCmds
    /\ pending = NoJob
    /\ pending' = r
    /\ accepted' = Append(accepted, r)
    /\ UNCHANGED <<mlme, scan, fw, work, executed>>

(***************************************************************************)
(* A host command: whether the firmware carries it out, and whether the    *)
(* driver is told so before its timeout.                                   *)
(***************************************************************************)
Outcomes == [done : {TRUE}, ok : {TRUE}]
                \cup IF FwFails THEN [done : BOOLEAN, ok : {FALSE}] ELSE {}

At(l) == pc = l /\ install = << >>

(***************************************************************************)
(* run_pending_cmd: the mailbox is emptied, then the request carried out.  *)
(***************************************************************************)
Goto(l, j) == pc' = l /\ job' = j

TakeCmd ==
    /\ At("loop")
    /\ pending # NoJob
    /\ pending' = NoJob
    /\ executed' = Append(executed, pending)
    /\ \/ /\ pending.what = "scan"
          /\ IF state = "FW_LOADED" THEN Goto("scan", pending)
                                    ELSE Goto("auto", NoJob)
       \/ /\ pending.what = "connect"
          /\ Goto("connect", pending)
    /\ UNCHANGED <<mlme, scan, fw, accepted, left, auto, cur_ssid, install>>

NoCmd ==
    /\ At("loop")
    /\ pending = NoJob
    /\ Goto("auto", NoJob)
    /\ UNCHANGED <<mlme, scan, fw, mailbox, left, auto, cur_ssid, install>>

(***************************************************************************)
(* auto_connect_step: when idle and the retry time has come, scan, then    *)
(* try the configured networks that were seen.                             *)
(***************************************************************************)
AutoStart ==
    /\ At("auto")
    /\ \/ /\ state = "FW_LOADED"
          /\ Goto("scan", [by |-> "auto", what |-> "scan", ssid |-> None])
       \/ Goto("loop", NoJob)
    /\ auto' = 0
    /\ UNCHANGED <<mlme, scan, fw, mailbox, left, cur_ssid, install>>

AutoNext ==
    /\ At("auto_next")
    /\ \/ /\ auto < Len(Config)
          /\ auto' = auto + 1
          /\ IF Config[auto + 1] \in aps
               THEN Goto("connect", [by |-> "auto", what |-> "connect",
                                     ssid |-> Config[auto + 1]])
               ELSE Goto("auto_next", NoJob)
       \/ /\ auto = Len(Config)
          /\ auto' = 0
          /\ Goto("loop", NoJob)
    /\ UNCHANGED <<mlme, scan, fw, mailbox, left, cur_ssid, install>>

\* Where do_connect and do_scan return to.
Return(ok) ==
    \/ /\ job.by = "cmd"
       /\ Goto("auto", NoJob)
    \/ /\ job.by = "auto" /\ job.what = "scan"
       /\ IF ok THEN Goto("auto_next", NoJob) ELSE Goto("loop", NoJob)
    \/ /\ job.by = "auto" /\ job.what = "connect"
       /\ IF ok THEN Goto("loop", NoJob) ELSE Goto("auto_next", NoJob)

(***************************************************************************)
(* do_scan.  Its early return for a station that is not idle is never      *)
(* taken (the last conjunct of TypeOK).                                    *)
(***************************************************************************)
\* scan_done left over from the previous scan.
ScanStartStale ==
    /\ At("scan")
    /\ state = "FW_LOADED"
    /\ scans < MaxScans
    /\ scan_ready' = FALSE
    /\ aps' = {}
    /\ \E o \in Outcomes :
          /\ scans' = IF o.done THEN scans + 1 ELSE scans
          /\ IF o.ok THEN state' = "SCANNING" /\ Goto("scan_wait", job)
                     ELSE Return(FALSE) /\ UNCHANGED state
    /\ UNCHANGED <<cur_ap, flags, fresh, contexts, keys, scan_done, mailbox,
                   left, auto, cur_ssid, install>>

ScanStart ==
    /\ At("scan")
    /\ state = "FW_LOADED"
    /\ scans < MaxScans
    /\ scan_ready' = FALSE
    /\ aps' = {}
    /\ scan_done' = FALSE
    /\ \E o \in Outcomes :
          /\ scans' = IF o.done THEN scans + 1 ELSE scans
          /\ IF o.ok THEN state' = "SCANNING" /\ Goto("scan_wait", job)
                     ELSE Return(FALSE) /\ UNCHANGED state
    /\ UNCHANGED <<cur_ap, flags, fresh, contexts, keys, mailbox, left, auto,
                   cur_ssid, install>>

ScanEnd ==
    /\ At("scan_wait")
    /\ scan_done
    /\ state' = "FW_LOADED"
    /\ scan_ready' = TRUE
    /\ IF job.what = "connect" THEN Goto("begin", job) ELSE Return(TRUE)
    /\ UNCHANGED <<cur_ap, flags, fresh, aps, scan_done, fw, mailbox, left,
                   auto, cur_ssid, install>>

ScanTimeout ==
    /\ At("scan_wait")
    /\ ScanLate
    /\ ~scan_done
    /\ state' = "FW_LOADED"
    /\ Return(FALSE)
    /\ UNCHANGED <<cur_ap, flags, fresh, scan, fw, mailbox, left, auto,
                   cur_ssid, install>>

(***************************************************************************)
(* do_connect up to iwlm_mvm_connect.                                      *)
(***************************************************************************)
AddOrder == <<"phy", "mac", "binding", "sta">>
\* The PHY context forgotten.
RemoveMost == <<"sta", "binding", "mac">>
RemoveOrder == <<"sta", "binding", "mac", "phy">>

ConnectSame ==
    /\ At("connect")
    /\ state = "CONNECTED"
    /\ cur_ssid = job.ssid
    /\ Return(TRUE)
    /\ UNCHANGED <<mlme, scan, fw, mailbox, left, auto, cur_ssid, install>>

ConnectOther ==
    /\ At("connect")
    /\ state = "CONNECTED"
    /\ cur_ssid # job.ssid
    /\ state' = "FW_LOADED"
    /\ left' = RemoveOrder
    /\ Goto("disconnect", job)
    /\ fresh' = {}
    /\ UNCHANGED <<cur_ap, flags, scan, fw, mailbox, auto, cur_ssid, install>>

SeekAp == IF job.ssid \in aps THEN Goto("begin", job) ELSE Goto("scan", job)

ConnectIdle ==
    /\ At("connect")
    /\ state # "CONNECTED"
    /\ SeekAp
    /\ UNCHANGED <<mlme, scan, fw, mailbox, left, auto, cur_ssid, install>>

(***************************************************************************)
(* iwlm_mvm_connect: find_ap, the contexts in order, the data queue.  A    *)
(* failure up to there returns at once.                                    *)
(***************************************************************************)
NoSuchAp ==
    /\ At("begin")
    /\ job.ssid \notin aps \cap Wpa2
    /\ cur_ssid' = None
    /\ Return(FALSE)
    /\ UNCHANGED <<mlme, scan, fw, mailbox, left, auto, install>>

\* The handshake of an attempt that failed left as it was.
BeginMidway ==
    /\ At("begin")
    /\ job.ssid \in aps \cap Wpa2
    /\ cur_ssid' = job.ssid
    /\ cur_ap' = job.ssid
    /\ pairwise_key_set' = FALSE
    /\ fresh' = {}
    /\ left' = AddOrder
    /\ Goto("add", job)
    /\ UNCHANGED <<state, eapol_msg, have_ptk, scan, fw, mailbox, auto,
                   install>>

Begin ==
    /\ At("begin")
    /\ job.ssid \in aps \cap Wpa2
    /\ cur_ssid' = job.ssid
    /\ cur_ap' = job.ssid
    /\ have_ptk' = FALSE /\ pairwise_key_set' = FALSE /\ eapol_msg' = 0
    /\ fresh' = {}
    /\ left' = AddOrder
    /\ Goto("add", job)
    /\ UNCHANGED <<state, scan, fw, mailbox, auto, install>>

Without(c) == {x \in contexts : x[1] # c}

GiveUp == cur_ssid' = None /\ Return(FALSE)

AddContext ==
    /\ At("add")
    /\ left # << >>
    /\ \E o \in Outcomes :
          /\ contexts' = IF o.done THEN Without(Head(left))
                                            \cup {<<Head(left), cur_ap>>}
                                   ELSE contexts
          /\ \/ /\ o.ok
                /\ left' = Tail(left)
                /\ UNCHANGED <<pc, job, cur_ssid>>
             \/ /\ ~o.ok
                /\ left' = << >>
                /\ GiveUp
    /\ UNCHANGED <<mlme, scan, keys, scans, mailbox, auto, install>>

\* iwlm_trans_txq_alloc, then the authentication request.
AllocQueue ==
    /\ At("add")
    /\ left = << >>
    /\ \E o \in Outcomes :
          IF o.ok THEN /\ state' = "AUTHENTICATING"
                       /\ Goto("auth_wait", job)
                       /\ UNCHANGED cur_ssid
                  ELSE GiveUp /\ UNCHANGED state
    /\ UNCHANGED <<cur_ap, flags, fresh, scan, fw, mailbox, left, auto,
                   install>>

(***************************************************************************)
(* The waits of iwlm_mvm_connect: each looks for its state, for CONNECTED, *)
(* and for FW_LOADED, which a deauthentication leaves.                     *)
(***************************************************************************)
Reached(l, want, next) ==
    /\ At(l)
    /\ state \in {want, "CONNECTED"}
    /\ IF next = "done" THEN Return(TRUE) ELSE Goto(next, job)
    /\ UNCHANGED <<mlme, scan, fw, mailbox, left, auto, cur_ssid, install>>

Authenticated == Reached("auth_wait", "ASSOCIATING", "assoc_wait")
Associated == Reached("assoc_wait", "EAPOL", "modify")
Connected == Reached("key_wait", "CONNECTED", "done")

Fail ==
    /\ state' = "FW_LOADED"
    /\ left' = RemoveOrder
    /\ Goto("undo", job)
    /\ fresh' = {}
    /\ UNCHANGED <<cur_ap, flags, scan, fw, mailbox, auto, cur_ssid, install>>

\* Waiting for ever for a silent AP.
WaitFailedKicked ==
    /\ At("auth_wait") \/ At("assoc_wait") \/ At("key_wait")
    /\ state = "FW_LOADED"
    /\ Fail

\* Kicked out, no answer in time, or the request could not be queued.
WaitFailed ==
    /\ At("auth_wait") \/ At("assoc_wait") \/ At("key_wait")
    /\ state # "CONNECTED"
    /\ At("assoc_wait") => state # "EAPOL"
    /\ Fail

ModifyMac ==
    /\ At("modify")
    /\ \E o \in Outcomes :
          IF o.ok THEN /\ Goto("key_wait", job)
                       /\ UNCHANGED <<mlme, scan, fw, mailbox, left, auto,
                                      cur_ssid, install>>
                  ELSE Fail

(***************************************************************************)
(* The removals of iwlm_mvm_disconnect and of a failed connect; their      *)
(* results are not looked at.                                              *)
(***************************************************************************)
RemoveContext ==
    /\ At("disconnect") \/ At("undo")
    /\ left # << >>
    /\ \E o \in Outcomes :
          /\ contexts' = IF o.done THEN Without(Head(left)) ELSE contexts
          /\ keys' = IF o.done /\ Head(left) = "sta" THEN {} ELSE keys
    /\ left' = Tail(left)
    /\ UNCHANGED <<mlme, scan, scans, mailbox, pc, job, auto, cur_ssid,
                   install>>

Disconnected ==
    /\ At("disconnect")
    /\ left = << >>
    /\ have_ptk' = FALSE /\ pairwise_key_set' = FALSE
    /\ SeekAp
    /\ UNCHANGED <<state, cur_ap, eapol_msg, fresh, scan, fw, mailbox, left,
                   auto, cur_ssid, install>>

Undone ==
    /\ At("undo")
    /\ left = << >>
    /\ GiveUp
    /\ UNCHANGED <<mlme, scan, fw, mailbox, left, auto, install>>

(***************************************************************************)
(* iwlm_mlme_rx_eapol on a third message: the two keys, then CONNECTED; on *)
(* a group message: the group key.  The innermost call goes on.            *)
(***************************************************************************)
Innermost == install[Len(install)]
Deeper(k) == install' = Append(install, k)
Returned == install' = SubSeq(install, 1, Len(install) - 1)

\* sec_key_add.
SecKeyAdd(k, o) ==
    /\ keys' = IF o.done THEN keys \cup {k} ELSE keys
    /\ fresh' = IF o.done /\ "nonce" \in fresh THEN fresh \cup {k} ELSE fresh

InstallPtk ==
    /\ install # << >> /\ Innermost = "ptk"
    /\ \E o \in Outcomes :
          /\ SecKeyAdd("ptk", o)
          /\ pairwise_key_set' = (o.ok \/ pairwise_key_set)
          /\ IF o.ok THEN install' = [install EXCEPT ![Len(install)] = "gtk"]
                     ELSE Returned
    /\ UNCHANGED <<state, cur_ap, eapol_msg, have_ptk, scan, contexts, scans,
                   mailbox, pc, job, left, auto, cur_ssid>>

\* CONNECTED whatever the firmware said of the group key.
InstallGtkUnchecked ==
    /\ install # << >> /\ Innermost = "gtk"
    /\ \E o \in Outcomes : SecKeyAdd("gtk", o)
    /\ eapol_msg' = 0 /\ state' = "CONNECTED"
    /\ Returned
    /\ UNCHANGED <<cur_ap, have_ptk, pairwise_key_set, scan, contexts, scans,
                   mailbox, pc, job, left, auto, cur_ssid>>

InstallGtk ==
    /\ install # << >> /\ Innermost = "gtk"
    /\ \E o \in Outcomes :
          /\ SecKeyAdd("gtk", o)
          /\ IF o.ok THEN eapol_msg' = 0 /\ state' = "CONNECTED"
                     ELSE UNCHANGED <<eapol_msg, state>>
    /\ Returned
    /\ UNCHANGED <<cur_ap, have_ptk, pairwise_key_set, scan, contexts, scans,
                   mailbox, pc, job, left, auto, cur_ssid>>

InstallGroup ==
    /\ install # << >> /\ Innermost = "group"
    /\ \E o \in Outcomes : SecKeyAdd("gtk", o)
    /\ Returned
    /\ UNCHANGED <<state, cur_ap, eapol_msg, have_ptk, pairwise_key_set, scan,
                   contexts, scans, mailbox, pc, job, left, auto, cur_ssid>>

(***************************************************************************)
(* Packets, handled wherever the worker polls: in its loop, in a wait, in  *)
(* a host command, and in a host command of the key installation.          *)
(***************************************************************************)
Polling == pc \in {"loop", "scan", "scan_wait", "add", "auth_wait",
                   "assoc_wait", "modify", "key_wait", "disconnect", "undo"}

SetState(s) ==
    /\ state' = s
    /\ UNCHANGED <<cur_ap, flags, fresh, scan, fw, mailbox, work>>

RxAuth(n) ==
    /\ Polling /\ n = cur_ap
    /\ state = "AUTHENTICATING"
    /\ SetState("ASSOCIATING")

RxAssoc(n) ==
    /\ Polling /\ n = cur_ap
    /\ state = "ASSOCIATING"
    /\ SetState("EAPOL")

RxDeauth(n) ==
    /\ Polling /\ n = cur_ap
    /\ state \in Connecting
    /\ state \in {"EAPOL", "CONNECTED"} => ApLeaves
    /\ SetState("FW_LOADED")

\* data.c hands the frame to iwlm_mlme_rx_eapol.
RxEapol == Polling /\ state \in {"EAPOL", "CONNECTED"}

RxMsg1 ==
    /\ RxEapol
    /\ eapol_msg' = 3
    /\ have_ptk' = TRUE
    /\ fresh' = fresh \cup {"nonce"}
    /\ UNCHANGED <<state, cur_ap, pairwise_key_set, scan, fw, mailbox, work>>

\* A third message whose MIC, made with d->ptk, and group key are right.
RxMsg3 ==
    /\ RxEapol
    /\ eapol_msg = 3 /\ have_ptk
    /\ Len(install) < MaxInstall
    /\ Deeper("ptk")
    /\ UNCHANGED <<mlme, scan, fw, mailbox, pc, job, left, auto, cur_ssid>>

\* A first message of the group handshake, likewise.
RxGroup ==
    /\ RxEapol
    /\ have_ptk
    /\ Len(install) < MaxInstall
    /\ Deeper("group")
    /\ UNCHANGED <<mlme, scan, fw, mailbox, pc, job, left, auto, cur_ssid>>

RxBeacon(n) ==
    /\ Polling /\ scans > 0
    /\ state = "SCANNING"
    /\ aps' = aps \cup {n}
    /\ UNCHANGED <<mlme, scan_done, scan_ready, fw, mailbox, work>>

RxScanComplete ==
    /\ Polling /\ scans > 0
    /\ scans' = scans - 1
    /\ scan_done' = TRUE
    /\ UNCHANGED <<mlme, aps, scan_ready, contexts, keys, mailbox, work>>

Rx ==
    \/ \E n \in Nets : RxAuth(n) \/ RxAssoc(n) \/ RxDeauth(n) \/ RxBeacon(n)
    \/ RxMsg1 \/ RxMsg3 \/ RxGroup \/ RxScanComplete

Worker ==
    \/ TakeCmd \/ NoCmd \/ AutoStart \/ AutoNext
    \/ ScanStart \/ ScanEnd \/ ScanTimeout
    \/ ConnectSame \/ ConnectOther \/ ConnectIdle \/ NoSuchAp \/ Begin
    \/ AddContext \/ AllocQueue
    \/ Authenticated \/ Associated \/ ModifyMac \/ Connected \/ WaitFailed
    \/ RemoveContext \/ Disconnected \/ Undone

Install == InstallPtk \/ InstallGtk \/ InstallGroup

Next ==
    \/ Worker
    \/ Install
    \/ Rx
    \/ \E r \in Requests : Enqueue(r)

\* The worker thread runs.  A poll reads the device's index once and a command
\* polls a bounded number of times, so packets interrupt the worker's own steps
\* and those of each call of the key handler, but never for good: strong
\* fairness for each.  The firmware completes the scans it starts.
Spec ==
    /\ Init /\ [][Next]_vars
    /\ SF_vars(Worker) /\ WF_vars(RxScanComplete)
    /\ \A k \in 1 .. MaxInstall : SF_vars(Len(install) = k /\ Install)

-----------------------------------------------------------------------------
(***************************************************************************)
(* The variables keep their types; SCANNING is the state of the wait for   *)
(* a scan and of nothing else, and a scan starts from an idle station.     *)
(***************************************************************************)
TypeOK ==
    /\ state \in States
    /\ job \in Requests \cup [by : {"auto"}, what : {"scan", "connect"},
                              ssid : Nets \cup {None}] \cup {NoJob}
    /\ left \in Seq(CtxNames) /\ auto \in 0 .. Len(Config)
    /\ cur_ap \in Nets \cup {None} /\ cur_ssid \in Nets \cup {None}
    /\ aps \subseteq Nets /\ {scan_done, scan_ready} \subseteq BOOLEAN
    /\ eapol_msg \in {0, 3} /\ {have_ptk, pairwise_key_set} \subseteq BOOLEAN
    /\ install \in Seq({"ptk", "gtk", "group"}) /\ Len(install) <= MaxInstall
    /\ fresh \subseteq {"nonce", "ptk", "gtk"}
    /\ contexts \subseteq Contexts /\ keys \subseteq {"ptk", "gtk"}
    /\ scans \in Nat
    /\ pending \in Requests \cup {NoJob}
    /\ (state = "SCANNING") <=> (pc = "scan_wait")
    /\ pc = "scan" => state = "FW_LOADED"

(***************************************************************************)
(* CONNECTED is real: the firmware holds all contexts of the current AP    *)
(* and both keys, frames are sent encrypted, and the SSID reported by the  *)
(* "state" command is the AP's.                                            *)
(***************************************************************************)
ConnectedIsReal ==
    state = "CONNECTED" =>
        /\ contexts = CtxNames \X {cur_ap}
        /\ keys = {"ptk", "gtk"}
        /\ pairwise_key_set
        /\ cur_ssid = cur_ap

(***************************************************************************)
(* A station that is CONNECTED uses the keys of this very attempt: both    *)
(* were installed since iwlm_mvm_connect began, from a nonce the AP has    *)
(* sent since.  A third or group message that comes late, for an attempt   *)
(* given up before or from inside the installation of its own keys, brings *)
(* none of the older ones back.                                            *)
(***************************************************************************)
KeysOfThisAttempt ==
    state = "CONNECTED" => {"nonce", "ptk", "gtk"} \subseteq fresh

(***************************************************************************)
(* Requests are carried out once each, in the order they were accepted,    *)
(* with the SSID they were made for.                                       *)
(***************************************************************************)
CmdsInOrder ==
    accepted = IF pending = NoJob THEN executed ELSE Append(executed, pending)

(***************************************************************************)
(* "A retry starts from a clean slate": when iwlm_mvm_connect adds its     *)
(* first context, the firmware holds none.                                 *)
(***************************************************************************)
CleanSlate == pc = "begin" => contexts = {}

(***************************************************************************)
(* scan_ready: "d->aps holds a finished scan".                             *)
(***************************************************************************)
ScanReadyFinished == scan_ready => scans = 0

(***************************************************************************)
(* The station becomes CONNECTED only out of the handshake: an AP that has *)
(* deauthenticated it is not connected to without associating again.       *)
(***************************************************************************)
ConnectedFromEapol ==
    [][state' = "CONNECTED" => state \in {"EAPOL", "CONNECTED"}]_vars

(***************************************************************************)
(* A request that was accepted is carried out, whatever the AP does: every *)
(* wait of the worker ends.                                                *)
(***************************************************************************)
CmdCarriedOut == \A k \in 1 .. MaxCmds : Len(accepted) >= k ~> Len(executed) >= k
=============================================================================
