------------------------------- MODULE IwlRx -------------------------------
(***************************************************************************)
(* The receive ring and the synchronous host commands of the Intel WLAN    *)
(* driver (x86/system/drivers/wlan: iwl/trans.c, the dispatcher of         *)
(* mvm/mvm.c and the EAPOL handler of mvm/mlme.c).                         *)
(*                                                                         *)
(* One thread, the worker, runs all of this.  A host command is sent and   *)
(* its answer is waited for by polling the receive ring; the poll hands    *)
(* every packet to its handler; and the handler of the third message of    *)
(* the WPA2 handshake sends host commands itself, from inside the poll.    *)
(* The worker's call stack is therefore part of the state.                 *)
(***************************************************************************)
EXTENDS Integers, Sequences, Functions, FiniteSets

CONSTANTS
    N,           \* IWLM_NUM_RBDS: entries of the free and the used ring
    Pool,        \* IWLM_RX_POOL: receive buffers
    Batch,       \* restocks per write of the free ring's doorbell
    CmdqSize,    \* IWLM_CMDQ_SIZE
    Tries,       \* polls a command waits before it times out
    Script,      \* the commands the worker's own code sends, in order
    Air,         \* the kinds of the packets the air delivers, in order
    StartState,  \* the association state the run starts from
    MaxPending,  \* bound: completions the device runs ahead of the worker
    MaxPkts      \* bound: packets delivered in a behaviour

ASSUME RingAssumption == N \in Nat \ {0} /\ Pool \in 1 .. N /\ Batch \in 1 .. N
ASSUME CmdqAssumption == CmdqSize \in Nat \ {0, 1, 2} /\ Tries \in Nat \ {0}
ASSUME StartAssumption == StartState \in {"FW_LOADED", "EAPOL", "CONNECTED"}
ASSUME ScriptAssumption ==
    Script \in Seq(STRING) /\ Air \in Seq(STRING) /\ \A k \in DOMAIN Air : Air[k] # "resp"
ASSUME BoundAssumption == MaxPending \in 1 .. Pool /\ MaxPkts \in Nat

VARIABLES
    free,       \* buffers on the free ring the device knows of, in order
    stocked,    \* buffers on the free ring past the last doorbell
    buf,        \* buf[b]: the packet in receive buffer b
    used,       \* used[i]: the buffer completion i names (used_cd)
    stts,       \* the device's write index into the used ring
    read,       \* q->read
    wait,       \* wait_rsp.done, wait_cmd, and which command was answered
    cmdq,       \* read_ptr and write_ptr of the command queue
    fwq,        \* commands the firmware has not answered yet
    stack,      \* the worker's calls, innermost last
    ret,        \* what the last iwlm_trans_send_cmd to return returned
    pos,        \* the next command of Script
    state,      \* d->state, from IWLM_STATE_EAPOL on
    eapol_msg,  \* the handshake message awaited (0: none)
    have_ptk,   \* a first message has been answered
    sent,       \* how many commands were queued
    air,        \* the packets of Air still to come
    npkts,      \* how many packets the device delivered
    log         \* the packets taken off the ring by iwlm_trans_rx_poll, in order

ringvars == <<free, stocked, buf, used, stts, npkts, air>>
cmdvars == <<wait, cmdq, fwq, sent>>
assocvars == <<state, eapol_msg, have_ptk>>
vars == <<ringvars, read, cmdvars, stack, ret, pos, assocvars, log>>

Buffers == 1 .. Pool
NoCmd == "0xff"
NoPkt == [kind |-> "none", n |-> 0]
SecKey == "SEC_KEY_CMD"

Top == stack[Len(stack)]
Below == SubSeq(stack, 1, Len(stack) - 1)
Running(fn, ph) == stack # << >> /\ Top.fn = fn /\ Top.ph = ph
Resume(ph) == Append(Below, [Top EXCEPT !.ph = ph])

PollFrame == [fn |-> "poll", ph |-> "next", i |-> read, r |-> stts, rb |-> 0]
SendFrame(c) == [fn |-> "send", ph |-> "poll", cmd |-> c, id |-> sent + 1,
                 left |-> Tries]

(***************************************************************************)
(* rxq_init and txq_init: every pool buffer is handed to the device.       *)
(***************************************************************************)
Init ==
    /\ free = [b \in Buffers |-> b]
    /\ stocked = << >>
    /\ buf = [b \in Buffers |-> NoPkt]
    /\ used = [i \in 0 .. N - 1 |-> 0]
    /\ stts = 0
    /\ read = 0
    /\ wait = [done |-> FALSE, cmd |-> NoCmd, by |-> 0]
    /\ cmdq = [rd |-> 0, wr |-> 0]
    /\ fwq = << >>
    /\ stack = << >>
    /\ ret = "none"
    /\ pos = 1
    /\ state = StartState
    /\ eapol_msg = 0
    /\ have_ptk = FALSE
    /\ sent = 0
    /\ npkts = 0
    /\ air = Air
    /\ log = << >>

(***************************************************************************)
(* The device: it fills the next free buffer and moves its write index.    *)
(***************************************************************************)
Deliver(p) ==
    /\ free # << >>
    /\ npkts < MaxPkts
    /\ Pool - Len(free) - Len(stocked) < MaxPending
    /\ free' = Tail(free)
    /\ buf' = [buf EXCEPT ![Head(free)] = p]
    /\ used' = [used EXCEPT ![stts] = Head(free)]
    /\ stts' = (stts + 1) % N
    /\ npkts' = npkts + 1
    /\ UNCHANGED stocked

FwAnswer ==
    /\ fwq # << >>
    /\ Deliver([kind |-> "resp", cmd |-> Head(fwq).cmd, id |-> Head(fwq).id,
                n |-> npkts + 1])
    /\ fwq' = Tail(fwq)
    /\ UNCHANGED <<air, read, wait, cmdq, sent, stack, ret, pos, assocvars, log>>

AirFrame ==
    /\ air # << >>
    /\ Deliver([kind |-> Head(air), n |-> npkts + 1])
    /\ air' = Tail(air)
    /\ UNCHANGED <<read, cmdvars, stack, ret, pos, assocvars, log>>

(***************************************************************************)
(* iwlm_trans_send_cmd up to its wait loop, called from the stack `base`.  *)
(* hcmd_enqueue refuses when fewer than two entries are free; the wait     *)
(* slot has been armed by then.                                            *)
(***************************************************************************)
CmdqFree == (cmdq.rd - cmdq.wr - 1) % CmdqSize

\* The queue filled to its last entry.
SendCmdTight(base, c) ==
    /\ wait' = [done |-> FALSE, cmd |-> c, by |-> 0]
    /\ \/ /\ CmdqFree < 1
          /\ ret' = "full"
          /\ stack' = base
          /\ UNCHANGED <<cmdq, fwq, sent>>
       \/ /\ CmdqFree >= 1
          /\ cmdq' = [cmdq EXCEPT !.wr = (@ + 1) % CmdqSize]
          /\ fwq' = Append(fwq, [cmd |-> c, id |-> sent + 1])
          /\ sent' = sent + 1
          /\ stack' = Append(base, SendFrame(c))
          /\ UNCHANGED ret

SendCmd(base, c) ==
    /\ wait' = [done |-> FALSE, cmd |-> c, by |-> 0]
    /\ \/ /\ CmdqFree < 2
          /\ ret' = "full"
          /\ stack' = base
          /\ UNCHANGED <<cmdq, fwq, sent>>
       \/ /\ CmdqFree >= 2
          /\ cmdq' = [cmdq EXCEPT !.wr = (@ + 1) % CmdqSize]
          /\ fwq' = Append(fwq, [cmd |-> c, id |-> sent + 1])
          /\ sent' = sent + 1
          /\ stack' = Append(base, SendFrame(c))
          /\ UNCHANGED ret

\* The wait loop: poll, look at wait_rsp.done, give up after Tries polls.
SendPoll ==
    /\ Running("send", "poll")
    /\ stack' = Append(Resume("check"), PollFrame)
    /\ UNCHANGED <<ringvars, read, cmdvars, ret, pos, assocvars, log>>

SendDone ==
    /\ Running("send", "check")
    /\ wait.done
    /\ ret' = "ok"
    /\ stack' = Below
    /\ UNCHANGED <<ringvars, read, cmdvars, pos, assocvars, log>>

SendAgain ==
    /\ Running("send", "check")
    /\ ~wait.done
    /\ Top.left > 1
    /\ stack' = Append(Below, [Top EXCEPT !.ph = "poll", !.left = @ - 1])
    /\ UNCHANGED <<ringvars, read, cmdvars, ret, pos, assocvars, log>>

\* The wait slot left armed after giving up.
SendTimeoutArmed ==
    /\ Running("send", "check")
    /\ ~wait.done
    /\ Top.left = 1
    /\ ret' = "timeout"
    /\ stack' = Below
    /\ UNCHANGED <<ringvars, read, cmdvars, pos, assocvars, log>>

\* The wait not counted: the loop has no end.
SendTimeoutNever ==
    /\ Running("send", "check")
    /\ ~wait.done
    /\ Top.left = 1
    /\ stack' = Resume("poll")
    /\ UNCHANGED <<ringvars, read, cmdvars, ret, pos, assocvars, log>>

SendTimeout ==
    /\ Running("send", "check")
    /\ ~wait.done
    /\ Top.left = 1
    /\ wait' = [wait EXCEPT !.cmd = NoCmd]
    /\ ret' = "timeout"
    /\ stack' = Below
    /\ UNCHANGED <<ringvars, read, cmdq, fwq, sent, pos, assocvars, log>>

(***************************************************************************)
(* rxq_restock_one: the doorbell is written every Batch entries only.      *)
(***************************************************************************)
Restock(b) ==
    \/ /\ Len(stocked) + 1 = Batch
       /\ free' = free \o Append(stocked, b)
       /\ stocked' = << >>
    \/ /\ Len(stocked) + 1 < Batch
       /\ stocked' = Append(stocked, b)
       /\ UNCHANGED free

(***************************************************************************)
(* iwlm_mvm_rx_pkt: an answer fills the wait slot when the slot is armed   *)
(* for that command; everything else goes to its handler.                  *)
(***************************************************************************)
\* rbid, read from the completion, is a local of the poll's.
Dispatched == Append(Below, [Top EXCEPT !.ph = "restock", !.rb = used[Top.i]])

\* Any answer taken for the awaited one.
AnswersAny(p) ==
    /\ p.kind = "resp"
    /\ ~wait.done
    /\ wait.cmd # NoCmd

Answers(p) ==
    /\ p.kind = "resp"
    /\ ~wait.done
    /\ wait.cmd = p.cmd

HandleAnswer(p) ==
    /\ Answers(p)
    /\ wait' = [wait EXCEPT !.done = TRUE, !.by = p.id]
    /\ stack' = Dispatched
    /\ UNCHANGED assocvars

\* iwlm_mvm_rx_mpdu, rx_data_frame: EAPOL is looked at from state EAPOL on.
RunsHandler(p) ==
    /\ state \in {"EAPOL", "CONNECTED"}
    /\ \/ p.kind = "msg3" /\ eapol_msg = 3 /\ have_ptk
       \/ p.kind = "group" /\ have_ptk

HandleEapol(p) ==
    /\ RunsHandler(p)
    /\ stack' = Append(Dispatched, [fn |-> p.kind, ph |-> "start"])
    /\ UNCHANGED <<wait, assocvars>>

\* The last disjunct: packets nothing is done about, and the parts of a frame
\* spread over several buffers ("fragment"), which the poll passes over.
HandlePlain(p) ==
    /\ ~Answers(p)
    /\ ~RunsHandler(p)
    /\ \/ /\ p.kind = "msg1" /\ state \in {"EAPOL", "CONNECTED"}
          /\ eapol_msg' = 3
          /\ have_ptk' = TRUE
          /\ UNCHANGED state
       \/ /\ p.kind = "deauth"
          /\ state' = "FW_LOADED"
          /\ UNCHANGED <<eapol_msg, have_ptk>>
       \/ /\ p.kind # "deauth" /\ ~(p.kind = "msg1" /\ state # "FW_LOADED")
          /\ UNCHANGED assocvars
    /\ stack' = Dispatched
    /\ UNCHANGED wait

(***************************************************************************)
(* iwlm_trans_rx_poll: r is read once, i runs from q->read up to r, and    *)
(* q->read is only written after the last packet.                          *)
(***************************************************************************)
PollDispatch ==
    /\ Running("poll", "next")
    /\ Top.i # Top.r
    /\ LET p == buf[used[Top.i]]
       IN  /\ HandleAnswer(p) \/ HandleEapol(p) \/ HandlePlain(p)
           /\ log' = Append(log, p.n)
    /\ UNCHANGED <<ringvars, read, cmdq, fwq, sent, ret, pos>>

PollRestock ==
    /\ Running("poll", "restock")
    /\ Restock(Top.rb)
    /\ stack' = Append(Below, [Top EXCEPT !.ph = "next", !.i = (@ + 1) % N, !.rb = 0])
    /\ UNCHANGED <<buf, used, stts, npkts, air, read, cmdvars, ret, pos, assocvars,
                   log>>

\* q->read set from the device's index instead of from i.
PollReturnSkip ==
    /\ Running("poll", "next")
    /\ Top.i = Top.r
    /\ read' = stts
    /\ cmdq' = [cmdq EXCEPT !.rd = cmdq.wr]
    /\ stack' = Below
    /\ UNCHANGED <<ringvars, wait, fwq, sent, ret, pos, assocvars, log>>

\* q->read not stored.
PollReturnStale ==
    /\ Running("poll", "next")
    /\ Top.i = Top.r
    /\ cmdq' = [cmdq EXCEPT !.rd = cmdq.wr]
    /\ stack' = Below
    /\ UNCHANGED <<ringvars, read, wait, fwq, sent, ret, pos, assocvars, log>>

PollReturn ==
    /\ Running("poll", "next")
    /\ Top.i = Top.r
    /\ read' = Top.i
    /\ cmdq' = [cmdq EXCEPT !.rd = cmdq.wr]
    /\ stack' = Below
    /\ UNCHANGED <<ringvars, wait, fwq, sent, ret, pos, assocvars, log>>

(***************************************************************************)
(* iwlm_mlme_rx_eapol on a third message: install the pairwise key, then   *)
(* the group key, then CONNECTED; a command that fails ends the handler.   *)
(* On a group message: install the group key.  The handlers run inside a   *)
(* poll, so each of their commands polls again.                            *)
(***************************************************************************)
Msg3Ptk ==
    /\ Running("msg3", "start")
    /\ SendCmd(Resume("ptk"), SecKey)
    /\ UNCHANGED <<ringvars, read, pos, assocvars, log>>

Msg3Gtk ==
    /\ Running("msg3", "ptk")
    /\ ret = "ok"
    /\ SendCmd(Resume("gtk"), SecKey)
    /\ UNCHANGED <<ringvars, read, pos, assocvars, log>>

Msg3Failed ==
    /\ Running("msg3", "ptk") \/ Running("msg3", "gtk")
    /\ ret # "ok"
    /\ stack' = Below
    /\ UNCHANGED <<ringvars, read, cmdvars, ret, pos, assocvars, log>>

Msg3Connected ==
    /\ Running("msg3", "gtk")
    /\ ret = "ok"
    /\ eapol_msg' = 0
    /\ state' = "CONNECTED"
    /\ stack' = Below
    /\ UNCHANGED <<ringvars, read, cmdvars, ret, pos, have_ptk, log>>

GroupGtk ==
    /\ Running("group", "start")
    /\ SendCmd(Resume("gtk"), SecKey)
    /\ UNCHANGED <<ringvars, read, pos, assocvars, log>>

GroupDone ==
    /\ Running("group", "gtk")
    /\ stack' = Below
    /\ UNCHANGED <<ringvars, read, cmdvars, ret, pos, assocvars, log>>

(***************************************************************************)
(* The worker's own code: wlan_worker and the loops of connect, scan and   *)
(* bring-up poll; those functions send their commands one after another.   *)
(***************************************************************************)
\* A poll that would find and change nothing is left out.
WorkerPoll ==
    /\ stack = << >>
    /\ read # stts \/ cmdq.rd # cmdq.wr
    /\ stack' = <<PollFrame>>
    /\ UNCHANGED <<ringvars, read, cmdvars, ret, pos, assocvars, log>>

WorkerCmd ==
    /\ stack = << >>
    /\ pos <= Len(Script)
    /\ SendCmd(<< >>, Script[pos])
    /\ pos' = pos + 1
    /\ UNCHANGED <<ringvars, read, assocvars, log>>

Worker ==
    \/ WorkerPoll \/ WorkerCmd
    \/ SendPoll \/ SendDone \/ SendAgain \/ SendTimeout
    \/ PollDispatch \/ PollRestock \/ PollReturn
    \/ Msg3Ptk \/ Msg3Gtk \/ Msg3Failed \/ Msg3Connected
    \/ GroupGtk \/ GroupDone

Next ==
    \/ Worker
    \/ FwAnswer
    \/ AirFrame

\* The worker thread is scheduled whenever it can run.
Spec == Init /\ [][Next]_vars /\ WF_vars(Worker)

-----------------------------------------------------------------------------
Sends == {k \in DOMAIN stack : stack[k].fn = "send"}
Polls == {k \in DOMAIN stack : stack[k].fn = "poll"}

\* Completions between q->read and the device's index.
Pending == {(read + k) % N : k \in 0 .. ((stts - read) % N) - 1}

(***************************************************************************)
(* Ring indices, buffer numbers and the command queue's pointers stay in   *)
(* range, and a completion the driver has yet to look at names a buffer.   *)
(***************************************************************************)
TypeOK ==
    /\ free \in Seq(Buffers) /\ stocked \in Seq(Buffers)
    /\ Len(stocked) < Batch
    /\ used \in [0 .. N - 1 -> 0 .. Pool]
    /\ stts \in 0 .. N - 1 /\ read \in 0 .. N - 1
    /\ \A i \in Pending : used[i] \in Buffers
    /\ cmdq \in [rd : 0 .. CmdqSize - 1, wr : 0 .. CmdqSize - 1]
    /\ wait.cmd \in Range(Script) \cup {SecKey, NoCmd}
    /\ ret \in {"none", "ok", "full", "timeout"}
    /\ state \in {"FW_LOADED", "EAPOL", "CONNECTED"} /\ eapol_msg \in {0, 3}

(***************************************************************************)
(* "One RB per free RBD entry": a receive buffer is on the free ring at    *)
(* most once, and never while a poll that took it has yet to put it back.  *)
(* A buffer listed twice would be filled by the device while the driver    *)
(* reads it.                                                               *)
(***************************************************************************)
RbOnce ==
    LET posted == free \o stocked
    IN  /\ \A i, j \in DOMAIN posted : posted[i] = posted[j] => i = j
        /\ \A i \in DOMAIN posted : \A k \in Polls :
               stack[k].ph = "restock" => posted[i] # stack[k].rb

(***************************************************************************)
(* Every packet is taken off the ring exactly once, in the order the       *)
(* device delivered them: handed to iwlm_mvm_rx_pkt, or passed over when   *)
(* it is part of a frame spread over several buffers.                      *)
(***************************************************************************)
InOrderOnce == log = [k \in 1 .. Len(log) |-> k]

(***************************************************************************)
(* A command that returns success was answered itself: the answer that     *)
(* set wait_rsp.done is the one to the command being waited for.           *)
(***************************************************************************)
AnswerMatches ==
    Running("send", "check") /\ wait.done => wait.by = Top.id

(***************************************************************************)
(* iwlm_trans_send_cmd arms the slot before hcmd_enqueue may refuse the    *)
(* command, and leaves it armed then.  Only commands without a response    *)
(* buffer are ever refused, the keys': a slot that names a buffer belongs  *)
(* to a call that is still waiting, also when handlers' calls nest in it.  *)
(***************************************************************************)
RspBufferLive ==
    wait.cmd \notin {NoCmd, SecKey} /\ ~wait.done =>
        \E k \in Sends : stack[k].cmd = wait.cmd /\ \A j \in Sends : j <= k

(***************************************************************************)
(* "So it never fills up": no command is refused by hcmd_enqueue.          *)
(***************************************************************************)
CmdqNeverFull == ret # "full"

(***************************************************************************)
(* Comparing the device's index with q->read tells whether completions     *)
(* wait: between two polls equal indices mean that all packets were read.  *)
(***************************************************************************)
EqualIsDrained == stack = << >> /\ read = stts => Len(log) >= npkts

(***************************************************************************)
(* The command queue bounds the recursion: each key message can nest at    *)
(* most CmdqSize - 2 calls of iwlm_trans_send_cmd, until hcmd_enqueue      *)
(* refuses; without one, a call has none inside it.                        *)
(***************************************************************************)
NestingBound ==
    LET keys == {k \in DOMAIN Air : Air[k] \in {"msg3", "group"}}
    IN  \/ Cardinality(Sends) <= 1
        \/ Cardinality(Sends) <= (CmdqSize - 2) * Cardinality(keys)

(***************************************************************************)
(* Every packet the device delivers is taken off the ring in the end.      *)
(***************************************************************************)
EveryPacketHandled ==
    \A k \in 1 .. MaxPkts : npkts >= k ~> k \in Range(log)

(***************************************************************************)
(* The worker always gets back to its loop: no wait of iwlm_trans_send_cmd *)
(* for an answer is endless, however the waits nest.                       *)
(***************************************************************************)
WorkerReturns == []<>(stack = << >>)
=============================================================================
