-------------------------------- MODULE Xhci --------------------------------
(***************************************************************************)
(* The transfer path of the polled xHCI driver (x86 libs/bsp/src/xhci.c):  *)
(* one thread produces commands and transfer descriptors (TDs) on rings in *)
(* shared memory, and consumes the events the controller posts on the      *)
(* event ring.  One attached device with its control endpoint, an armed    *)
(* IN endpoint and a bulk-OUT endpoint.  The controller and the device are *)
(* external: they do what the xHCI document the driver follows says.       *)
(***************************************************************************)
EXTENDS Naturals, Sequences

CONSTANTS
    RingTrbs,   \* RING_TRBS, the link TRB included
    EvtTrbs,    \* EVT_TRBS
    Full,       \* length of a full packet (mps) and of a control data stage
    Lengths,    \* wLength of the control transfers asked for
    Budget      \* bounds: how often each of the things in Kinds happens

Kinds == {"work", "error", "late", "gone"}

ASSUME RingAssumption == RingTrbs \in Nat /\ RingTrbs > 3
ASSUME EventAssumption == EvtTrbs \in Nat /\ EvtTrbs > 3
ASSUME LengthAssumption == Full \in Nat /\ Full > 0 /\ Lengths \subseteq {0, Full}
ASSUME BudgetAssumption == Budget \in [Kinds -> Nat]

VARIABLES
    ring,       \* the producer's side: TRBs, enq, cycle
    at, epst,   \* the controller's dequeue position; its endpoint states
    crr,        \* CRCR.CRR: the command ring is running
    evt, ec,    \* the event ring: the driver's side, the controller's side
    hc, ep,     \* xhci_hc_t: failed and the pending command; the xhci_ep_t
    todo,       \* what the call in progress still has to do
    buf,        \* the report or chunk in the DMA buffer of "in" and "out"
    plugged,    \* the root port's connect status
    fault,      \* USBSTS.HSE or HCE
    log, dev,   \* what the driver returned; what the device sent and got
    left        \* what remains of Budget

vars == <<ring, at, epst, crr, evt, ec, hc, ep, todo, buf, plugged, fault,
          log, dev, left>>

Eps == {"ep0", "in", "out"}
Rings == Eps \union {"cmd"}
Slots == 0 .. RingTrbs - 1
NoTrb == RingTrbs    \* td_last_phys, cmd_trb_phys = 0: no TRB is there
Codes == {"success", "short", "stall", "refused", "aborted", "stopped", "none"}

\* td numbers the TDs and commands of a ring (for the properties only); arg is
\* the operand of a command.
Trb(kind, td, arg) == [cycle |-> 0, kind |-> kind, td |-> td, arg |-> arg]
Blank == Trb("none", 0, <<>>)
EmptyRing == [trb |-> [i \in Slots |-> Blank], enq |-> 0, cycle |-> 1]
NoEvent == [cycle |-> 0, ring |-> "cmd", trb |-> NoTrb, code |-> "none",
            res |-> 0, td |-> 0]

Spend(k) == left[k] > 0 /\ left' = [left EXCEPT ![k] = @ - 1]

-----------------------------------------------------------------------------
(* Rings *)

\* ring_push: the TRB gets the producer's cycle; a push that reaches the last
\* slot rewrites the link TRB there and starts the next lap.
Push(rg, t) ==
    LET i == rg.enq
        w == [rg.trb EXCEPT ![i] = [t EXCEPT !.cycle = rg.cycle]]
    IN  IF i + 1 = RingTrbs - 1
        THEN [trb |-> [w EXCEPT ![i + 1] = [Trb("link", 0, <<>>) EXCEPT
                                              !.cycle = rg.cycle]],
              enq |-> 0, cycle |-> 1 - rg.cycle]
        ELSE [trb |-> w, enq |-> i + 1, cycle |-> rg.cycle]

RECURSIVE PushAll(_, _)
PushAll(rg, trbs) ==
    IF trbs = <<>> THEN rg ELSE PushAll(Push(rg, Head(trbs)), Tail(trbs))

\* The slot of the last TRB of a TD: what its ring_push returns.
LastSlot(rg, trbs) == PushAll(rg, SubSeq(trbs, 1, Len(trbs) - 1)).enq

\* The controller follows a link TRB of its cycle to the top of the ring.
Followed(r) ==
    IF at[r].deq = RingTrbs - 1 /\ ring[r].trb[at[r].deq].cycle = at[r].ccs
    THEN [deq |-> 0, ccs |-> 1 - at[r].ccs]
    ELSE at[r]

\* There is a TRB of the controller's cycle to execute.
Fetchable(r) ==
    LET c == Followed(r)
    IN  c.deq # RingTrbs - 1 /\ ring[r].trb[c.deq].cycle = c.ccs

Idle(r) == Followed(r) = [deq |-> ring[r].enq, ccs |-> ring[r].cycle]

Fetched(r) == ring[r].trb[Followed(r).deq]
Past(r) == [Followed(r) EXCEPT !.deq = @ + 1]

-----------------------------------------------------------------------------
(* The event ring *)

\* The controller leaves one slot before the driver's ERDP empty.
Room(n) == ((ec.erdp + EvtTrbs - ec.enq - 1) % EvtTrbs) >= n

Posted(s, e) ==
    [trb |-> [s.trb EXCEPT ![s.enq] = [e EXCEPT !.cycle = s.pcs]],
     enq |-> (s.enq + 1) % EvtTrbs,
     pcs |-> IF s.enq + 1 = EvtTrbs THEN 1 - s.pcs ELSE s.pcs]

RECURSIVE PostedAll(_, _)
PostedAll(s, es) ==
    IF es = <<>> THEN s ELSE PostedAll(Posted(s, Head(es)), Tail(es))

Post(es) ==
    /\ Room(Len(es))
    /\ \E s \in {PostedAll([trb |-> evt.trb, enq |-> ec.enq, pcs |-> ec.pcs], es)} :
          /\ evt' = [evt EXCEPT !.trb = s.trb]
          /\ ec' = [ec EXCEPT !.enq = s.enq, !.pcs = s.pcs]

\* xfer_len is a uint32_t: a residue larger than the buffer wraps to a length
\* larger than any buffer, which the callers cut to the size they asked for.
Less(n, res) == IF n >= res THEN n - res ELSE Full + 1
Cut(len, size) == IF len > size THEN size ELSE len

\* The transfer ends; by is the TD whose event ended it (properties only).
Ended(x, e, n) ==
    [x EXCEPT !.done = TRUE, !.in_flight = FALSE, !.code = e.code,
              !.len = n, !.short = 0, !.by = e.td]

\* Mutant: a short data stage inside a control TD is not latched.
HandleXferEventNoShort(x, e) ==
    CASE e.trb # x.last /\ (~x.in_flight \/ e.code \in {"success", "short"}) -> x
      [] e.trb # x.last /\ x.in_flight /\ e.code \notin {"success", "short"} ->
            Ended(x, e, 0)
      [] e.trb = x.last /\ e.code = "short" -> Ended(x, e, Less(x.buf_len, e.res))
      [] e.trb = x.last /\ e.code = "success" -> Ended(x, e, Less(x.buf_len, x.short))
      [] OTHER -> Ended(x, e, 0)

\* handle_xfer_event: an event that does not name the last TRB of the posted
\* TD is a stale one, a short data stage, or an error inside the TD.
HandleXferEvent(x, e) ==
    CASE e.trb # x.last /\ (~x.in_flight \/ e.code = "success") -> x
      [] e.trb # x.last /\ x.in_flight /\ e.code = "short" ->
            [x EXCEPT !.short = e.res]
      [] e.trb # x.last /\ x.in_flight /\ e.code \notin {"success", "short"} ->
            Ended(x, e, 0)
      [] e.trb = x.last /\ e.code = "short" -> Ended(x, e, Less(x.buf_len, e.res))
      [] e.trb = x.last /\ e.code = "success" -> Ended(x, e, Less(x.buf_len, x.short))
      [] OTHER -> Ended(x, e, 0)

\* One event: a command completion counts only for the TRB waited for.
Handle(d, e) ==
    IF e.ring = "cmd"
    THEN IF e.trb = d.hc.cmd_trb
         THEN [d EXCEPT !.hc = [@ EXCEPT !.cmd_done = TRUE,
                                         !.cmd_code = e.code, !.by = e.td]]
         ELSE d
    ELSE [d EXCEPT !.ep[e.ring] = HandleXferEvent(@, e)]

\* The cycle bit of the next slot says that an event was posted there.
Fresh(v) == v.trb[v.deq].cycle = v.cycle

\* evt_deq and evt_cycle after an event; of its slot only the cycle bit is
\* looked at again.
Consumed(v) ==
    [trb |-> [v.trb EXCEPT ![v.deq] = [NoEvent EXCEPT !.cycle = v.cycle]],
     deq |-> (v.deq + 1) % EvtTrbs,
     cycle |-> IF v.deq + 1 = EvtTrbs THEN 1 - v.cycle ELSE v.cycle]

\* The loop of xhci_process_events, which handles at most EVT_TRBS events.
RECURSIVE HandleAll(_, _, _)
HandleAll(d, v, n) ==
    IF n = 0 \/ ~Fresh(v)
    THEN [hc |-> d.hc, ep |-> d.ep, evt |-> v, ec |-> [ec EXCEPT !.erdp = v.deq]]
    ELSE HandleAll(Handle(d, v.trb[v.deq]), Consumed(v), n - 1)

\* The event loop has something to do.
Stirred == ~hc.failed /\ Fresh(evt)

Unprocessed(eps) == [hc |-> hc, ep |-> eps, evt |-> evt, ec |-> ec]

\* xhci_process_events: USBSTS is read only when an event is visible; all the
\* visible events are handled, then ERDP is written.
ProcessEvents(eps) ==
    IF ~Stirred THEN Unprocessed(eps)
    ELSE IF fault THEN [Unprocessed(eps) EXCEPT !.hc.failed = TRUE]
    ELSE HandleAll([hc |-> hc, ep |-> eps], evt, EvtTrbs)

-----------------------------------------------------------------------------
(* Transfers.  todo holds the steps <<step, endpoint>> that the call in     *)
(* progress still has to take; a call returns when it is empty.             *)

FreshEp == [in_flight |-> FALSE, done |-> FALSE, code |-> "none", len |-> 0,
            buf_len |-> 0, last |-> NoTrb, short |-> 0, td |-> 0, by |-> 0,
            clean |-> TRUE, lapsed |-> FALSE]

Init ==
    /\ ring = [r \in Rings |-> EmptyRing]
    /\ at = [r \in Rings |-> [deq |-> 0, ccs |-> 1]]
    /\ epst = [e \in Eps |-> "running"]
    /\ crr = "run"
    /\ evt = [trb |-> [i \in 0 .. EvtTrbs - 1 |-> NoEvent], deq |-> 0, cycle |-> 1]
    /\ ec = [enq |-> 0, pcs |-> 1, erdp |-> 0]
    /\ hc = [failed |-> FALSE, cmd_done |-> FALSE, cmd_trb |-> NoTrb,
             cmd_code |-> "none", cmd |-> 0, by |-> 0]
    /\ ep = [e \in Eps |-> FreshEp]
    /\ todo = <<>>
    /\ buf = [in |-> [id |-> 0, len |-> 0], out |-> 0]
    /\ plugged = TRUE /\ fault = FALSE
    /\ log = [reports |-> <<>>, sent |-> <<>>, torn |-> FALSE]
    /\ dev = [reports |-> 0, sunk |-> <<>>, data |-> 0]
    /\ left = Budget

Doing(step, e) == todo # <<>> /\ Head(todo) = <<step, e>>
Calling == todo = <<>>    \* also when the controller has failed

controller == <<at, crr, plugged, fault, dev>>

\* The events of p are handled.
Took(p) == hc' = p.hc /\ evt' = p.evt /\ ec' = p.ec

\* A TD is written and the doorbell rung, which restarts a stopped endpoint.
\* clean: the last recovery left the ring in step; lapsed: a TD was written
\* when it had not (properties only).
PostTd(eps, e, trbs, n) ==
    /\ ring' = [ring EXCEPT ![e] = PushAll(@, trbs)]
    /\ epst' = [epst EXCEPT ![e] = IF @ = "stopped" THEN "running" ELSE @]
    /\ ep' = [eps EXCEPT ![e] =
                [@ EXCEPT !.done = FALSE, !.short = 0, !.buf_len = n,
                          !.code = "none", !.len = 0, !.by = 0,
                          !.last = LastSlot(ring[e], trbs),
                          !.in_flight = TRUE, !.td = @ + 1,
                          !.lapsed = @ \/ ~eps[e].clean]]

ControlTd(len) ==
    LET td == ep["ep0"].td + 1
    IN  <<Trb("setup", td, <<>>)>>
        \o (IF len = 0 THEN <<>> ELSE <<Trb("data", td, <<>>)>>)
        \o <<Trb("status", td, <<>>)>>

\* xhci_control_xfer, up to ep_wait.
Control(len) ==
    /\ Calling /\ Spend("work") /\ ~ep["ep0"].in_flight
    /\ PostTd(ep, "ep0", ControlTd(len), len)
    /\ todo' = << <<"wait", "ep0">> >>
    /\ UNCHANGED <<controller, evt, ec, hc, buf, log>>

\* xhci_bulk_out_xfer of n chunks.
Bulk(n) ==
    /\ Calling /\ Spend("work") /\ ~ep["out"].in_flight
    /\ todo' = [i \in 1 .. n |-> <<"chunk", "out">>]
    /\ UNCHANGED <<controller, ring, epst, evt, ec, hc, ep, buf, log>>

\* One turn of its loop, up to ep_wait: the chunk goes through the buffer.
Chunk ==
    /\ Doing("chunk", "out")
    /\ buf' = [buf EXCEPT !["out"] = ep["out"].td + 1]
    /\ PostTd(ep, "out", <<Trb("normal", ep["out"].td + 1, <<>>)>>, Full)
    /\ todo' = << <<"wait", "out">> >> \o Tail(todo)
    /\ UNCHANGED <<controller, evt, ec, hc, log, left>>

Recovered(x) ==
    [x EXCEPT !.in_flight = FALSE, !.done = FALSE, !.short = 0, !.clean = FALSE]

\* ep_recover gives up the commands when the device is unplugged.
RecoverSteps(e, h) ==
    IF h.failed \/ ~plugged THEN <<>>
    ELSE << <<"reset", e>>, <<"setdeq", e>> >>

\* The transfer on e failed: recover, and no further chunks.
Fail(e, p) ==
    /\ ep' = [p.ep EXCEPT ![e] = Recovered(@)]
    /\ todo' = RecoverSteps(e, p.hc)
               \o SelectSeq(Tail(todo), LAMBDA s : s[1] # "chunk")
    /\ log' = log

\* Mutant: any completion is taken as success.
SucceededAny(e, x) == x.done

\* What the caller takes as success.
Succeeded(e, x) ==
    IF e = "out" THEN x.code = "success" /\ x.len = x.buf_len
    ELSE x.code \in {"success", "short"}

Done(e, p) ==
    /\ ep' = p.ep /\ todo' = Tail(todo)
    /\ log' = IF e = "out" THEN [log EXCEPT !.sent = Append(@, p.ep[e].td)]
              ELSE [log EXCEPT !.torn = @ \/ Cut(p.ep[e].len, p.ep[e].buf_len) # dev.data]

\* One turn of the loop of ep_wait in which events are seen.
WaitEvents(e) ==
    /\ Doing("wait", e) /\ Stirred
    /\ \E p \in {ProcessEvents(ep)} :
          /\ Took(p)
          /\ \/ p.ep[e].done /\ Succeeded(e, p.ep[e]) /\ Done(e, p)
             \/ p.ep[e].done /\ ~Succeeded(e, p.ep[e]) /\ Fail(e, p)
             \/ ~p.ep[e].done /\ p.hc.failed /\ Fail(e, p)
             \/ ~p.ep[e].done /\ ~p.hc.failed /\ ep' = p.ep /\ UNCHANGED <<todo, log>>
    /\ UNCHANGED <<controller, ring, epst, buf, left>>

\* hc_check_fatal in ep_wait.
WaitFatal(e) ==
    /\ Doing("wait", e) /\ ~Stirred /\ (fault \/ hc.failed)
    /\ hc' = [hc EXCEPT !.failed = TRUE]
    /\ Fail(e, [Unprocessed(ep) EXCEPT !.hc.failed = TRUE])
    /\ UNCHANGED <<controller, ring, epst, evt, ec, buf, left>>

\* The controller has work it can do on the endpoint.
Works(e) == plugged /\ ~fault /\ epst[e] = "running" /\ Fetchable(e)

\* The deadline of ep_wait: the endpoint cannot answer, or is slow to.
WaitTimeout(e) ==
    /\ Doing("wait", e) /\ ~Stirred /\ ~fault /\ ~hc.failed
    /\ IF Works(e) THEN Spend("late") ELSE left' = left
    /\ Fail(e, Unprocessed(ep))
    /\ UNCHANGED <<controller, ring, epst, evt, ec, hc, buf>>

-----------------------------------------------------------------------------
(* Commands *)

Issuing == todo # <<>> /\ Head(todo)[1] \in {"reset", "setdeq"}
Awaiting == todo # <<>> /\ Head(todo)[1] \in {"reset_wait", "setdeq_wait"}
Aborting == todo # <<>> /\ Head(todo)[1] = "abort"
Onward(step) == todo' = << <<step, Head(todo)[2]>> >> \o Tail(todo)

\* Mutant: SET_TR_DEQ without the dequeue cycle state.
IssueCmdNoCycle ==
    /\ Issuing /\ ~hc.failed
    /\ LET op == Head(todo)[1]
           e == Head(todo)[2]
           t == Trb(op, hc.cmd + 1, <<e, ring[e].enq, 1>>)
       IN  /\ ring' = [ring EXCEPT !["cmd"] = Push(@, t)]
           /\ hc' = [hc EXCEPT !.cmd_done = FALSE, !.cmd = @ + 1,
                               !.cmd_trb = ring["cmd"].enq]
           /\ Onward(IF op = "reset" THEN "reset_wait" ELSE "setdeq_wait")
    /\ UNCHANGED <<controller, epst, evt, ec, ep, buf, log, left>>

\* xhci_cmd, up to its loop: RESET_EP, or SET_TR_DEQ to the enqueue position.
IssueCmd ==
    /\ Issuing /\ ~hc.failed
    /\ LET op == Head(todo)[1]
           e == Head(todo)[2]
           t == Trb(op, hc.cmd + 1, <<e, ring[e].enq, ring[e].cycle>>)
       IN  /\ ring' = [ring EXCEPT !["cmd"] = Push(@, t)]
           /\ hc' = [hc EXCEPT !.cmd_done = FALSE, !.cmd = @ + 1,
                               !.cmd_trb = ring["cmd"].enq]
           /\ Onward(IF op = "reset" THEN "reset_wait" ELSE "setdeq_wait")
    /\ UNCHANGED <<controller, epst, evt, ec, ep, buf, log, left>>

\* The command is not sent to a failed controller.
SkipCmd ==
    /\ Issuing /\ hc.failed
    /\ todo' = Tail(todo)
    /\ UNCHANGED <<controller, ring, epst, evt, ec, hc, ep, buf, log, left>>

\* One turn of the loop of xhci_cmd.  The caller, ep_recover, ignores the
\* code; clean remembers it for the properties.
CmdEvents ==
    /\ Awaiting /\ Stirred
    /\ \E p \in {ProcessEvents(ep)} :
          /\ Took(p)
          /\ todo' = IF p.hc.cmd_done \/ p.hc.failed THEN Tail(todo) ELSE todo
          /\ ep' = [p.ep EXCEPT ![Head(todo)[2]].clean =
                      @ \/ (/\ Head(todo)[1] = "setdeq_wait"
                            /\ p.hc.cmd_done /\ p.hc.cmd_code = "success")]
    /\ UNCHANGED <<controller, ring, epst, buf, log, left>>

\* hc_check_fatal in xhci_cmd.
CmdFatal ==
    /\ Awaiting /\ ~Stirred /\ (fault \/ hc.failed)
    /\ hc' = [hc EXCEPT !.failed = TRUE]
    /\ todo' = Tail(todo)
    /\ UNCHANGED <<controller, ring, epst, evt, ec, ep, buf, log, left>>

\* The deadline of xhci_cmd: cmd_abort writes CRCR.CA.
CmdTimeout ==
    /\ Awaiting /\ ~Stirred /\ ~fault /\ ~hc.failed /\ Spend("late")
    /\ crr' = "abort" /\ Onward("abort")
    /\ UNCHANGED <<ring, at, epst, evt, ec, hc, ep, buf, plugged, fault, log, dev>>

\* The loop of cmd_abort drains events while CRR is set.
AbortEvents ==
    /\ Aborting /\ crr = "abort" /\ Stirred
    /\ \E p \in {ProcessEvents(ep)} : Took(p) /\ ep' = p.ep
    /\ UNCHANGED <<controller, ring, epst, todo, buf, log, left>>

\* Mutant: the wait for CRR has no deadline.
AbortTimeoutNever == Aborting /\ crr = "abort" /\ UNCHANGED vars

\* CRR does not drop: the controller is given up.
AbortTimeout ==
    /\ Aborting /\ crr = "abort"
    /\ IF fault THEN left' = left ELSE Spend("gone")
    /\ hc' = [hc EXCEPT !.failed = TRUE]
    /\ todo' = Tail(todo)
    /\ UNCHANGED <<controller, ring, epst, evt, ec, ep, buf, log>>

\* Mutant: the command ring is restarted where the producer stood.
AbortDoneKeep ==
    /\ Aborting /\ crr = "stopped"
    /\ \E p \in {ProcessEvents(ep)} :
          /\ evt' = p.evt /\ ec' = p.ec /\ ep' = p.ep
          /\ hc' = [p.hc EXCEPT !.cmd_done = FALSE, !.cmd_trb = NoTrb]
    /\ at' = [at EXCEPT !["cmd"] = [deq |-> 0, ccs |-> 1]]
    /\ crr' = "run" /\ todo' = Tail(todo)
    /\ UNCHANGED <<ring, epst, buf, plugged, fault, log, dev, left>>

\* Mutant: the events of the abort are left in the event ring.
AbortDoneNoDrain ==
    /\ Aborting /\ crr = "stopped"
    /\ hc' = [hc EXCEPT !.cmd_done = FALSE, !.cmd_trb = NoTrb]
    /\ ring' = [ring EXCEPT !["cmd"] = EmptyRing]
    /\ at' = [at EXCEPT !["cmd"] = [deq |-> 0, ccs |-> 1]]
    /\ crr' = "run" /\ todo' = Tail(todo)
    /\ UNCHANGED <<epst, evt, ec, ep, buf, plugged, fault, log, dev, left>>

\* CRR dropped: drain, then both sides restart on an empty ring.
AbortDone ==
    /\ Aborting /\ crr = "stopped"
    /\ \E p \in {ProcessEvents(ep)} :
          /\ evt' = p.evt /\ ec' = p.ec /\ ep' = p.ep
          /\ hc' = [p.hc EXCEPT !.cmd_done = FALSE, !.cmd_trb = NoTrb]
    /\ ring' = [ring EXCEPT !["cmd"] = EmptyRing]
    /\ at' = [at EXCEPT !["cmd"] = [deq |-> 0, ccs |-> 1]]
    /\ crr' = "run" /\ todo' = Tail(todo)
    /\ UNCHANGED <<epst, buf, plugged, fault, log, dev, left>>

-----------------------------------------------------------------------------
(* The armed IN endpoint: xhci_int_in_poll *)

InTd == <<Trb("normal", ep["in"].td + 1, <<>>)>>

\* Mutant: only a completion latched by an earlier drain is looked at.
PolledLatched == Unprocessed(ep)

\* A completion latched earlier is consumed without reading the event ring.
Polled == IF ep["in"].done THEN Unprocessed(ep) ELSE ProcessEvents(ep)

\* Mutant: done is not cleared, and the completion is taken again.
PollReportAgain ==
    /\ Calling
    /\ \E p \in {Polled} :
          /\ p.ep["in"].done /\ p.ep["in"].code \in {"success", "short"}
          /\ log' = [log EXCEPT !.reports = Append(@, buf["in"].id)]
          /\ Took(p) /\ ep' = p.ep
    /\ UNCHANGED <<controller, ring, epst, todo, buf, left>>

\* The report is copied out of the buffer and the endpoint armed again.
PollReport ==
    /\ Calling
    /\ \E p \in {Polled} :
          /\ p.ep["in"].done /\ p.ep["in"].code \in {"success", "short"}
          /\ log' = [log EXCEPT !.reports =
                       Append(@, buf["in"].id),
                              !.torn = @ \/ Cut(p.ep["in"].len, Full) # buf["in"].len]
          /\ Took(p) /\ PostTd(p.ep, "in", InTd, Full)
    /\ UNCHANGED <<controller, todo, buf, left>>

\* The transfer failed: ep_recover; the next poll arms again.
PollError ==
    /\ Calling
    /\ \E p \in {Polled} :
          /\ p.ep["in"].done /\ p.ep["in"].code \notin {"success", "short"}
          /\ Took(p)
          /\ ep' = [p.ep EXCEPT !["in"] = Recovered(@)]
          /\ todo' = RecoverSteps("in", p.hc)
    /\ UNCHANGED <<controller, ring, epst, buf, log, left>>

PollArm ==
    /\ Calling
    /\ \E p \in {Polled} :
          /\ ~p.ep["in"].done /\ ~p.ep["in"].in_flight
          /\ Took(p) /\ PostTd(p.ep, "in", InTd, Full)
    /\ UNCHANGED <<controller, todo, buf, log, left>>

\* Mutant: an armed endpoint is never looked after.
PollWedgeNever == FALSE

\* Nothing for XHCI_INT_IN_WEDGE_MS, from an endpoint that halted or that had
\* nothing to report: recover, clear the device's halt, then arm again.
PollWedge ==
    /\ Calling /\ plugged
    /\ IF epst["in"] = "halted" /\ ~hc.failed THEN left' = left ELSE Spend("late")
    /\ \E p \in {Polled} :
          /\ ~p.ep["in"].done /\ p.ep["in"].in_flight
          /\ Took(p)
          /\ ep' = [p.ep EXCEPT !["in"] = Recovered(@)]
          /\ todo' = RecoverSteps("in", p.hc)
                     \o << <<"clear", "ep0">>, <<"rearm", "in">> >>
    /\ UNCHANGED <<controller, ring, epst, buf, log>>

\* Nothing yet.
PollIdle ==
    /\ Calling
    /\ \E p \in {Polled} :
          ~p.ep["in"].done /\ p.ep["in"].in_flight /\ Took(p) /\ ep' = p.ep
    /\ UNCHANGED <<controller, ring, epst, todo, buf, log, left>>

\* CLEAR_FEATURE(ENDPOINT_HALT) through xhci_control_xfer.
ClearHalt ==
    /\ Doing("clear", "ep0")
    /\ PostTd(ep, "ep0", ControlTd(0), 0)
    /\ todo' = << <<"wait", "ep0">> >> \o Tail(todo)
    /\ UNCHANGED <<controller, evt, ec, hc, buf, log, left>>

\* What is pending meets in_flight = false; then the endpoint is armed.
Rearm ==
    LET quiet(eps) == [eps EXCEPT !["in"].done = FALSE, !["in"].in_flight = FALSE]
    IN  /\ Doing("rearm", "in")
        /\ \E p \in {ProcessEvents(quiet(ep))} :
              Took(p) /\ PostTd(quiet(p.ep), "in", InTd, Full)
        /\ todo' = Tail(todo)
        /\ UNCHANGED <<controller, buf, log, left>>

\* bsp_usb_poll drains the event ring between the calls.
Drain ==
    /\ Calling /\ Stirred
    /\ \E p \in {ProcessEvents(ep)} : Took(p) /\ ep' = p.ep
    /\ UNCHANGED <<controller, ring, epst, todo, buf, log, left>>

-----------------------------------------------------------------------------
(* The controller and the device (external) *)

driver == <<ring, hc, ep, todo, log>>

EventFor(r, code, res) ==
    [NoEvent EXCEPT !.ring = r, !.trb = Followed(r).deq, !.code = code,
                    !.res = res, !.td = Fetched(r).td]

\* A packet of n: a short one has its event even inside a TD (ISP).
Packet(n) == IF n < Full THEN EventFor("in", "short", Full - n)
             ELSE EventFor("in", "success", 0)

\* A stage of a control transfer; the data stage may be short.
ExecControl ==
    /\ Works("ep0")
    /\ \/ /\ Fetched("ep0").kind = "setup"
          /\ dev' = [dev EXCEPT !.data = 0]
          /\ UNCHANGED <<evt, ec>>
       \/ /\ Fetched("ep0").kind = "data"
          /\ \E n \in 0 .. Full :
                /\ dev' = [dev EXCEPT !.data = n]
                /\ IF n < Full THEN Post(<<EventFor("ep0", "short", Full - n)>>)
                   ELSE UNCHANGED <<evt, ec>>
       \/ /\ Fetched("ep0").kind = "status"
          /\ Post(<<EventFor("ep0", "success", 0)>>)
          /\ UNCHANGED dev
    /\ at' = [at EXCEPT !["ep0"] = Past("ep0")]
    /\ UNCHANGED <<driver, epst, crr, buf, plugged, fault, left>>

\* The device has a report of n for the armed TD.
ExecIn ==
    /\ Works("in") /\ Spend("work")
    /\ \E n \in 0 .. Full :
          /\ buf' = [buf EXCEPT !["in"] = [id |-> dev.reports + 1, len |-> n]]
          /\ Post(<<Packet(n)>>)
    /\ dev' = [dev EXCEPT !.reports = @ + 1]
    /\ at' = [at EXCEPT !["in"] = Past("in")]
    /\ UNCHANGED <<driver, epst, crr, plugged, fault>>

\* The device takes what is in the OUT buffer.
ExecOut ==
    /\ Works("out")
    /\ dev' = [dev EXCEPT !.sunk = Append(@, buf["out"])]
    /\ Post(<<EventFor("out", "success", 0)>>)
    /\ at' = [at EXCEPT !["out"] = Past("out")]
    /\ UNCHANGED <<driver, epst, crr, buf, plugged, fault, left>>

\* A STALL or transaction error halts the endpoint at the failing TRB.
ExecError(e) ==
    /\ Works(e) /\ Spend("error")
    /\ Post(<<EventFor(e, "stall", 0)>>)
    /\ epst' = [epst EXCEPT ![e] = "halted"]
    /\ UNCHANGED <<driver, at, crr, buf, plugged, fault, dev>>

\* RESET_EP is for a halted endpoint, SET_TR_DEQ for a stopped one; in any
\* other state they are refused (Context State Error).
CmdExec ==
    /\ ~fault /\ crr \in {"run", "abort"} /\ Fetchable("cmd")
    /\ LET op == Fetched("cmd").kind
           e == Fetched("cmd").arg[1]
           ok == epst[e] = IF op = "reset" THEN "halted" ELSE "stopped"
       IN  /\ Post(<<EventFor("cmd", IF ok THEN "success" ELSE "refused", 0)>>)
           /\ epst' = [epst EXCEPT ![e] = IF ok THEN "stopped" ELSE @]
           /\ at' = [at EXCEPT !["cmd"] = Past("cmd"),
                               ![e] = IF ok /\ op = "setdeq"
                                      THEN [deq |-> Fetched("cmd").arg[2],
                                            ccs |-> Fetched("cmd").arg[3]]
                                      ELSE @]
    /\ UNCHANGED <<driver, crr, buf, plugged, fault, dev, left>>

\* CRCR.CA: a command not yet executed is aborted, and the ring stops.
CmdStop ==
    /\ ~fault /\ crr = "abort"
    /\ LET stop(c) == [NoEvent EXCEPT !.code = "stopped", !.trb = c.deq]
       IN  IF Fetchable("cmd")
           THEN Post(<<EventFor("cmd", "aborted", 0), stop(Past("cmd"))>>)
           ELSE Post(<<stop(Followed("cmd"))>>)
    /\ crr' = "stopped"
    /\ UNCHANGED <<driver, at, epst, buf, plugged, fault, dev, left>>

Fault ==
    /\ ~fault /\ Spend("gone") /\ fault' = TRUE
    /\ UNCHANGED <<driver, at, epst, crr, evt, ec, buf, plugged, dev>>

Unplug ==
    /\ plugged /\ Spend("gone") /\ plugged' = FALSE
    /\ UNCHANGED <<driver, at, epst, crr, evt, ec, buf, fault, dev>>

-----------------------------------------------------------------------------
Poll == PollReport \/ PollError \/ PollArm \/ PollWedge \/ PollIdle

\* The steps of a call in progress.
Proceed ==
    \/ Chunk \/ ClearHalt \/ Rearm
    \/ \E e \in {"ep0", "out"} : WaitEvents(e) \/ WaitFatal(e)
    \/ IssueCmd \/ SkipCmd \/ CmdEvents \/ CmdFatal
    \/ AbortEvents \/ AbortDone

\* What the controller owes the driver: not a report.
Answer == ExecControl \/ ExecOut \/ CmdExec \/ CmdStop

\* The deadlines.
Expire == (\E e \in {"ep0", "out"} : WaitTimeout(e)) \/ CmdTimeout \/ AbortTimeout

Next ==
    \/ \E len \in Lengths : Control(len)
    \/ Bulk(2)
    \/ Poll \/ Drain \/ Proceed \/ Expire
    \/ Answer \/ ExecIn \/ (\E e \in Eps : ExecError(e)) \/ Fault \/ Unplug

\* usbhostd polls in a loop and runs a call it made; a deadline passes; the
\* controller executes what it can, and stops its command ring when told to.
Fairness ==
    /\ WF_vars(Proceed) /\ WF_vars(Expire)
    /\ WF_vars(PollReport \/ PollError \/ PollArm) /\ WF_vars(PollWedge)
    /\ WF_vars(Answer)

Spec == Init /\ [][Next]_vars /\ Fairness

-----------------------------------------------------------------------------
(* Properties *)

TypeOK ==
    /\ \A r \in Rings : /\ ring[r].enq \in 0 .. RingTrbs - 2
                        /\ ring[r].cycle \in {0, 1}
                        /\ at[r].deq \in Slots /\ at[r].ccs \in {0, 1}
    /\ epst \in [Eps -> {"running", "halted", "stopped"}]
    /\ crr \in {"run", "abort", "stopped"}
    /\ evt.deq \in 0 .. EvtTrbs - 1 /\ evt.cycle \in {0, 1}
    /\ ec.enq \in 0 .. EvtTrbs - 1 /\ ec.erdp = evt.deq
    /\ hc.failed \in BOOLEAN /\ hc.cmd_trb \in Slots \union {NoTrb}
    /\ \A e \in Eps : /\ ep[e].in_flight \in BOOLEAN /\ ep[e].done \in BOOLEAN
                      /\ ep[e].len \in 0 .. Full + 1 /\ ep[e].short \in 0 .. Full
                      /\ ep[e].code \in Codes
    /\ \A i \in DOMAIN todo : todo[i][2] \in Eps

\* A command ends by its own completion, also after a timeout and an abort:
\* "every later command would be matched against a stale TRB address" is what
\* cmd_abort is there to prevent; and a transfer by an event of its own TD, as
\* long as the recoveries of its endpoint were accepted.
OwnCompletion ==
    /\ hc.cmd_done => hc.by = hc.cmd
    /\ \A e \in Eps : ep[e].done /\ ep[e].clean => ep[e].by = ep[e].td

\* Between commands the command ring is empty for the controller, which stands
\* where the driver will write, whatever timed out before.
CommandsInStep ==
    ~hc.failed /\ ~Awaiting /\ ~Aborting => crr = "run" /\ Idle("cmd")

\* A TD is only written while its ring is idle, if the last recovery of the
\* endpoint was accepted.
WrittenIdle ==
    [][\A e \in Eps : ring'[e] # ring[e] /\ ep[e].clean => Idle(e)]_vars

\* As the head of xhci.c has it, of every TD.
TdsOnlyWhileIdle == [][\A e \in Eps : ring'[e] # ring[e] => Idle(e)]_vars

\* What xhci_int_in_poll returned are the reports of the device, in order and
\* each once, and at most one is on its way.
ReportsOnce ==
    ~ep["in"].lapsed =>
        /\ \A i \in 1 .. Len(log.reports) : log.reports[i] = i
        /\ dev.reports - Len(log.reports) \in 0 .. 1

\* The length returned with a report, or by a control transfer whose data stage
\* may be short, is what the device sent (torn: once it was not).
LengthsTrue == ~ep["in"].lapsed /\ ~ep["ep0"].lapsed => ~log.torn

\* "a permanently armed EP loses no reports": between calls, the TD that the
\* next report completes is the one the driver waits for.
ArmedTdNext ==
    todo = <<>> /\ ep["in"].in_flight /\ Works("in")
        => Fetched("in").td = ep["in"].td

\* A chunk xhci_bulk_out_xfer counted as sent reached the device, and the device
\* takes no chunk twice or out of order, unless a TD was written after a recovery
\* that failed.
ChunksOnce ==
    ~ep["out"].lapsed =>
        /\ \A i \in 1 .. Len(dev.sunk) - 1 : dev.sunk[i] < dev.sunk[i + 1]
        /\ \A i \in 1 .. Len(log.sent) :
              \E j \in 1 .. Len(dev.sunk) : dev.sunk[j] = log.sent[i]

\* Every call returns, whatever the controller does.
CallsReturn == todo # <<>> ~> todo = <<>>

\* The IN endpoint converges: a halted endpoint runs again with a TD to
\* execute, unless the device or the controller is gone.
Converges ==
    epst["in"] = "halted" ~>
        (epst["in"] = "running" /\ ep["in"].in_flight) \/ ~plugged \/ fault \/ hc.failed

\* A report on its way is returned.
ReportsReturned ==
    dev.reports > Len(log.reports) ~>
        \/ dev.reports = Len(log.reports)
        \/ fault \/ hc.failed \/ ep["in"].lapsed

=============================================================================
