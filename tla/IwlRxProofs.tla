---------------------------- MODULE IwlRxProofs ----------------------------
(***************************************************************************)
(* The receive path for rings, pools and scripts of any size: the shape of *)
(* the worker's call stack, from which it follows that a wait slot naming  *)
(* a response buffer belongs to a call in progress, however the handlers'  *)
(* calls nest; and the lemmas on ring indices and on the ring's buffers    *)
(* that the results of IwlRxRingProofs rest on.                            *)
(***************************************************************************)
EXTENDS IwlRx, TLAPS

KeyKinds == {"msg3", "group"}

(***************************************************************************)
(* The worker's calls.  A handler runs on top of a poll; what is called    *)
(* from inside a poll sends key commands only; when the worker is in its   *)
(* loop, or back from a poll, all of the command queue has been reclaimed. *)
(***************************************************************************)
Cmds == Range(Script) \cup {SecKey}
PollFrames == [fn : {"poll"}, ph : {"next", "restock"}, i : 0 .. N - 1,
               r : 0 .. N - 1, rb : 0 .. Pool]
SendFrames == [fn : {"send"}, ph : {"poll", "check"}, cmd : Cmds, id : Nat,
               left : Nat]
KeyFrames == [fn : KeyKinds, ph : {"start", "ptk", "gtk"}]
Frame == PollFrames \cup SendFrames \cup KeyFrames

Shape(s) ==
    /\ s \in Seq(Frame)
    /\ \A k \in DOMAIN s :
          s[k].fn \in KeyKinds => k > 1 /\ s[k - 1].fn = "poll"
    /\ \A k \in DOMAIN s : k > 1 /\ s[k].fn = "send" => s[k].cmd = SecKey

\* The worker's own call waits for an answer to c, and no other does.
Holds(s, c) ==
    /\ s # << >> /\ s[1].fn = "send" /\ s[1].cmd = c
    /\ \A k \in DOMAIN s : k > 1 => s[k].fn # "send"

IsSlot(w) ==
    /\ w = [done |-> w.done, cmd |-> w.cmd, by |-> w.by]
    /\ w.done \in BOOLEAN /\ w.cmd \in Cmds \cup {NoCmd}

StackInv ==
    /\ Shape(stack)
    /\ read \in 0 .. N - 1 /\ stts \in 0 .. N - 1
    /\ sent \in Nat /\ pos \in Nat \ {0}
    /\ cmdq \in [rd : 0 .. CmdqSize - 1, wr : 0 .. CmdqSize - 1]
    /\ IsSlot(wait)
    /\ stack = << >> \/ Running("send", "check") => cmdq.rd = cmdq.wr

\* What the rings name: buffers, or nothing yet.
UsedInv ==
    /\ used \in [0 .. N - 1 -> 0 .. Pool]
    /\ free \in Seq(0 .. Pool) /\ stocked \in Seq(0 .. Pool)

SlotInv ==
    wait.cmd \notin {NoCmd, SecKey} /\ ~wait.done => Holds(stack, wait.cmd)

(***************************************************************************)
(* The ring, with packets and completions counted from 1 and never         *)
(* wrapped: Len(log) packets have been handed over, Restocked of them have *)
(* their buffer back on the free ring, npkts have been delivered.  At(k)   *)
(* is the buffer of packet k: named by a completion, or still to be filled *)
(* when its turn on the free ring comes.  Delivering a packet leaves At as *)
(* it is, and restocking moves its window by one.                          *)
(***************************************************************************)
Flat ==
    \/ StartState = "FW_LOADED"
    \/ \A k \in DOMAIN Air : Air[k] \notin KeyKinds

Restocked == IF Running("poll", "restock") THEN Len(log) - 1 ELSE Len(log)
Posted == free \o stocked
Slot(k) == (k - 1) % N
At(k) == IF k <= npkts THEN used[Slot(k)] ELSE Posted[k - npkts]

\* No packet that a handler would send commands for is about.
NoKeys ==
    \/ state = "FW_LOADED"
    \/ /\ \A k \in DOMAIN air : air[k] \notin KeyKinds
       /\ \A b \in Buffers : buf[b].kind \notin KeyKinds

FlatInv ==
    /\ NoKeys /\ air \in Seq(Range(Air))
    /\ \/ stack = << >>
       \/ Len(stack) = 1 /\ stack[1].fn \in {"poll", "send"}
       \/ Len(stack) = 2 /\ stack[1].fn = "send" /\ stack[2].fn = "poll"

\* The ring when d buffers have been put back.
Ring(d) ==
    /\ free \in Seq(Buffers) /\ stocked \in Seq(Buffers)
    /\ DOMAIN used = 0 .. N - 1 /\ DOMAIN buf = Buffers
    /\ npkts \in Nat /\ stts = npkts % N /\ d \in 0 .. npkts
    /\ npkts - d + Len(free) + Len(stocked) = Pool
    /\ \A k \in d + 1 .. npkts :
          used[Slot(k)] \in Buffers /\ buf[used[Slot(k)]].n = k
    /\ \A j, k \in d + 1 .. d + Pool : At(j) = At(k) => j = k

RingInv ==
    /\ Ring(Restocked)
    /\ log \in Seq(Nat) /\ InOrderOnce /\ Len(log) <= npkts

PlaceInv ==
    IF stack # << >> /\ Top.fn = "poll"
    THEN /\ Top.i = (IF Top.ph = "restock" THEN Len(log) - 1 ELSE Len(log)) % N
         /\ \E m \in Len(log) .. npkts : Top.r = m % N
         /\ Top.ph = "restock" => Top.rb = used[Top.i]
    ELSE read = Len(log) % N

(***************************************************************************)
(* Commands and answers: with every command sent once, a command that is   *)
(* waited for, not yet answered, or whose answer is still to be handed     *)
(* over is told by its name.                                               *)
(***************************************************************************)
SentOnce == \A i, j \in DOMAIN Script : Script[i] = Script[j] => i = j

Answered == {k \in Len(log) + 1 .. npkts : buf[used[Slot(k)]].kind = "resp"}

Outstanding ==
    {<<fwq[i].cmd, fwq[i].id>> : i \in DOMAIN fwq}
        \cup {<<buf[used[Slot(k)]].cmd, buf[used[Slot(k)]].id>> : k \in Answered}
        \cup {<<stack[k].cmd, stack[k].id>> : k \in Sends}

Names ==
    /\ \A x, y \in Outstanding : x[1] = y[1] => x[2] = y[2]
    /\ \A x \in Outstanding : \E k \in 1 .. pos - 1 :
          k \in DOMAIN Script /\ Script[k] = x[1]

\* The worker's own call.
First(s) == s # << >> /\ s[1].fn = "send"

AnswerInv ==
    /\ fwq \in Seq([cmd : Cmds, id : Nat]) /\ air \in Seq(STRING \ {"resp"})
    /\ Names
    /\ First(stack) => /\ wait.cmd = stack[1].cmd
                       /\ wait.done => wait.by = stack[1].id

-----------------------------------------------------------------------------
(* The worker's calls.                                                     *)

\* What the kind of a frame says of it.
LEMMA FrameKinds ==
    ASSUME NEW f \in Frame
    PROVE  /\ f.fn = "poll" => f \in PollFrames
           /\ f.fn = "send" => f \in SendFrames
           /\ f.fn \in KeyKinds => f \in KeyFrames
           /\ f.fn \in {"poll", "send"} \cup KeyKinds
BY DEF Frame, PollFrames, SendFrames, KeyFrames, KeyKinds

\* The phase of a call moves on.
LEMMA Phases ==
    /\ \A f \in SendFrames : \A ph \in {"poll", "check"} : \A n \in Nat :
          /\ [f EXCEPT !.ph = ph] \in SendFrames
          /\ [f EXCEPT !.ph = ph, !.left = n] \in SendFrames
    /\ \A f \in PollFrames : \A n \in 0 .. N - 1 : \A b \in 0 .. Pool :
          /\ [f EXCEPT !.ph = "restock", !.rb = b] \in PollFrames
          /\ [f EXCEPT !.ph = "next", !.i = n, !.rb = b] \in PollFrames
    /\ \A f \in KeyFrames : \A ph \in {"start", "ptk", "gtk"} :
          [f EXCEPT !.ph = ph] \in KeyFrames
BY DEF SendFrames, PollFrames, KeyFrames

\* What happens to a stack of calls.
Popped(s, t) == t = SubSeq(s, 1, Len(s) - 1)
Replaced(s, f, t) == t = Append(SubSeq(s, 1, Len(s) - 1), f)
Pushed(s, g, t) == t = Append(s, g)

\* A call returns.
LEMMA Pops ==
    ASSUME NEW s, Shape(s), s # << >>,
           NEW t, Popped(s, t)
    PROVE  /\ Shape(t) /\ Len(s) \in Nat \ {0} /\ Len(t) = Len(s) - 1
           /\ s[Len(s)] \in Frame
           /\ \A k \in 1 .. Len(s) - 1 : t[k] = s[k]
           /\ \A c : Holds(s, c) /\ s[Len(s)].fn # "send" => Holds(t, c)
<1>1. /\ Len(s) \in Nat \ {0} /\ DOMAIN s = 1 .. Len(s) /\ s[Len(s)] \in Frame
      /\ s \in Seq(Frame)
    BY DEF Shape
<1>2. /\ t \in Seq(Frame) /\ Len(t) = Len(s) - 1 /\ DOMAIN t = 1 .. Len(s) - 1
      /\ \A k \in 1 .. Len(s) - 1 : t[k] = s[k]
    BY <1>1 DEF Popped
<1>3. Shape(t)
    BY <1>1, <1>2 DEF Shape
<1>4. ASSUME NEW c, Holds(s, c), s[Len(s)].fn # "send"
      PROVE  Holds(t, c)
    <2>1. Len(s) # 1
        BY <1>4 DEF Holds
    <2>2. Len(t) > 0 /\ 1 \in 1 .. Len(s) - 1
        BY <1>1, <1>2, <2>1
    <2>3. t # << >>
        BY ONLY <1>2, <2>2
    <2> QED
        BY ONLY <1>1, <1>2, <1>4, <2>2, <2>3 DEF Holds
<1> QED
    BY <1>1, <1>2, <1>3, <1>4

\* The innermost call goes on.
LEMMA Replaces ==
    ASSUME NEW s, Shape(s), s # << >>,
           NEW f \in Frame, f.fn = s[Len(s)].fn,
           f.fn = "send" => f.cmd = s[Len(s)].cmd,
           NEW t, Replaced(s, f, t)
    PROVE  /\ Shape(t) /\ Len(s) \in Nat \ {0} /\ Len(t) = Len(s)
           /\ t[Len(s)] = f /\ t # << >>
           /\ \A k \in 1 .. Len(s) - 1 : t[k] = s[k]
           /\ \A c : Holds(s, c) => Holds(t, c)
<1>1. /\ Len(s) \in Nat \ {0} /\ DOMAIN s = 1 .. Len(s) /\ s \in Seq(Frame)
    BY DEF Shape
<1> DEFINE b == SubSeq(s, 1, Len(s) - 1)
<1>2. /\ b \in Seq(Frame) /\ Len(b) = Len(s) - 1
      /\ \A k \in 1 .. Len(s) - 1 : b[k] = s[k]
    BY <1>1
<1>3. t = Append(b, f)
    BY DEF Replaced
<1> HIDE DEF b
<1>4. /\ t \in Seq(Frame) /\ Len(t) = Len(s) /\ DOMAIN t = 1 .. Len(s)
      /\ t[Len(s)] = f /\ t # << >>
      /\ \A k \in 1 .. Len(s) - 1 : t[k] = s[k]
    <2>1. /\ t \in Seq(Frame) /\ Len(t) = Len(b) + 1 /\ t[Len(b) + 1] = f
          /\ \A k \in 1 .. Len(b) : t[k] = b[k]
        BY ONLY <1>2, <1>3, f \in Frame
    <2>2. Len(t) = Len(s) /\ DOMAIN t = 1 .. Len(s) /\ t[Len(s)] = f
        BY ONLY <1>1, <1>2, <2>1
    <2>3. t # << >>
        BY ONLY <1>1, <2>2
    <2> QED
        BY ONLY <1>1, <1>2, <2>1, <2>2, <2>3
<1>5. \A k \in DOMAIN s : /\ t[k].fn = s[k].fn
                          /\ s[k].fn = "send" => t[k].cmd = s[k].cmd
    <2>1. f.fn = s[Len(s)].fn /\ (f.fn = "send" => f.cmd = s[Len(s)].cmd)
        OBVIOUS
    <2> QED
        BY ONLY <1>1, <1>4, <2>1
<1>6. Shape(t)
    <2>1. Shape(s)
        OBVIOUS
    <2> QED
        BY ONLY <1>1, <1>4, <1>5, <2>1 DEF Shape
<1>7. \A c : Holds(s, c) => Holds(t, c)
    <2>1. 1 \in DOMAIN s
        BY ONLY <1>1
    <2> QED
        BY ONLY <1>1, <1>4, <1>5, <2>1 DEF Holds
<1> QED
    BY <1>1, <1>4, <1>6, <1>7

\* A call is made.
LEMMA Pushes ==
    ASSUME NEW s, Shape(s), NEW g \in Frame,
           g.fn \in KeyKinds => s # << >> /\ s[Len(s)].fn = "poll",
           g.fn = "send" /\ s # << >> => g.cmd = SecKey,
           NEW t, Pushed(s, g, t)
    PROVE  /\ Shape(t) /\ Len(s) \in Nat /\ Len(t) = Len(s) + 1
           /\ t[Len(t)] = g /\ t # << >>
           /\ \A k \in 1 .. Len(s) : t[k] = s[k]
           /\ \A c : Holds(s, c) /\ g.fn # "send" => Holds(t, c)
<1>1. /\ Len(s) \in Nat /\ DOMAIN s = 1 .. Len(s) /\ s \in Seq(Frame)
      /\ s # << >> <=> Len(s) > 0
    BY DEF Shape
<1>2. /\ t \in Seq(Frame) /\ Len(t) = Len(s) + 1 /\ DOMAIN t = 1 .. Len(s) + 1
      /\ t[Len(s) + 1] = g /\ t # << >>
      /\ \A k \in 1 .. Len(s) : t[k] = s[k]
    BY <1>1 DEF Pushed
<1>3. Shape(t)
    BY <1>1, <1>2 DEF Shape
<1>4. \A c : Holds(s, c) /\ g.fn # "send" => Holds(t, c)
    BY <1>1, <1>2 DEF Holds
<1> QED
    BY <1>1, <1>2, <1>3, <1>4

\* The command queue after the calls are back from a poll has room.
LEMMA RoomAtRest ==
    ASSUME StackInv, cmdq.rd = cmdq.wr
    PROVE  ~(CmdqFree < 2)
<1>1. cmdq.rd \in Int /\ CmdqSize \in Nat /\ CmdqSize > 2
    BY CmdqAssumption DEF StackInv
<1>2. cmdq.rd - cmdq.wr - 1 = -1
    BY <1>1
<1>3. (-1) % CmdqSize = CmdqSize - 1
    BY <1>1
<1> QED
    BY <1>1, <1>2, <1>3 DEF CmdqFree

\* What is on top of a stack of calls.
LEMMA TopFrame ==
    ASSUME StackInv, stack # << >>
    PROVE  /\ Top \in Frame /\ Len(stack) \in Nat \ {0}
           /\ Top = stack[Len(stack)] /\ Shape(stack)
           /\ Top.fn \in KeyKinds => Len(stack) > 1 /\ stack[Len(stack) - 1].fn = "poll"
<1>1. Shape(stack)
    BY DEF StackInv
<1>2. stack \in Seq(Frame) /\ Len(stack) \in Nat \ {0} /\ Len(stack) \in DOMAIN stack
    BY <1>1 DEF Shape
<1> QED
    BY <1>1, <1>2 DEF Top, Shape

\* A call of iwlm_trans_send_cmd, from the worker's loop or from a handler.
SendsOff(base, c) ==
    /\ Shape(stack') /\ sent' \in Nat
    /\ cmdq' \in [rd : 0 .. CmdqSize - 1, wr : 0 .. CmdqSize - 1]
    /\ wait'.cmd = c /\ ~wait'.done /\ IsSlot(wait')
    /\ \/ stack' = base /\ CmdqFree < 2 /\ ret' = "full"
       \/ /\ stack' # << >> /\ stack'[Len(stack')] = SendFrame(c)
          /\ Len(stack') = Len(base) + 1
          /\ \A k \in 1 .. Len(base) : stack'[k] = base[k]
          /\ SendFrame(c) \in SendFrames
          /\ sent' = sent + 1 /\ fwq' = Append(fwq, [cmd |-> c, id |-> sent + 1])

LEMMA SendsCmd ==
    ASSUME StackInv, NEW base, Shape(base), NEW c \in Cmds, SendCmd(base, c),
           base # << >> => c = SecKey
    PROVE  SendsOff(base, c)
<1>1. wait' = [done |-> FALSE, cmd |-> c, by |-> 0]
    BY DEF SendCmd
<1>2. IsSlot(wait')
    BY <1>1 DEF IsSlot
<1>3. CASE CmdqFree < 2 /\ stack' = base /\ UNCHANGED <<cmdq, sent>> /\ ret' = "full"
    BY <1>1, <1>2, <1>3 DEF StackInv, SendsOff
<1>4. CASE /\ cmdq' = [cmdq EXCEPT !.wr = (@ + 1) % CmdqSize]
           /\ sent' = sent + 1 /\ stack' = Append(base, SendFrame(c))
           /\ fwq' = Append(fwq, [cmd |-> c, id |-> sent + 1])
    <2>1. sent \in Nat /\ Tries \in Nat /\ CmdqSize \in Nat \ {0}
        BY CmdqAssumption DEF StackInv
    <2>2. SendFrame(c) \in SendFrames /\ SendFrame(c).fn = "send" /\ SendFrame(c).cmd = c
        BY <2>1 DEF SendFrame, SendFrames
    <2>3. SendFrame(c) \in Frame
        BY <2>2 DEF Frame
    <2>4. /\ Shape(stack') /\ stack' # << >> /\ stack'[Len(stack')] = SendFrame(c)
          /\ Len(stack') = Len(base) + 1
          /\ \A k \in 1 .. Len(base) : stack'[k] = base[k]
        <3> DEFINE g == SendFrame(c)
                   t == stack'
        <3>1. g.fn \notin KeyKinds
            BY <2>2 DEF KeyKinds
        <3>2. /\ Shape(base) /\ g \in Frame /\ Pushed(base, g, t)
              /\ g.fn = "send" /\ g.cmd = c /\ (base # << >> => c = SecKey)
            BY <1>4, <2>2, <2>3 DEF Pushed
        <3> HIDE DEF g, t
        <3>3. /\ Shape(t) /\ Len(t) = Len(base) + 1 /\ t[Len(t)] = g /\ t # << >>
              /\ \A k \in 1 .. Len(base) : t[k] = base[k]
            BY ONLY <3>1, <3>2, Pushes
        <3> QED
            BY <3>3 DEF g, t
    <2>5. cmdq' \in [rd : 0 .. CmdqSize - 1, wr : 0 .. CmdqSize - 1]
        <3>1. cmdq \in [rd : 0 .. CmdqSize - 1, wr : 0 .. CmdqSize - 1]
            BY DEF StackInv
        <3>2. (cmdq.wr + 1) % CmdqSize \in 0 .. CmdqSize - 1
            BY <2>1, <3>1
        <3> QED
            BY <1>4, <3>1, <3>2
    <2> QED
        BY <1>1, <1>2, <1>4, <2>1, <2>2, <2>4, <2>5 DEF SendsOff
<1> QED
    BY <1>3, <1>4 DEF SendCmd

\* The frame of a handler that goes on.
LEMMA KeyResumes ==
    ASSUME StackInv, stack # << >>, Top.fn \in KeyKinds,
           NEW ph \in {"start", "ptk", "gtk"}
    PROVE  /\ Shape(Resume(ph)) /\ Resume(ph) # << >>
           /\ Resume(ph)[Len(Resume(ph))].fn \in KeyKinds
           /\ Len(Resume(ph)) = Len(stack)
           /\ \A c : Holds(stack, c) => Holds(Resume(ph), c)
<1> DEFINE f == [Top EXCEPT !.ph = ph]
           t == Resume(ph)
<1>1. Top \in Frame /\ Top = stack[Len(stack)] /\ Shape(stack) /\ stack # << >>
    BY TopFrame
<1>2. Top \in KeyFrames
    BY <1>1, FrameKinds
<1>3. f \in KeyFrames /\ f.fn = Top.fn
    BY <1>2, Phases DEF KeyFrames
<1>4. f \in Frame /\ f.fn # "send"
    BY <1>3 DEF Frame, KeyFrames, KeyKinds
<1>5. Replaced(stack, f, t)
    BY DEF Resume, Below, Replaced
<1> HIDE DEF f, t
<1>6. /\ Shape(t) /\ Len(t) = Len(stack) /\ t[Len(stack)] = f /\ t # << >>
      /\ \A c : Holds(stack, c) => Holds(t, c)
    BY ONLY <1>1, <1>3, <1>4, <1>5, Replaces
<1>7. t[Len(t)].fn \in KeyKinds
    BY <1>3, <1>6
<1> QED
    BY <1>6, <1>7 DEF t

\* The types of what a step leaves alone.
LEMMA Untouched ==
    ASSUME StackInv
    PROVE  /\ read \in 0 .. N - 1 /\ stts \in 0 .. N - 1
           /\ sent \in Nat /\ pos \in Nat \ {0}
           /\ cmdq \in [rd : 0 .. CmdqSize - 1, wr : 0 .. CmdqSize - 1]
           /\ IsSlot(wait)
BY DEF StackInv

\* A call of the worker's returns.
LEMMA CallPops ==
    ASSUME StackInv, stack # << >>, stack' = Below
    PROVE  /\ Shape(stack') /\ Len(stack') = Len(stack) - 1
           /\ \A k \in 1 .. Len(stack) - 1 : stack'[k] = stack[k]
           /\ \A c : Holds(stack, c) /\ Top.fn # "send" => Holds(stack', c)
           /\ Top.fn \in KeyKinds =>
                 stack' # << >> /\ stack'[Len(stack')].fn = "poll"
<1> DEFINE t == stack'
<1>1. /\ Popped(stack, t) /\ Shape(stack) /\ stack # << >>
      /\ Top = stack[Len(stack)]
      /\ Top.fn \in KeyKinds => Len(stack) > 1 /\ stack[Len(stack) - 1].fn = "poll"
    BY TopFrame DEF Popped, Below
<1> HIDE DEF t
<1>2. /\ Shape(t) /\ Len(stack) \in Nat \ {0} /\ Len(t) = Len(stack) - 1
      /\ \A k \in 1 .. Len(stack) - 1 : t[k] = stack[k]
      /\ \A c : Holds(stack, c) /\ Top.fn # "send" => Holds(t, c)
    BY ONLY <1>1, Pops
<1>3. Top.fn \in KeyKinds => t # << >> /\ t[Len(t)].fn = "poll"
    <2> SUFFICES ASSUME Top.fn \in KeyKinds
                 PROVE  t # << >> /\ t[Len(t)].fn = "poll"
        OBVIOUS
    <2>1. Len(t) > 0 /\ Len(t) \in 1 .. Len(stack) - 1
        BY <1>1, <1>2
    <2> QED
        BY ONLY <1>1, <1>2, <2>1, Top.fn \in KeyKinds
<1> QED
    BY <1>2, <1>3 DEF t

\* The innermost call of the worker's goes on.
GoesOn(f, t) == t = Append(Below, f)

LEMMA CallGoesOn ==
    ASSUME StackInv, stack # << >>, NEW f \in Frame, f.fn = Top.fn,
           f.fn = "send" => f.cmd = Top.cmd,
           NEW t, GoesOn(f, t)
    PROVE  /\ Shape(t) /\ Len(t) = Len(stack) /\ t # << >> /\ t[Len(t)] = f
           /\ Len(stack) \in Nat \ {0}
           /\ \A k \in 1 .. Len(stack) - 1 : t[k] = stack[k]
           /\ \A c : Holds(stack, c) => Holds(t, c)
<1>1. /\ Replaced(stack, f, t) /\ Shape(stack) /\ stack # << >> /\ f \in Frame
      /\ f.fn = stack[Len(stack)].fn /\ (f.fn = "send" => f.cmd = stack[Len(stack)].cmd)
    BY TopFrame DEF Replaced, Below, GoesOn
<1>2. /\ Shape(t) /\ Len(t) = Len(stack) /\ t # << >> /\ t[Len(stack)] = f
      /\ Len(stack) \in Nat \ {0}
      /\ \A k \in 1 .. Len(stack) - 1 : t[k] = stack[k]
      /\ \A c : Holds(stack, c) => Holds(t, c)
    BY ONLY <1>1, Replaces
<1> QED
    BY ONLY <1>2

\* iwlm_trans_send_cmd polls.
LEMMA SendPolls ==
    ASSUME StackInv, SlotInv, SendPoll
    PROVE  /\ StackInv' /\ SlotInv'
           /\ Len(stack') = Len(stack) + 1 /\ stack'[Len(stack) + 1] = PollFrame
           /\ \A k \in 1 .. Len(stack) - 1 : stack'[k] = stack[k]
           /\ stack'[Len(stack)] = [Top EXCEPT !.ph = "check"]
           /\ Len(stack) \in Nat \ {0}
<1> DEFINE f == [Top EXCEPT !.ph = "check"]
           r == Resume("check")
           g == PollFrame
           t == stack'
<1>1. Top \in SendFrames /\ stack # << >>
    BY TopFrame, FrameKinds DEF SendPoll, Running
<1>2. f \in SendFrames /\ f.fn = "send" /\ f.cmd = Top.cmd
    BY <1>1, Phases DEF SendFrames
<1>3. f \in Frame /\ f.fn = Top.fn
    BY <1>1, <1>2 DEF Frame, SendFrames
<1>4. GoesOn(f, r)
    BY DEF Resume, GoesOn
<1>5. g \in PollFrames /\ g.fn = "poll" /\ g.ph = "next"
    BY RingAssumption DEF PollFrame, PollFrames, StackInv
<1>6. g \in Frame
    BY <1>5 DEF Frame
<1>7. Pushed(r, g, t)
    BY DEF SendPoll, Pushed
<1>8. StackInv /\ stack # << >>
    BY <1>1
<1> HIDE DEF f, r, g, t
<1>9. /\ Shape(r) /\ Len(r) = Len(stack) /\ r # << >> /\ r[Len(r)] = f
      /\ Len(stack) \in Nat \ {0}
      /\ \A k \in 1 .. Len(stack) - 1 : r[k] = stack[k]
      /\ \A c : Holds(stack, c) => Holds(r, c)
    BY ONLY <1>2, <1>3, <1>4, <1>8, CallGoesOn
<1>10. g.fn \notin KeyKinds
    BY ONLY <1>5 DEF KeyKinds
<1>11. /\ Shape(t) /\ Len(t) = Len(r) + 1 /\ t[Len(t)] = g /\ t # << >>
       /\ \A k \in 1 .. Len(r) : t[k] = r[k]
       /\ \A c : Holds(r, c) => Holds(t, c)
    BY ONLY <1>5, <1>6, <1>7, <1>9, <1>10, Pushes
<1>12. UNCHANGED <<read, stts, sent, pos, cmdq, wait>>
    BY DEF SendPoll, ringvars, cmdvars
<1>13. stack' # << >> /\ Top'.fn = "poll" /\ Shape(stack')
    BY <1>5, <1>11 DEF t, Top
<1>14. StackInv'
    BY <1>12, <1>13, Untouched DEF StackInv, Running
<1>15. SlotInv'
    <2>1. \A c : Holds(stack, c) => Holds(stack', c)
        BY <1>9, <1>11 DEF t
    <2> QED
        BY <2>1, <1>12 DEF SlotInv
<1>16. /\ Len(t) = Len(stack) + 1 /\ t[Len(stack) + 1] = g
       /\ \A k \in 1 .. Len(stack) - 1 : t[k] = stack[k]
       /\ t[Len(stack)] = f
    BY ONLY <1>9, <1>11
<1> QED
    BY <1>9, <1>14, <1>15, <1>16 DEF f, g, t

\* iwlm_trans_send_cmd looks at its slot: it returns, or it polls again.
LEMMA SendReturns ==
    ASSUME StackInv, SlotInv, SendDone \/ SendTimeout
    PROVE  /\ StackInv' /\ SlotInv'
           /\ Len(stack') = Len(stack) - 1 /\ Len(stack) \in Nat \ {0}
           /\ \A k \in 1 .. Len(stack) - 1 : stack'[k] = stack[k]
<1>1. /\ Running("send", "check") /\ stack # << >> /\ stack' = Below
      /\ UNCHANGED <<read, stts, sent, pos, cmdq>>
      /\ (wait' = wait /\ wait.done) \/ wait' = [wait EXCEPT !.cmd = NoCmd]
    BY DEF SendDone, SendTimeout, Running, ringvars, cmdvars
<1>2. /\ Shape(stack') /\ Len(stack') = Len(stack) - 1 /\ Len(stack) \in Nat \ {0}
      /\ \A k \in 1 .. Len(stack) - 1 : stack'[k] = stack[k]
    BY <1>1, CallPops, TopFrame
<1>3. cmdq.rd = cmdq.wr
    BY <1>1 DEF StackInv
<1>4. IsSlot(wait')
    BY <1>1, Untouched DEF IsSlot
<1>5. StackInv'
    BY <1>1, <1>2, <1>3, <1>4, Untouched DEF StackInv
<1>6. wait'.done \/ wait'.cmd = NoCmd
    BY <1>1, Untouched DEF IsSlot
<1> QED
    BY <1>2, <1>5, <1>6 DEF SlotInv

LEMMA SendsAgain ==
    ASSUME StackInv, SlotInv, SendAgain
    PROVE  /\ StackInv' /\ SlotInv'
           /\ Len(stack') = Len(stack) /\ Len(stack) \in Nat \ {0}
           /\ stack'[Len(stack)].fn = "send" /\ stack'[Len(stack)].ph = "poll"
           /\ stack'[Len(stack)].cmd = Top.cmd /\ stack'[Len(stack)].id = Top.id
           /\ \A k \in 1 .. Len(stack) - 1 : stack'[k] = stack[k]
<1> DEFINE f == [Top EXCEPT !.ph = "poll", !.left = @ - 1]
           t == stack'
<1>1. Top \in SendFrames /\ stack # << >> /\ Top.left > 1
    BY TopFrame, FrameKinds DEF SendAgain, Running
<1>2. Top.left - 1 \in Nat
    BY <1>1 DEF SendFrames
<1>3. f \in SendFrames /\ f.fn = "send" /\ f.cmd = Top.cmd /\ f.id = Top.id /\ f.ph = "poll"
    BY <1>1, <1>2, Phases DEF SendFrames
<1>4. f \in Frame /\ f.fn = Top.fn
    BY <1>1, <1>3 DEF Frame, SendFrames
<1>5. GoesOn(f, t)
    BY DEF SendAgain, GoesOn
<1>6. StackInv /\ stack # << >>
    BY <1>1
<1> HIDE DEF f, t
<1>7. /\ Shape(t) /\ Len(t) = Len(stack) /\ t # << >> /\ t[Len(t)] = f
      /\ Len(stack) \in Nat \ {0}
      /\ \A k \in 1 .. Len(stack) - 1 : t[k] = stack[k]
      /\ \A c : Holds(stack, c) => Holds(t, c)
    BY ONLY <1>3, <1>4, <1>5, <1>6, CallGoesOn
<1>8. UNCHANGED <<read, stts, sent, pos, cmdq, wait>>
    BY DEF SendAgain, ringvars, cmdvars
<1>9. stack' # << >> /\ Top'.ph = "poll" /\ Shape(stack')
    BY <1>3, <1>7 DEF t, Top
<1>10. StackInv'
    BY <1>8, <1>9, Untouched DEF StackInv, Running
<1>11. SlotInv'
    BY <1>7, <1>8 DEF SlotInv, t
<1> QED
    BY <1>3, <1>7, <1>10, <1>11 DEF t

\* The poll goes on after a packet: its buffer is put back.
LEMMA PollGoesOn ==
    ASSUME StackInv, SlotInv, PollRestock
    PROVE  /\ StackInv' /\ SlotInv'
           /\ Len(stack') = Len(stack) /\ Len(stack) \in Nat \ {0}
           /\ Top \in PollFrames
           /\ stack'[Len(stack)] = [Top EXCEPT !.ph = "next", !.i = (@ + 1) % N, !.rb = 0]
           /\ \A k \in 1 .. Len(stack) - 1 : stack'[k] = stack[k]
<1> DEFINE f == [Top EXCEPT !.ph = "next", !.i = (@ + 1) % N, !.rb = 0]
           t == stack'
<1>1. Top \in PollFrames /\ stack # << >>
    BY TopFrame, FrameKinds DEF PollRestock, Running
<1>2. (Top.i + 1) % N \in 0 .. N - 1 /\ 0 \in 0 .. Pool
    BY <1>1, RingAssumption DEF PollFrames
<1>3. f \in PollFrames /\ f.fn = "poll"
    BY <1>1, <1>2, Phases DEF PollFrames
<1>4. f \in Frame /\ f.fn = Top.fn
    BY <1>1, <1>3 DEF Frame, PollFrames
<1>5. GoesOn(f, t)
    BY DEF PollRestock, GoesOn
<1>6. StackInv /\ stack # << >>
    BY <1>1
<1> HIDE DEF f, t
<1>7. /\ Shape(t) /\ Len(t) = Len(stack) /\ t # << >> /\ t[Len(t)] = f
      /\ Len(stack) \in Nat \ {0}
      /\ \A k \in 1 .. Len(stack) - 1 : t[k] = stack[k]
      /\ \A c : Holds(stack, c) => Holds(t, c)
    BY ONLY <1>3, <1>4, <1>5, <1>6, CallGoesOn
<1>8. UNCHANGED <<read, stts, sent, pos, cmdq, wait>>
    BY DEF PollRestock, cmdvars
<1>9. stack' # << >> /\ Top'.fn = "poll" /\ Shape(stack')
    BY <1>3, <1>7 DEF t, Top
<1>10. StackInv'
    BY <1>8, <1>9, Untouched DEF StackInv, Running
<1>11. SlotInv'
    BY <1>7, <1>8 DEF SlotInv, t
<1> QED
    BY <1>1, <1>7, <1>10, <1>11 DEF f, t

\* The poll ends, and reclaims the command queue.
LEMMA PollReturns ==
    ASSUME StackInv, SlotInv, PollReturn
    PROVE  /\ StackInv' /\ SlotInv'
           /\ Len(stack') = Len(stack) - 1 /\ Len(stack) \in Nat \ {0}
           /\ Top \in PollFrames
           /\ \A k \in 1 .. Len(stack) - 1 : stack'[k] = stack[k]
<1>1. /\ stack # << >> /\ stack' = Below /\ Top.fn = "poll"
      /\ UNCHANGED <<stts, sent, pos, wait>>
      /\ read' = Top.i /\ cmdq' = [cmdq EXCEPT !.rd = cmdq.wr]
    BY DEF PollReturn, Running, ringvars
<1>2. Top \in PollFrames
    BY <1>1, TopFrame, FrameKinds
<1>3. read' \in 0 .. N - 1
    BY <1>1, <1>2 DEF PollFrames
<1>4. cmdq' \in [rd : 0 .. CmdqSize - 1, wr : 0 .. CmdqSize - 1] /\ cmdq'.rd = cmdq'.wr
    BY <1>1, Untouched
<1>5. /\ Shape(stack') /\ Len(stack') = Len(stack) - 1 /\ Len(stack) \in Nat \ {0}
      /\ \A k \in 1 .. Len(stack) - 1 : stack'[k] = stack[k]
      /\ \A c : Holds(stack, c) => Holds(stack', c)
    BY <1>1, CallPops, TopFrame
<1>6. StackInv'
    BY <1>1, <1>3, <1>4, <1>5, Untouched DEF StackInv
<1>7. SlotInv'
    BY <1>1, <1>5 DEF SlotInv
<1> QED
    BY <1>2, <1>5, <1>6, <1>7

\* A packet is handed to its handler; a key message's handler then runs.
LEMMA Dispatches ==
    ASSUME StackInv, SlotInv, UsedInv, PollDispatch
    PROVE  /\ StackInv' /\ SlotInv'
           /\ Len(stack) \in Nat \ {0} /\ Top \in PollFrames
           /\ stack'[Len(stack)] = [Top EXCEPT !.ph = "restock", !.rb = used[Top.i]]
           /\ \A k \in 1 .. Len(stack) - 1 : stack'[k] = stack[k]
           /\ \/ Len(stack') = Len(stack)
              \/ Len(stack') = Len(stack) + 1 /\ RunsHandler(buf[used[Top.i]])
<1> DEFINE f == [Top EXCEPT !.ph = "restock", !.rb = used[Top.i]]
           r == Dispatched
           t == stack'
           p == buf[used[Top.i]]
           g == [fn |-> p.kind, ph |-> "start"]
<1>1. Top \in PollFrames /\ stack # << >>
    BY TopFrame, FrameKinds DEF PollDispatch, Running
<1>u. used[Top.i] \in 0 .. Pool
    BY <1>1 DEF UsedInv, PollFrames
<1>2. f \in PollFrames /\ f.fn = "poll"
    BY <1>1, <1>u, Phases DEF PollFrames
<1>3. f \in Frame /\ f.fn = Top.fn
    BY <1>1, <1>2 DEF Frame, PollFrames
<1>4. GoesOn(f, r)
    BY DEF Dispatched, GoesOn
<1>5. StackInv /\ stack # << >>
    BY <1>1
<1>6. HandleAnswer(p) \/ HandleEapol(p) \/ HandlePlain(p)
    BY DEF PollDispatch
<1>7. UNCHANGED <<read, stts, sent, pos, cmdq>>
    BY DEF PollDispatch, ringvars
<1> HIDE DEF f, r, t, p
<1>8. /\ Shape(r) /\ Len(r) = Len(stack) /\ r # << >> /\ r[Len(r)] = f
      /\ Len(stack) \in Nat \ {0}
      /\ \A k \in 1 .. Len(stack) - 1 : r[k] = stack[k]
      /\ \A c : Holds(stack, c) => Holds(r, c)
    BY ONLY <1>2, <1>3, <1>4, <1>5, CallGoesOn
<1>9. \/ t = r /\ wait' = [wait EXCEPT !.done = TRUE, !.by = p.id]
      \/ t = r /\ wait' = wait
      \/ Pushed(r, g, t) /\ wait' = wait /\ RunsHandler(p)
    BY <1>6 DEF HandleAnswer, HandleEapol, HandlePlain, Pushed, r, t
<1>10. IsSlot(wait') /\ (wait' = wait \/ wait'.done)
    BY <1>9, Untouched DEF IsSlot
<1>11. CASE t = r
    <2>1. stack' # << >> /\ Top'.fn = "poll" /\ Shape(stack')
        BY <1>2, <1>8, <1>11 DEF t, Top
    <2>2. StackInv'
        BY <1>7, <1>10, <2>1, Untouched DEF StackInv, Running
    <2>3. SlotInv'
        BY <1>8, <1>10, <1>11 DEF SlotInv, t
    <2> QED
        BY <1>1, <1>8, <1>11, <2>2, <2>3 DEF t, f
<1>12. CASE Pushed(r, g, t) /\ wait' = wait /\ RunsHandler(p)
    <2>1. g.fn \in KeyKinds /\ g \in KeyFrames /\ g \in Frame /\ g.fn # "send"
        BY <1>12 DEF RunsHandler, KeyKinds, KeyFrames, Frame
    <2>2. Pushed(r, g, t) /\ Shape(r) /\ r # << >> /\ r[Len(r)].fn = "poll"
        BY <1>2, <1>8, <1>12
    <2> HIDE DEF g
    <2>3. /\ Shape(t) /\ Len(t) = Len(r) + 1 /\ t[Len(t)] = g /\ t # << >>
          /\ \A k \in 1 .. Len(r) : t[k] = r[k]
          /\ \A c : Holds(r, c) => Holds(t, c)
        BY ONLY <2>1, <2>2, Pushes
    <2>4. stack' # << >> /\ Top'.fn # "send" /\ Shape(stack')
        BY <2>1, <2>3 DEF t, Top
    <2>5. StackInv'
        BY <1>7, <1>10, <2>4, Untouched DEF StackInv, Running
    <2>6. SlotInv'
        BY <1>8, <1>12, <2>3 DEF SlotInv, t
    <2>7. /\ Len(t) = Len(stack) + 1 /\ t[Len(stack)] = f
          /\ \A k \in 1 .. Len(stack) - 1 : t[k] = stack[k]
        BY ONLY <1>8, <2>3
    <2> QED
        BY <1>1, <1>8, <1>12, <2>5, <2>6, <2>7 DEF t, f, p
<1> QED
    BY <1>9, <1>11, <1>12

\* A handler sends a key command, or ends.
LEMMA HandlerSends ==
    ASSUME StackInv, SlotInv, Msg3Ptk \/ Msg3Gtk \/ GroupGtk
    PROVE  StackInv' /\ SlotInv'
<1>1. /\ stack # << >> /\ Top.fn \in KeyKinds
      /\ \E ph \in {"start", "ptk", "gtk"} : SendCmd(Resume(ph), SecKey)
      /\ UNCHANGED <<read, stts, pos>>
    BY DEF Msg3Ptk, Msg3Gtk, GroupGtk, Running, KeyKinds, ringvars
<1>2. PICK ph \in {"start", "ptk", "gtk"} : SendCmd(Resume(ph), SecKey)
    BY <1>1
<1> DEFINE r == Resume(ph)
<1>3. Shape(r) /\ r # << >> /\ r[Len(r)].fn \in KeyKinds
    BY <1>1, KeyResumes
<1>4. SecKey \in Cmds /\ SendCmd(r, SecKey)
    BY <1>2 DEF Cmds
<1> HIDE DEF r
<1>5. SendsOff(r, SecKey)
    BY <1>3, <1>4, SendsCmd
<1>6. stack' # << >> /\ ~(Top'.fn = "send" /\ Top'.ph = "check")
    BY <1>3, <1>5 DEF Top, SendFrame, KeyKinds, SendsOff
<1>7. StackInv'
    BY <1>1, <1>5, <1>6, Untouched DEF StackInv, Running, SendsOff
<1> QED
    BY <1>5, <1>7 DEF SlotInv, SendsOff

LEMMA HandlerReturns ==
    ASSUME StackInv, SlotInv, Msg3Failed \/ Msg3Connected \/ GroupDone
    PROVE  StackInv' /\ SlotInv'
<1>1. /\ stack # << >> /\ Top.fn \in KeyKinds /\ Top.fn # "send" /\ stack' = Below
      /\ UNCHANGED <<read, stts, sent, pos, cmdq, wait>>
    BY DEF Msg3Failed, Msg3Connected, GroupDone, Running, KeyKinds, ringvars, cmdvars
<1>2. /\ Shape(stack') /\ stack' # << >> /\ Top'.fn = "poll"
      /\ \A c : Holds(stack, c) => Holds(stack', c)
    BY <1>1, CallPops DEF Top
<1>3. StackInv'
    BY <1>1, <1>2, Untouched DEF StackInv, Running
<1> QED
    BY <1>1, <1>2, <1>3 DEF SlotInv

\* The worker's loop calls the poll, or sends a command.
LEMMA WorkerCalls ==
    ASSUME StackInv, SlotInv, WorkerPoll \/ WorkerCmd
    PROVE  /\ StackInv' /\ SlotInv' /\ stack = << >> /\ Len(stack') = 1
           /\ WorkerPoll => stack'[1] = PollFrame
           /\ WorkerCmd => /\ pos \in DOMAIN Script /\ stack'[1] = SendFrame(Script[pos])
                           /\ SendsOff(<< >>, Script[pos])
<1>1. CASE WorkerPoll
    <2>1. /\ stack = << >> /\ stack' = <<PollFrame>>
          /\ UNCHANGED <<read, stts, sent, pos, cmdq, wait>>
        BY <1>1 DEF WorkerPoll, ringvars, cmdvars
    <2>2. PollFrame \in Frame /\ PollFrame.fn = "poll"
        BY RingAssumption DEF PollFrame, PollFrames, Frame, StackInv
    <2>3. /\ stack' \in Seq(Frame) /\ Len(stack') = 1 /\ stack'[1] = PollFrame
          /\ DOMAIN stack' = {1} /\ stack' # << >>
        BY <2>1, <2>2
    <2>4. Shape(stack') /\ Top'.fn = "poll"
        BY <2>2, <2>3 DEF Shape, KeyKinds, Top
    <2>5. StackInv'
        BY <2>1, <2>3, <2>4, Untouched DEF StackInv, Running
    <2>6. SlotInv'
        BY <2>1 DEF SlotInv, Holds
    <2>7. ~WorkerCmd
        BY <2>1, Untouched DEF WorkerCmd
    <2> QED
        BY <2>1, <2>3, <2>5, <2>6, <2>7
<1>2. CASE WorkerCmd
    <2> DEFINE c == Script[pos]
    <2>1. /\ stack = << >> /\ pos \in DOMAIN Script /\ SendCmd(<< >>, c)
          /\ pos' = pos + 1 /\ pos \in Nat \ {0} /\ UNCHANGED <<read, stts>>
        BY <1>2, ScriptAssumption DEF WorkerCmd, ringvars, StackInv
    <2>2. c \in Cmds
        BY <2>1 DEF Cmds, Range
    <2>3. Shape(<< >>)
        BY DEF Shape
    <2> HIDE DEF c
    <2>4. SendsOff(<< >>, c)
        BY <2>1, <2>2, <2>3, SendsCmd
    <2>5. ~(CmdqFree < 2)
        <3>1. cmdq.rd = cmdq.wr
            BY <2>1 DEF StackInv
        <3> QED
            BY <3>1, RoomAtRest
    <2>6. /\ stack' # << >> /\ stack'[Len(stack')] = SendFrame(c)
          /\ Len(stack') = 1 /\ wait'.cmd = c /\ ~wait'.done
        BY <2>4, <2>5 DEF SendsOff
    <2>7. stack'[1].fn = "send" /\ stack'[1].ph = "poll" /\ stack'[1].cmd = c
        BY <2>6 DEF SendFrame
    <2>8. StackInv'
        BY <2>1, <2>4, <2>6, <2>7, Untouched DEF StackInv, Running, Top, SendsOff
    <2>9. SlotInv'
        <3>1. stack' \in Seq(Frame)
            BY <2>4 DEF SendsOff, Shape
        <3>2. \A k \in DOMAIN stack' : ~(k > 1)
            BY ONLY <2>6, <3>1
        <3>3. Holds(stack', c)
            BY ONLY <2>6, <2>7, <3>2 DEF Holds
        <3> QED
            BY <2>6, <3>3 DEF SlotInv
    <2>10. ~WorkerPoll
        BY <2>1 DEF WorkerPoll
    <2> QED
        BY <2>1, <2>4, <2>6, <2>8, <2>9, <2>10 DEF c
<1> QED
    BY <1>1, <1>2

\* The device completes a packet.
LEMMA DeviceStacks ==
    ASSUME StackInv, SlotInv, FwAnswer \/ AirFrame
    PROVE  StackInv' /\ SlotInv'
<1>1. /\ UNCHANGED <<read, sent, pos, cmdq, wait, stack>>
      /\ stts' = (stts + 1) % N
    BY DEF FwAnswer, AirFrame, Deliver, cmdvars
<1>2. stts' \in 0 .. N - 1
    BY <1>1, RingAssumption, Untouched
<1> QED
    BY <1>1, <1>2 DEF StackInv, SlotInv, Running, Top

LEMMA HeadAndTail ==
    ASSUME NEW S, NEW s \in Seq(S), s # << >>
    PROVE  Head(s) \in S /\ Tail(s) \in Seq(S)
OBVIOUS

\* What is posted, completed and put back.
LEMMA NextUsed ==
    ASSUME StackInv, UsedInv, [Next]_vars
    PROVE  UsedInv'
<1>1. CASE UNCHANGED <<free, stocked, used>>
    BY <1>1 DEF UsedInv
<1>2. CASE FwAnswer \/ AirFrame
    <2>1. /\ free # << >> /\ free' = Tail(free) /\ UNCHANGED stocked
          /\ used' = [used EXCEPT ![stts] = Head(free)]
        BY <1>2 DEF FwAnswer, AirFrame, Deliver
    <2>2. Head(free) \in 0 .. Pool /\ Tail(free) \in Seq(0 .. Pool)
        <3>1. free # << >> /\ free \in Seq(0 .. Pool)
            BY <2>1 DEF UsedInv
        <3> QED
            BY ONLY <3>1, HeadAndTail
    <2> QED
        BY <2>1, <2>2 DEF UsedInv
<1>3. CASE PollRestock
    <2>1. Top \in PollFrames /\ UNCHANGED used /\ Restock(Top.rb)
        BY <1>3, TopFrame, FrameKinds DEF PollRestock, Running
    <2>2. PICK b \in 0 .. Pool : b = Top.rb
        BY <2>1 DEF PollFrames
    <2>3. Restock(b)
        BY <2>1, <2>2
    <2>4. free' \in Seq(0 .. Pool) /\ stocked' \in Seq(0 .. Pool)
        <3>1. Append(stocked, b) \in Seq(0 .. Pool) /\ << >> \in Seq(0 .. Pool)
            BY DEF UsedInv
        <3>2. free \o Append(stocked, b) \in Seq(0 .. Pool)
            BY <3>1 DEF UsedInv
        <3> QED
            BY <2>3, <3>1, <3>2 DEF Restock, UsedInv
    <2> QED
        BY <2>1, <2>4 DEF UsedInv
<1>4. CASE WorkerPoll \/ WorkerCmd \/ SendPoll \/ SendDone \/ SendAgain \/ SendTimeout
           \/ PollDispatch \/ PollReturn
    BY <1>1, <1>4 DEF WorkerPoll, WorkerCmd, SendPoll, SendDone, SendAgain, SendTimeout,
       PollDispatch, PollReturn, ringvars
<1>5. CASE Msg3Ptk \/ Msg3Gtk \/ Msg3Failed \/ Msg3Connected \/ GroupGtk \/ GroupDone
    BY <1>1, <1>5 DEF Msg3Ptk, Msg3Gtk, Msg3Failed, Msg3Connected, GroupGtk, GroupDone,
       ringvars
<1>6. CASE UNCHANGED vars
    BY <1>1, <1>6 DEF vars, ringvars
<1> QED
    BY <1>2, <1>3, <1>4, <1>5, <1>6 DEF Next, Worker

LEMMA NextStack ==
    ASSUME StackInv, SlotInv, UsedInv, [Next]_vars
    PROVE  StackInv' /\ SlotInv'
<1>1. CASE Worker
    BY <1>1, WorkerCalls, SendPolls, SendReturns, SendsAgain, Dispatches, PollGoesOn,
       PollReturns, HandlerSends, HandlerReturns DEF Worker
<1>2. CASE UNCHANGED vars
    BY <1>2 DEF vars, ringvars, cmdvars, StackInv, SlotInv, Running, Top
<1> QED
    BY <1>1, <1>2, DeviceStacks DEF Next

LEMMA InitStack ==
    ASSUME Init
    PROVE  StackInv /\ SlotInv /\ UsedInv
<1>1. /\ stack = << >> /\ read = 0 /\ stts = 0 /\ sent = 0 /\ pos = 1
      /\ cmdq = [rd |-> 0, wr |-> 0]
      /\ wait = [done |-> FALSE, cmd |-> NoCmd, by |-> 0]
    BY DEF Init
<1>2. Shape(<< >>)
    BY DEF Shape
<1>3. StackInv /\ SlotInv
    BY <1>1, <1>2, RingAssumption, CmdqAssumption
    DEF StackInv, SlotInv, IsSlot, Running
<1>4. UsedInv
    <2>1. /\ free = [b \in 1 .. Pool |-> b] /\ stocked = << >>
          /\ used = [i \in 0 .. N - 1 |-> 0] /\ Pool \in Nat
        BY RingAssumption DEF Init, Buffers
    <2> QED
        BY <2>1 DEF UsedInv
<1> QED
    BY <1>3, <1>4

(***************************************************************************)
(* A slot that names a response buffer belongs to the innermost call of    *)
(* iwlm_trans_send_cmd: the code's buffer is never written after its call  *)
(* is over, for any script of commands, any traffic and any nesting.       *)
(***************************************************************************)
THEOREM RspBufferLiveHolds == Spec => []RspBufferLive
<1>1. StackInv /\ SlotInv => RspBufferLive
    <2> SUFFICES ASSUME StackInv, SlotInv,
                        wait.cmd \notin {NoCmd, SecKey}, ~wait.done
                 PROVE  \E k \in Sends :
                           stack[k].cmd = wait.cmd /\ \A j \in Sends : j <= k
        BY DEF RspBufferLive
    <2>1. Holds(stack, wait.cmd) /\ stack \in Seq(Frame)
        BY DEF SlotInv, StackInv, Shape
    <2>2. 1 \in DOMAIN stack
        BY <2>1 DEF Holds
    <2> QED
        BY <2>1, <2>2 DEF Holds, Sends
<1>2. StackInv /\ SlotInv /\ UsedInv /\ [Next]_vars
        => StackInv' /\ SlotInv' /\ UsedInv'
    BY NextStack, NextUsed
<1> QED
    BY InitStack, <1>1, <1>2, PTL DEF Spec

-----------------------------------------------------------------------------
(* Indices of the ring.                                                    *)

LEMMA Quotient ==
    ASSUME NEW n \in Nat \ {0}, NEW a \in Nat
    PROVE  /\ a \div n \in Nat /\ a % n \in 0 .. n - 1
           /\ a = (a \div n) * n + (a % n)
OBVIOUS

\* A number below n that is left over by whole laps is the rest.
LEMMA RestIs ==
    ASSUME NEW n \in Nat \ {0}, NEW a \in Nat, NEW q \in Nat, NEW r \in 0 .. n - 1,
           a = q * n + r
    PROVE  a % n = r
<1> DEFINE p == a \div n
           s == a % n
<1>1. p \in Nat /\ s \in 0 .. n - 1 /\ a = p * n + s
    BY Quotient
<1> HIDE DEF p, s
<1>2. (q - p) * n = s - r
    BY <1>1
<1>3. q - p < 1 /\ q - p > -1
    BY <1>1, <1>2
<1>4. q = p
    BY <1>1, <1>3
<1> QED
    BY <1>1, <1>4 DEF s

LEMMA NextRest ==
    ASSUME NEW a \in Nat
    PROVE  ((a % N) + 1) % N = (a + 1) % N
<1> DEFINE q == a \div N
           r == a % N
<1>1. q \in Nat /\ r \in 0 .. N - 1 /\ a = q * N + r /\ N \in Nat \ {0}
    BY Quotient, RingAssumption
<1> HIDE DEF q, r
<1>2. CASE r + 1 < N
    <2>1. r + 1 \in 0 .. N - 1 /\ a + 1 = q * N + (r + 1) /\ r + 1 = 0 * N + (r + 1)
        BY <1>1, <1>2
    <2>2. (a + 1) % N = r + 1
        BY <1>1, <2>1, RestIs
    <2>3. (r + 1) % N = r + 1
        BY <1>1, <2>1, RestIs
    <2> QED
        BY <2>2, <2>3 DEF r
<1>3. CASE r + 1 = N
    <2>1. 0 \in 0 .. N - 1 /\ a + 1 = (q + 1) * N + 0 /\ r + 1 = 1 * N + 0
        BY <1>1, <1>3
    <2>2. (a + 1) % N = 0
        BY <1>1, <2>1, RestIs
    <2>3. (r + 1) % N = 0
        BY <1>1, <2>1, RestIs
    <2> QED
        BY <2>2, <2>3 DEF r
<1> QED
    BY <1>1, <1>2, <1>3

LEMMA RestsApart ==
    ASSUME NEW a \in Nat, NEW b \in Nat, a < b, b - a < N
    PROVE  a % N # b % N
<1> DEFINE q == a \div N
           r == a % N
           p == b \div N
           s == b % N
<1>1. q \in Nat /\ r \in 0 .. N - 1 /\ a = q * N + r /\ N \in Nat \ {0}
    BY Quotient, RingAssumption
<1>2. p \in Nat /\ s \in 0 .. N - 1 /\ b = p * N + s
    BY Quotient, RingAssumption
<1> HIDE DEF q, r, p, s
<1>3. ASSUME r = s PROVE FALSE
    <2>1. b - a = (p - q) * N /\ p - q \in Int
        BY <1>1, <1>2, <1>3
    <2>2. p - q > 0
        BY <1>1, <2>1
    <2>3. (p - q) * N >= N
        BY <1>1, <2>1, <2>2
    <2> QED
        BY <1>1, <2>1, <2>3
<1> QED
    BY <1>3 DEF r, s

\* Two packets less than a ring apart have their own entries.
Near(j, k) == j \in Nat \ {0} /\ k \in Nat \ {0} /\ j < k /\ k - j < N

LEMMA SlotsApart ==
    ASSUME NEW j, NEW k, Near(j, k)
    PROVE  Slot(j) # Slot(k) /\ Slot(j) \in 0 .. N - 1 /\ Slot(k) \in 0 .. N - 1
<1>1. j - 1 \in Nat /\ k - 1 \in Nat /\ j - 1 < k - 1 /\ (k - 1) - (j - 1) < N
    BY RingAssumption DEF Near
<1>2. (j - 1) % N # (k - 1) % N
    BY ONLY <1>1, RestsApart
<1> QED
    BY <1>1, <1>2, RingAssumption DEF Slot

-----------------------------------------------------------------------------
(* The ring.                                                               *)

LEMMA Joined ==
    ASSUME NEW S, NEW u \in Seq(S), NEW v \in Seq(S)
    PROVE  /\ u \o v \in Seq(S) /\ Len(u) \in Nat /\ Len(v) \in Nat
           /\ Len(u \o v) = Len(u) + Len(v)
           /\ \A k \in 1 .. Len(u) : (u \o v)[k] = u[k]
           /\ \A k \in 1 .. Len(v) : (u \o v)[Len(u) + k] = v[k]
OBVIOUS

LEMMA PostedIs ==
    ASSUME free \in Seq(Buffers), stocked \in Seq(Buffers)
    PROVE  /\ Posted \in Seq(Buffers) /\ Len(free) \in Nat /\ Len(stocked) \in Nat
           /\ Len(Posted) = Len(free) + Len(stocked)
           /\ DOMAIN Posted = 1 .. Len(free) + Len(stocked)
           /\ \A k \in 1 .. Len(free) : Posted[k] = free[k]
           /\ \A k \in 1 .. Len(stocked) : Posted[Len(free) + k] = stocked[k]
BY DEF Posted

\* The device takes the first free buffer.
LEMMA PostedTail ==
    ASSUME free \in Seq(Buffers), stocked \in Seq(Buffers), free # << >>,
           free' = Tail(free), stocked' = stocked
    PROVE  /\ free' \in Seq(Buffers) /\ Len(free) \in Nat \ {0}
           /\ Len(free') = Len(free) - 1
           /\ Head(free) = Posted[1] /\ Posted[1] \in Buffers
           /\ \A k \in 1 .. Len(free) + Len(stocked) - 1 : Posted'[k] = Posted[k + 1]
<1>1. /\ free' \in Seq(Buffers) /\ Len(free) \in Nat \ {0}
      /\ Len(free') = Len(free) - 1 /\ Head(free) = free[1] /\ free[1] \in Buffers
      /\ \A k \in 1 .. Len(free) - 1 : free'[k] = free[k + 1]
    OBVIOUS
<1>2. Head(free) = Posted[1] /\ Posted[1] \in Buffers
    BY <1>1, PostedIs
<1>3. ASSUME NEW k \in 1 .. Len(free) + Len(stocked) - 1
      PROVE  Posted'[k] = Posted[k + 1]
    <2>1. Posted' = free' \o stocked
        BY DEF Posted
    <2>2. CASE k < Len(free)
        BY <1>1, <1>3, <2>1, <2>2, PostedIs
    <2>3. CASE k >= Len(free)
        <3>1. k - Len(free') \in 1 .. Len(stocked) /\ k - Len(free') = k + 1 - Len(free)
            BY <1>1, <1>3, <2>3
        <3>2. Posted'[k] = stocked[k - Len(free')]
            BY <1>1, <2>1, <3>1
        <3>3. Posted[k + 1] = stocked[k + 1 - Len(free)]
            BY <1>1, <3>1, PostedIs
        <3> QED
            BY <3>1, <3>2, <3>3
    <2> QED
        BY <1>1, <1>3, <2>2, <2>3
<1> QED
    BY <1>1, <1>2, <1>3

\* A buffer is put back at the end, with or without the doorbell.
LEMMA PostedMore ==
    ASSUME free \in Seq(Buffers), stocked \in Seq(Buffers), NEW b \in Buffers,
           Restock(b)
    PROVE  /\ free' \in Seq(Buffers) /\ stocked' \in Seq(Buffers)
           /\ Len(free') + Len(stocked') = Len(free) + Len(stocked) + 1
           /\ Posted'[Len(free) + Len(stocked) + 1] = b
           /\ \A k \in 1 .. Len(free) + Len(stocked) : Posted'[k] = Posted[k]
<1> DEFINE n == Len(free) + Len(stocked)
<1>1. CASE free' = free \o Append(stocked, b) /\ stocked' = << >>
    <2> DEFINE s == Append(stocked, b)
    <2>1. /\ s \in Seq(Buffers) /\ Len(s) = Len(stocked) + 1 /\ s[Len(stocked) + 1] = b
          /\ \A k \in 1 .. Len(stocked) : s[k] = stocked[k]
        OBVIOUS
    <2>2. free' = free \o s /\ stocked' = << >>
        BY <1>1
    <2> HIDE DEF s
    <2>3. /\ free' \in Seq(Buffers) /\ Len(free') = n + 1 /\ free'[n + 1] = b
          /\ \A k \in 1 .. n : free'[k] = Posted[k]
        <3> DEFINE t == free'
                   u == Posted
        <3>1. /\ t = free \o s /\ u = free \o stocked
              /\ free \in Seq(Buffers) /\ stocked \in Seq(Buffers)
            BY <2>2 DEF Posted
        <3> HIDE DEF t, u
        <3>2. t \in Seq(Buffers) /\ Len(t) = n + 1
            <4>1. Len(free) \in Nat /\ Len(stocked) \in Nat
                BY ONLY <3>1
            <4>2. free \o s \in Seq(Buffers) /\ Len(free \o s) = Len(free) + Len(s)
                BY <2>1, Joined
            <4>3. t \in Seq(Buffers) /\ Len(t) = Len(free) + Len(s)
                BY <3>1, <4>2
            <4> QED
                BY ONLY <2>1, <4>1, <4>2, <4>3
        <3>3. t[n + 1] = s[Len(stocked) + 1]
            <4>1. n + 1 = Len(free) + Len(s) /\ Len(s) = Len(stocked) + 1
                BY ONLY <2>1, <3>1
            <4>2. t[Len(free) + Len(s)] = s[Len(s)]
                BY ONLY <2>1, <3>1
            <4> QED
                BY ONLY <4>1, <4>2
        <3>4. ASSUME NEW k \in 1 .. n PROVE t[k] = u[k]
            <4>1. CASE k <= Len(free)
                BY ONLY <2>1, <3>1, <4>1, k \in 1 .. n
            <4>2. CASE k > Len(free)
                <5>1. k - Len(free) \in 1 .. Len(stocked)
                    BY ONLY <3>1, <4>2, k \in 1 .. n
                <5>2. t[k] = s[k - Len(free)] /\ u[k] = stocked[k - Len(free)]
                    BY ONLY <2>1, <3>1, <4>2, <5>1, k \in 1 .. n
                <5> QED
                    BY ONLY <2>1, <5>1, <5>2
            <4> QED
                BY <4>1, <4>2
        <3> QED
            BY <2>1, <3>2, <3>3, <3>4 DEF t, u
    <2>4. Posted' = free'
        <3>1. Posted' = free' \o << >>
            BY <2>2 DEF Posted
        <3> QED
            BY <2>3, <3>1
    <2> QED
        BY <2>2, <2>3, <2>4
<1>2. CASE stocked' = Append(stocked, b) /\ free' = free
    <2>1. /\ stocked' \in Seq(Buffers) /\ Len(stocked') = Len(stocked) + 1
          /\ stocked'[Len(stocked) + 1] = b
          /\ \A k \in 1 .. Len(stocked) : stocked'[k] = stocked[k]
        BY <1>2
    <2>2. Posted' = free \o stocked' /\ Posted = free \o stocked /\ free' = free
        BY <1>2 DEF Posted
    <2>3. Posted'[n + 1] = b /\ \A k \in 1 .. n : Posted'[k] = Posted[k]
        <3>1. Posted'[n + 1] = stocked'[Len(stocked) + 1]
            BY <2>1, <2>2
        <3> DEFINE t == Posted'
                   u == Posted
                   s == stocked'
        <3>2. /\ t = free \o s /\ u = free \o stocked
              /\ free \in Seq(Buffers) /\ stocked \in Seq(Buffers)
              /\ s \in Seq(Buffers) /\ Len(s) = Len(stocked) + 1
              /\ \A k \in 1 .. Len(stocked) : s[k] = stocked[k]
            BY <2>1, <2>2
        <3> HIDE DEF t, u, s
        <3>3. ASSUME NEW k \in 1 .. n PROVE t[k] = u[k]
            <4>1. CASE k <= Len(free)
                BY ONLY <3>2, <4>1, k \in 1 .. n
            <4>2. CASE k > Len(free)
                <5>1. k - Len(free) \in 1 .. Len(stocked)
                    BY ONLY <3>2, <4>2, k \in 1 .. n
                <5>2. t[k] = s[k - Len(free)] /\ u[k] = stocked[k - Len(free)]
                    BY ONLY <3>2, <4>2, <5>1, k \in 1 .. n
                <5> QED
                    BY ONLY <3>2, <5>1, <5>2
            <4> QED
                BY <4>1, <4>2
        <3> QED
            BY <2>1, <3>1, <3>3 DEF t, u
    <2> QED
        BY <2>1, <2>2, <2>3
<1> QED
    BY <1>1, <1>2 DEF Restock

\* What the ring says of the packets still on it.
LEMMA RingFacts ==
    ASSUME NEW d, Ring(d)
    PROVE  /\ d \in Nat /\ npkts \in Nat /\ d <= npkts
           /\ Len(free) \in Nat /\ Len(stocked) \in Nat
           /\ npkts + Len(free) + Len(stocked) = d + Pool
           /\ npkts - d <= Pool /\ Pool <= N /\ N \in Nat \ {0} /\ Pool \in Nat \ {0}
           /\ \A k \in d + 1 .. npkts : At(k) = used[Slot(k)]
           /\ \A k \in npkts + 1 .. d + Pool : At(k) = Posted[k - npkts]
<1>1. /\ d \in Nat /\ npkts \in Nat /\ d <= npkts
      /\ Len(free) \in Nat /\ Len(stocked) \in Nat
      /\ npkts - d + Len(free) + Len(stocked) = Pool
    BY DEF Ring
<1>2. Pool <= N /\ N \in Nat \ {0} /\ Pool \in Nat \ {0}
    BY RingAssumption
<1> QED
    BY <1>1, <1>2 DEF At

\* A packet is delivered: its buffer was the first of those not yet filled.
LEMMA RingDelivers ==
    ASSUME NEW d, Ring(d), NEW p, p.n = npkts + 1, Deliver(p)
    PROVE  /\ Ring(d)'
           /\ \A k \in d + 1 .. npkts :
                 /\ used'[Slot(k)] = used[Slot(k)]
                 /\ buf'[used'[Slot(k)]] = buf[used[Slot(k)]]
           /\ buf'[used'[Slot(npkts + 1)]] = p
<1> DEFINE b == Head(free)
<1>1. /\ free \in Seq(Buffers) /\ stocked \in Seq(Buffers) /\ free # << >>
      /\ free' = Tail(free) /\ stocked' = stocked
      /\ DOMAIN used = 0 .. N - 1 /\ DOMAIN buf = Buffers
      /\ buf' = [buf EXCEPT ![b] = p] /\ used' = [used EXCEPT ![stts] = b]
      /\ stts = npkts % N /\ stts' = (stts + 1) % N /\ npkts' = npkts + 1
    BY DEF Ring, Deliver
<1>2. /\ free' \in Seq(Buffers) /\ Len(free) \in Nat \ {0}
      /\ Len(free') = Len(free) - 1
      /\ b = Posted[1] /\ b \in Buffers
      /\ \A k \in 1 .. Len(free) + Len(stocked) - 1 : Posted'[k] = Posted[k + 1]
    BY <1>1, PostedTail
<1>3. /\ d \in Nat /\ npkts \in Nat /\ d <= npkts
      /\ Len(free) \in Nat /\ Len(stocked) \in Nat
      /\ npkts + Len(free) + Len(stocked) = d + Pool
      /\ npkts - d <= Pool /\ Pool <= N /\ N \in Nat \ {0} /\ Pool \in Nat \ {0}
      /\ \A k \in d + 1 .. npkts : At(k) = used[Slot(k)]
      /\ \A k \in npkts + 1 .. d + Pool : At(k) = Posted[k - npkts]
    BY RingFacts
<1>a. /\ d \in Nat /\ npkts \in Nat /\ d <= npkts /\ Pool \in Nat /\ Pool <= N /\ N \in Nat
      /\ Len(free) \in Nat \ {0} /\ Len(stocked) \in Nat /\ Len(free') = Len(free) - 1
      /\ npkts + Len(free) + Len(stocked) = d + Pool
    BY <1>2, <1>3
<1>4. /\ \A k \in d + 1 .. npkts : used[Slot(k)] \in Buffers /\ buf[used[Slot(k)]].n = k
      /\ \A j, k \in d + 1 .. d + Pool : At(j) = At(k) => j = k
    BY DEF Ring
<1> HIDE DEF b
<1>5. stts = Slot(npkts + 1) /\ stts \in 0 .. N - 1
    BY <1>1, <1>3 DEF Slot
<1>6. npkts + 1 \in d + 1 .. d + Pool /\ At(npkts + 1) = b
    <2>1. npkts + 1 \in npkts + 1 .. d + Pool /\ npkts + 1 - npkts = 1
        BY <1>2, <1>3
    <2> QED
        BY <1>2, <1>3, <2>1
<1>7. \A k \in d + 1 .. npkts : used'[Slot(k)] = used[Slot(k)]
    <2> SUFFICES ASSUME NEW k \in d + 1 .. npkts
                 PROVE  used'[Slot(k)] = used[Slot(k)]
        OBVIOUS
    <2>1. k \in Nat \ {0} /\ npkts + 1 \in Nat \ {0} /\ k < npkts + 1 /\ npkts + 1 - k < N
        BY ONLY <1>a, k \in d + 1 .. npkts
    <2> DEFINE m == npkts + 1
    <2>2. m = npkts + 1
        OBVIOUS
    <2> HIDE DEF m
    <2>3. Near(k, m)
        BY ONLY <1>a, <2>1, <2>2 DEF Near
    <2>4. Slot(k) # Slot(m) /\ Slot(k) \in 0 .. N - 1
        BY ONLY <2>3, SlotsApart
    <2>5. Slot(k) # stts /\ Slot(k) \in 0 .. N - 1
        BY ONLY <1>5, <2>2, <2>4
    <2> QED
        BY <1>1, <2>5
<1>8. used'[Slot(npkts + 1)] = b
    BY <1>1, <1>5
<1>9. \A k \in d + 1 .. d + Pool : At(k)' = At(k)
    <2> SUFFICES ASSUME NEW k \in d + 1 .. d + Pool
                 PROVE  At(k)' = At(k)
        OBVIOUS
    <2>1. At(k)' = IF k <= npkts + 1 THEN used'[Slot(k)] ELSE Posted'[k - (npkts + 1)]
        <3>1. At(k)' = IF k <= npkts' THEN used'[Slot(k)] ELSE Posted'[k - npkts']
            BY DEF At, Slot
        <3>2. npkts' = npkts + 1
            BY <1>1
        <3> QED
            BY ONLY <3>1, <3>2
    <2>2. CASE k <= npkts
        <3>1. k \in d + 1 .. npkts /\ k <= npkts + 1
            BY ONLY <1>a, <2>2, k \in d + 1 .. d + Pool
        <3>2. At(k) = used[Slot(k)] /\ used'[Slot(k)] = used[Slot(k)]
            BY <1>3, <1>7, <3>1
        <3> QED
            BY ONLY <2>1, <3>1, <3>2
    <2>3. CASE k = npkts + 1
        <3>1. k <= npkts + 1
            BY ONLY <1>a, <2>3
        <3> QED
            BY ONLY <1>6, <1>8, <2>1, <2>3, <3>1
    <2>4. CASE k > npkts + 1
        <3>1. /\ k - (npkts + 1) \in 1 .. Len(free) + Len(stocked) - 1
              /\ k - (npkts + 1) + 1 = k - npkts /\ k \in npkts + 1 .. d + Pool
              /\ ~(k <= npkts + 1)
            BY ONLY <1>a, <2>4, k \in d + 1 .. d + Pool
        <3>2. At(k) = Posted[k - npkts]
            BY <1>3, <3>1
        <3>3. Posted'[k - (npkts + 1)] = Posted[k - npkts]
            BY <1>2, <3>1
        <3> QED
            BY ONLY <2>1, <3>1, <3>2, <3>3
    <2>5. k <= npkts \/ k = npkts + 1 \/ k > npkts + 1
        BY ONLY <1>a, k \in d + 1 .. d + Pool
    <2> QED
        BY ONLY <2>2, <2>3, <2>4, <2>5
<1>10. \A k \in d + 1 .. npkts + 1 :
          /\ used'[Slot(k)] \in Buffers /\ buf'[used'[Slot(k)]].n = k
          /\ k # npkts + 1 => buf'[used'[Slot(k)]] = buf[used[Slot(k)]]
    <2> SUFFICES ASSUME NEW k \in d + 1 .. npkts + 1
                 PROVE  /\ used'[Slot(k)] \in Buffers /\ buf'[used'[Slot(k)]].n = k
                        /\ k # npkts + 1 => buf'[used'[Slot(k)]] = buf[used[Slot(k)]]
        OBVIOUS
    <2>1. CASE k = npkts + 1
        BY <1>1, <1>2, <1>8, <2>1
    <2>2. CASE k # npkts + 1
        <3>1. k \in d + 1 .. npkts /\ k \in d + 1 .. d + Pool
            BY ONLY <1>a, <2>2, k \in d + 1 .. npkts + 1
        <3>2. used'[Slot(k)] = used[Slot(k)] /\ used[Slot(k)] = At(k)
            BY <1>3, <1>7, <3>1
        <3>3. used[Slot(k)] # b
            BY <1>4, <1>6, <2>2, <3>1, <3>2
        <3> QED
            BY <1>1, <1>4, <3>1, <3>2, <3>3
    <2> QED
        BY <2>1, <2>2
<1>11. stts' = npkts' % N
    BY <1>1, <1>3, NextRest
<1>12. npkts' - d + Len(free') + Len(stocked') = Pool /\ d \in 0 .. npkts' /\ npkts' \in Nat
    <2>1. npkts' = npkts + 1 /\ stocked' = stocked
        BY <1>1
    <2> QED
        BY ONLY <1>a, <2>1
<1>13. DOMAIN used' = 0 .. N - 1 /\ DOMAIN buf' = Buffers
    BY <1>1
<1>14. \A j, k \in d + 1 .. d + Pool : At(j)' = At(k)' => j = k
    BY <1>4, <1>9
<1>15. /\ free' \in Seq(Buffers) /\ stocked' \in Seq(Buffers) /\ npkts' = npkts + 1
       /\ \A k \in d + 1 .. npkts' :
             used'[Slot(k)] \in Buffers /\ buf'[used'[Slot(k)]].n = k
    BY <1>1, <1>2, <1>10
<1>16. Ring(d)'
    BY <1>11, <1>12, <1>13, <1>14, <1>15 DEF Ring, Slot
<1>17. buf'[used'[Slot(npkts + 1)]] = p
    BY <1>1, <1>2, <1>8
<1>18. \A k \in d + 1 .. npkts : buf'[used'[Slot(k)]] = buf[used[Slot(k)]]
    <2> SUFFICES ASSUME NEW k \in d + 1 .. npkts
                 PROVE  k \in d + 1 .. npkts + 1 /\ k # npkts + 1
        BY <1>10
    <2> QED
        BY ONLY <1>a, k \in d + 1 .. npkts
<1> QED
    BY <1>7, <1>16, <1>17, <1>18

\* A buffer is put back: its turn comes after all others.
LEMMA RingRestocks ==
    ASSUME NEW d, Ring(d), d + 1 <= npkts, Restock(used[Slot(d + 1)]),
           UNCHANGED <<buf, used, stts, npkts>>
    PROVE  Ring(d + 1)'
<1> DEFINE b == used[Slot(d + 1)]
           e == d + 1
<1>1. /\ d \in Nat /\ npkts \in Nat /\ d <= npkts
      /\ Len(free) \in Nat /\ Len(stocked) \in Nat
      /\ npkts + Len(free) + Len(stocked) = d + Pool
      /\ npkts - d <= Pool /\ Pool <= N /\ N \in Nat \ {0} /\ Pool \in Nat \ {0}
      /\ \A k \in d + 1 .. npkts : At(k) = used[Slot(k)]
      /\ \A k \in npkts + 1 .. d + Pool : At(k) = Posted[k - npkts]
    BY RingFacts
<1>a. /\ d \in Nat /\ npkts \in Nat /\ d + 1 <= npkts /\ Pool \in Nat \ {0}
      /\ Len(free) \in Nat /\ Len(stocked) \in Nat
      /\ npkts + Len(free) + Len(stocked) = d + Pool
    BY <1>1
<1>2. /\ \A k \in d + 1 .. npkts : used[Slot(k)] \in Buffers /\ buf[used[Slot(k)]].n = k
      /\ \A j, k \in d + 1 .. d + Pool : At(j) = At(k) => j = k
      /\ free \in Seq(Buffers) /\ stocked \in Seq(Buffers)
    BY DEF Ring
<1>3. e = d + 1 /\ e \in d + 1 .. npkts /\ e \in d + 1 .. d + Pool
    BY ONLY <1>a
<1>4. b \in Buffers /\ At(e) = b /\ Restock(b)
    BY <1>1, <1>2, <1>3
<1> HIDE DEF b, e
<1>5. /\ free' \in Seq(Buffers) /\ stocked' \in Seq(Buffers)
      /\ Len(free') + Len(stocked') = Len(free) + Len(stocked) + 1
      /\ Posted'[Len(free) + Len(stocked) + 1] = b
      /\ \A k \in 1 .. Len(free) + Len(stocked) : Posted'[k] = Posted[k]
    BY <1>2, <1>4, PostedMore
<1>6. \A k : At(k)' = IF k <= npkts THEN used[Slot(k)] ELSE Posted'[k - npkts]
    BY DEF At, Slot
<1>7. \A k \in e + 1 .. d + Pool : At(k)' = At(k)
    <2> SUFFICES ASSUME NEW k \in e + 1 .. d + Pool
                 PROVE  At(k)' = At(k)
        OBVIOUS
    <2>1. CASE k <= npkts
        <3>1. k \in d + 1 .. npkts
            BY ONLY <1>a, <1>3, <2>1, k \in e + 1 .. d + Pool
        <3> QED
            BY <1>1, <1>6, <2>1, <3>1
    <2>2. CASE ~(k <= npkts)
        <3>1. k \in npkts + 1 .. d + Pool /\ k - npkts \in 1 .. Len(free) + Len(stocked)
            BY ONLY <1>a, <1>3, <2>2, k \in e + 1 .. d + Pool
        <3> QED
            BY <1>1, <1>5, <1>6, <2>2, <3>1
    <2> QED
        BY <2>1, <2>2
<1>8. ASSUME NEW m, m = e + Pool
      PROVE  At(m)' = At(e)
    <2>1. ~(m <= npkts) /\ m - npkts = Len(free) + Len(stocked) + 1
        BY ONLY <1>a, <1>3, <1>8
    <2>2. At(m)' = Posted'[m - npkts]
        BY <2>1 DEF At
    <2> QED
        BY <1>4, <1>5, <2>1, <2>2
<1>9. ASSUME NEW j \in e + 1 .. e + Pool, NEW k \in e + 1 .. e + Pool, At(j)' = At(k)'
      PROVE  j = k
    <2> DEFINE Old(m) == IF m = e + Pool THEN e ELSE m
    <2>1. \A m \in e + 1 .. e + Pool : At(m)' = At(Old(m)) /\ Old(m) \in d + 1 .. d + Pool
        <3> SUFFICES ASSUME NEW m \in e + 1 .. e + Pool
                     PROVE  At(m)' = At(Old(m)) /\ Old(m) \in d + 1 .. d + Pool
            OBVIOUS
        <3>1. CASE m = e + Pool
            BY <1>3, <1>8, <3>1
        <3>2. CASE m # e + Pool
            <4>1. m \in e + 1 .. d + Pool /\ m \in d + 1 .. d + Pool
                BY ONLY <1>a, <1>3, <3>2, m \in e + 1 .. e + Pool
            <4> QED
                BY <1>7, <3>2, <4>1
        <3> QED
            BY <3>1, <3>2
    <2>2. /\ At(j)' = At(Old(j)) /\ Old(j) \in d + 1 .. d + Pool
          /\ At(k)' = At(Old(k)) /\ Old(k) \in d + 1 .. d + Pool
        BY <2>1
    <2>3. Old(j) = Old(k)
        <3> HIDE DEF Old
        <3> QED
            BY <1>2, <1>9, <2>2
    <2> QED
        BY ONLY <1>a, <1>3, <2>3, j \in e + 1 .. e + Pool, k \in e + 1 .. e + Pool
<1>10. npkts - e + Len(free') + Len(stocked') = Pool /\ e \in 0 .. npkts
    <2>1. Len(free') \in Nat /\ Len(stocked') \in Nat
        BY ONLY <1>5
    <2>2. Len(free') + Len(stocked') = Len(free) + Len(stocked) + 1
        BY <1>5
    <2> QED
        BY ONLY <1>a, <1>3, <2>1, <2>2
<1>11. \A k \in e + 1 .. npkts : used[Slot(k)] \in Buffers /\ buf[used[Slot(k)]].n = k
    <2> SUFFICES ASSUME NEW k \in e + 1 .. npkts
                 PROVE  k \in d + 1 .. npkts
        BY <1>2
    <2> QED
        BY ONLY <1>a, <1>3, k \in e + 1 .. npkts
<1>12. DOMAIN used = 0 .. N - 1 /\ DOMAIN buf = Buffers /\ npkts \in Nat /\ stts = npkts % N
    BY DEF Ring
<1>13. Ring(e)'
    BY <1>5, <1>9, <1>10, <1>11, <1>12 DEF Ring, Slot
<1> QED
    BY <1>13 DEF e
=============================================================================
