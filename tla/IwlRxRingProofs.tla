-------------------------- MODULE IwlRxRingProofs --------------------------
(***************************************************************************)
(* The receive ring and the answers as long as no handler sends commands   *)
(* from inside a poll: packets in order, buffers on the free ring once,    *)
(* commands answered by their own answers.                                 *)
(***************************************************************************)
EXTENDS IwlRxProofs

LEMMA RingSame ==
    ASSUME NEW d, Ring(d), UNCHANGED <<free, stocked, buf, used, stts, npkts>>
    PROVE  Ring(d)'
BY DEF Ring, At, Posted, Slot

LEMMA RingMoves ==
    ASSUME NEW d, Ring(d)', Restocked' = d
    PROVE  Ring(Restocked)'
BY DEF Ring

-----------------------------------------------------------------------------
(* Packets in order, and one call of the poll at a time.                   *)

Polling == stack # << >> /\ Top.fn = "poll"

\* A stack of calls when no handler runs.
Low(s) ==
    \/ s = << >>
    \/ Len(s) = 1 /\ s[1].fn \in {"poll", "send"}
    \/ Len(s) = 2 /\ s[1].fn = "send" /\ s[2].fn = "poll"

FlatAll == StackInv /\ SlotInv /\ UsedInv /\ FlatInv /\ RingInv /\ PlaceInv

LEMMA RestockedIs ==
    /\ Polling /\ Top.ph = "restock" => Restocked = Len(log) - 1
    /\ ~(Polling /\ Top.ph = "restock") => Restocked = Len(log)
BY DEF Restocked, Running, Polling

\* Calls of iwlm_trans_send_cmd outside of the poll: the ring rests.
LEMMA FlatQuiet ==
    ASSUME FlatInv, RingInv, PlaceInv, ~Polling, ~Polling', Low(stack'),
           UNCHANGED <<ringvars, read, log, state>>
    PROVE  FlatInv' /\ RingInv' /\ PlaceInv'
<1>1. UNCHANGED <<free, stocked, buf, used, stts, npkts, air, read, log, state>>
    BY DEF ringvars
<1>2. Restocked = Len(log) /\ Restocked' = Len(log)
    BY <1>1 DEF Restocked, Running, Polling
<1>d. PICK d : d = Len(log)
    OBVIOUS
<1>3. Ring(d)
    BY <1>2, <1>d DEF RingInv
<1>4. Ring(d)'
    BY <1>1, <1>3, RingSame
<1>5. RingInv'
    <2>1. Ring(Restocked)'
        BY <1>2, <1>4, <1>d, RingMoves
    <2> QED
        BY <1>1, <2>1 DEF RingInv, InOrderOnce
<1>6. FlatInv'
    BY <1>1 DEF FlatInv, NoKeys, Low
<1>7. PlaceInv'
    BY <1>1 DEF PlaceInv, Polling
<1> QED
    BY <1>5, <1>6, <1>7

\* The poll is called.
LEMMA FlatEnters ==
    ASSUME StackInv, FlatInv, RingInv, PlaceInv, ~Polling, Polling', Top' = PollFrame,
           Low(stack'), UNCHANGED <<ringvars, read, log, state>>
    PROVE  FlatInv' /\ RingInv' /\ PlaceInv'
<1>1. UNCHANGED <<free, stocked, buf, used, stts, npkts, air, read, log, state>>
    BY DEF ringvars
<1>2. Top'.ph = "next" /\ Top'.i = read /\ Top'.r = stts
    BY DEF PollFrame
<1>3. Restocked = Len(log) /\ Restocked' = Len(log)
    BY <1>1, <1>2 DEF Restocked, Running, Polling
<1>d. PICK d : d = Len(log)
    OBVIOUS
<1>4. Ring(d) /\ d <= npkts /\ d \in Nat
    BY <1>3, <1>d DEF RingInv
<1>5. Ring(d)'
    BY <1>1, <1>4, RingSame
<1>6. RingInv'
    <2>1. Ring(Restocked)'
        BY <1>3, <1>5, <1>d, RingMoves
    <2> QED
        BY <1>1, <2>1 DEF RingInv, InOrderOnce
<1>7. FlatInv'
    BY <1>1 DEF FlatInv, NoKeys, Low
<1>8. PlaceInv'
    <2>1. read = d % N
        BY <1>d DEF PlaceInv, Polling
    <2>2. npkts \in d .. npkts /\ stts = npkts % N
        BY <1>4 DEF Ring
    <2> QED
        BY <1>1, <1>2, <1>d, <2>1, <2>2 DEF PlaceInv, Polling
<1> QED
    BY <1>6, <1>7, <1>8

\* The device completes a packet.
LEMMA FlatDelivers ==
    ASSUME FlatInv, RingInv, PlaceInv, FwAnswer \/ AirFrame
    PROVE  FlatInv' /\ RingInv' /\ PlaceInv'
<1>1. UNCHANGED <<stack, log, read, state>>
    BY DEF FwAnswer, AirFrame, assocvars
<1>2. \E p : /\ p.n = npkts + 1 /\ Deliver(p)
             /\ \/ p.kind = "resp" /\ air' = air
                \/ air # << >> /\ p.kind = Head(air) /\ air' = Tail(air)
    <2>1. CASE FwAnswer
        BY <2>1 DEF FwAnswer
    <2>2. CASE AirFrame
        BY <2>2 DEF AirFrame
    <2> QED
        BY <2>1, <2>2
<1>3. PICK p : /\ p.n = npkts + 1 /\ Deliver(p)
               /\ \/ p.kind = "resp" /\ air' = air
                  \/ air # << >> /\ p.kind = Head(air) /\ air' = Tail(air)
    BY <1>2
<1>4. Restocked' = Restocked
    BY <1>1 DEF Restocked, Running, Top
<1>5. PICK d : d = Restocked
    OBVIOUS
<1>6. Ring(d)
    BY <1>5 DEF RingInv
<1>7. Ring(d)' /\ \A k \in d + 1 .. npkts : used'[Slot(k)] = used[Slot(k)]
    BY <1>3, <1>6, RingDelivers
<1>8. npkts' = npkts + 1 /\ npkts \in Nat /\ Len(log) \in Nat /\ Len(log) <= npkts
    BY <1>3 DEF Deliver, RingInv, Ring
<1>9. RingInv'
    <2>1. Ring(Restocked)'
        BY <1>4, <1>5, <1>7, RingMoves
    <2>2. Len(log)' <= npkts' /\ log' \in Seq(Nat) /\ InOrderOnce'
        BY <1>1, <1>8 DEF InOrderOnce, RingInv
    <2> QED
        BY <2>1, <2>2 DEF RingInv
<1>10. FlatInv'
    <2>1. NoKeys'
        <3>1. CASE state = "FW_LOADED"
            BY <1>1, <3>1 DEF NoKeys
        <3>2. CASE /\ \A k \in DOMAIN air : air[k] \notin KeyKinds
                   /\ \A b \in Buffers : buf[b].kind \notin KeyKinds
            <4>1. air \in Seq(Range(Air))
                BY DEF FlatInv
            <4>2. /\ \A k \in DOMAIN air' : air'[k] \notin KeyKinds
                  /\ p.kind \notin KeyKinds
                BY <1>3, <3>2, <4>1 DEF KeyKinds
            <4>3. buf' = [buf EXCEPT ![Head(free)] = p] /\ DOMAIN buf = Buffers
                BY <1>3, <1>6 DEF Deliver, Ring
            <4>4. \A b \in Buffers : buf'[b].kind \notin KeyKinds
                BY <3>2, <4>2, <4>3
            <4> QED
                BY <4>2, <4>4 DEF NoKeys
        <3> QED
            BY <3>1, <3>2 DEF FlatInv, NoKeys
    <2>2. air' \in Seq(Range(Air))
        BY <1>3 DEF FlatInv
    <2> QED
        BY <1>1, <2>1, <2>2 DEF FlatInv
<1>11. PlaceInv'
    <2>1. CASE Polling
        <3>1. /\ Top.i = (IF Top.ph = "restock" THEN Len(log) - 1 ELSE Len(log)) % N
              /\ \E m \in Len(log) .. npkts : Top.r = m % N
              /\ Top.ph = "restock" => Top.rb = used[Top.i]
            BY <2>1 DEF PlaceInv, Polling
        <3>2. \E m \in Len(log) .. npkts' : Top.r = m % N
            BY <1>8, <3>1
        <3>3. ASSUME Top.ph = "restock" PROVE Top.rb = used'[Top.i]
            <4>1. d = Len(log) - 1 /\ Top.i = (Len(log) - 1) % N /\ d \in Nat
                BY <1>5, <1>6, <2>1, <3>1, <3>3, RestockedIs DEF Ring
            <4>2. d + 1 \in d + 1 .. npkts /\ d + 1 - 1 = d
                BY <1>8, <4>1
            <4>3. Top.i = Slot(d + 1)
                BY <4>1, <4>2 DEF Slot
            <4> QED
                BY <1>7, <3>1, <3>3, <4>2, <4>3
        <3> QED
            BY <1>1, <2>1, <3>1, <3>2, <3>3 DEF PlaceInv, Polling, Top
    <2>2. CASE ~Polling
        BY <1>1, <2>2 DEF PlaceInv, Polling, Top
    <2> QED
        BY <2>1, <2>2
<1> QED
    BY <1>9, <1>10, <1>11

\* Where the poll is.
LEMMA PollPlace ==
    ASSUME StackInv, FlatInv, RingInv, PlaceInv, Polling
    PROVE  /\ Len(log) \in Nat /\ npkts \in Nat /\ Len(log) <= npkts /\ N \in Nat \ {0}
           /\ Top.ph = "next" =>
                 /\ Restocked = Len(log) /\ Top.i = Slot(Len(log) + 1)
                 /\ Top.i # Top.r => Len(log) + 1 <= npkts
           /\ Top.ph = "restock" =>
                 /\ Restocked = Len(log) - 1 /\ Len(log) >= 1 /\ Top.i = Slot(Len(log))
           /\ Top.ph \in {"next", "restock"}
           /\ Low(stack) /\ Len(stack) \in {1, 2} /\ Top = stack[Len(stack)]
           /\ Len(stack) = 2 => stack[1].fn = "send"
<1>1. /\ Len(log) \in Nat /\ npkts \in Nat /\ Len(log) <= npkts /\ Restocked \in Nat
    BY DEF RingInv, Ring
<1>2. N \in Nat \ {0}
    BY RingAssumption
<1>3. /\ Top.i = (IF Top.ph = "restock" THEN Len(log) - 1 ELSE Len(log)) % N
      /\ \E m \in Len(log) .. npkts : Top.r = m % N
    BY DEF PlaceInv, Polling
<1>4. Top.ph \in {"next", "restock"}
    BY TopFrame, FrameKinds DEF Polling, PollFrames
<1>5. ASSUME Top.ph = "next"
      PROVE  /\ Restocked = Len(log) /\ Top.i = Slot(Len(log) + 1)
             /\ Top.i # Top.r => Len(log) + 1 <= npkts
    <2>1. Restocked = Len(log) /\ Top.i = Len(log) % N
        BY <1>3, <1>5, RestockedIs
    <2>2. Len(log) + 1 - 1 = Len(log)
        BY <1>1
    <2>3. Top.i = Slot(Len(log) + 1)
        BY <2>1, <2>2 DEF Slot
    <2>4. ASSUME Top.i # Top.r PROVE Len(log) + 1 <= npkts
        <3>1. PICK m \in Len(log) .. npkts : Top.r = m % N
            BY <1>3
        <3>2. m # Len(log)
            BY <2>1, <2>4, <3>1
        <3> QED
            BY <1>1, <3>1, <3>2
    <2> QED
        BY <2>1, <2>3, <2>4
<1>6. ASSUME Top.ph = "restock"
      PROVE  Restocked = Len(log) - 1 /\ Len(log) >= 1 /\ Top.i = Slot(Len(log))
    <2>1. Restocked = Len(log) - 1 /\ Top.i = (Len(log) - 1) % N
        BY <1>3, <1>6, RestockedIs
    <2> QED
        BY <1>1, <2>1 DEF Slot
<1>7. /\ Low(stack) /\ Len(stack) \in {1, 2} /\ Top = stack[Len(stack)]
      /\ Len(stack) = 2 => stack[1].fn = "send"
    <2>1. Low(stack) /\ stack # << >>
        BY DEF FlatInv, Low, Polling
    <2> QED
        BY <2>1 DEF Low, Top
<1> QED
    BY <1>1, <1>2, <1>4, <1>5, <1>6, <1>7

\* The next packet is handed over.
LEMMA FlatDispatches ==
    ASSUME FlatAll, PollDispatch
    PROVE  FlatInv' /\ RingInv' /\ PlaceInv'
<1> DEFINE p == buf[used[Top.i]]
           n == Len(log)
<1>1. /\ StackInv /\ SlotInv /\ UsedInv /\ FlatInv /\ RingInv /\ PlaceInv /\ Polling
      /\ Top.ph = "next" /\ Top.i # Top.r /\ log' = Append(log, p.n)
      /\ UNCHANGED <<free, stocked, buf, used, stts, npkts, air, read>>
      /\ HandleAnswer(p) \/ HandleEapol(p) \/ HandlePlain(p)
    BY DEF PollDispatch, FlatAll, Running, Polling, ringvars
<1>2. /\ n \in Nat /\ npkts \in Nat /\ n + 1 <= npkts /\ N \in Nat \ {0}
      /\ Restocked = n /\ Top.i = Slot(n + 1)
      /\ Len(stack) \in {1, 2} /\ (Len(stack) = 2 => stack[1].fn = "send")
    BY <1>1, PollPlace
<1>d. PICK d : d = n
    OBVIOUS
<1>3. Ring(d)
    BY <1>1, <1>2, <1>d DEF RingInv
<1>4. used[Top.i] \in Buffers /\ p.n = n + 1
    <2>1. n + 1 \in d + 1 .. npkts
        BY <1>2, <1>d
    <2> QED
        BY <1>2, <1>3, <2>1 DEF Ring
<1>5. ~RunsHandler(p) /\ (state' = state \/ state' = "FW_LOADED")
    <2>1. state = "FW_LOADED" \/ p.kind \notin KeyKinds
        BY <1>1, <1>4 DEF FlatInv, NoKeys
    <2>2. ~RunsHandler(p)
        BY <2>1 DEF RunsHandler, KeyKinds
    <2> QED
        BY <1>1, <2>2 DEF HandleAnswer, HandleEapol, HandlePlain, assocvars
<1>6. /\ Len(stack') = Len(stack)
      /\ stack'[Len(stack)] = [Top EXCEPT !.ph = "restock", !.rb = used[Top.i]]
      /\ \A k \in 1 .. Len(stack) - 1 : stack'[k] = stack[k]
      /\ Top \in PollFrames
    BY <1>1, <1>5, Dispatches
<1>7. /\ Top'.fn = "poll" /\ Top'.ph = "restock" /\ Top'.i = Top.i /\ Top'.r = Top.r
      /\ Top'.rb = used[Top.i]
      /\ stack' # << >> /\ Top' = stack'[Len(stack')]
    <2>1. /\ Top' = [Top EXCEPT !.ph = "restock", !.rb = used[Top.i]]
          /\ Top' = stack'[Len(stack')]
        BY <1>6 DEF Top
    <2>2. stack' # << >>
        BY <1>2, <1>6
    <2> QED
        BY <1>6, <2>1, <2>2 DEF PollFrames
<1>8. /\ log' \in Seq(Nat) /\ Len(log') = n + 1 /\ log'[n + 1] = n + 1
      /\ \A k \in 1 .. n : log'[k] = log[k]
    BY <1>1, <1>2, <1>4 DEF RingInv
<1>9. InOrderOnce'
    <2>1. log = [k \in 1 .. n |-> k]
        BY <1>1 DEF RingInv, InOrderOnce
    <2>2. \A k \in 1 .. n + 1 : log'[k] = k
        <3> SUFFICES ASSUME NEW k \in 1 .. n + 1 PROVE log'[k] = k
            OBVIOUS
        <3>1. CASE k = n + 1
            BY <1>8, <3>1
        <3>2. CASE k # n + 1
            <4>1. k \in 1 .. n
                BY <1>2, <3>2
            <4> QED
                BY <1>8, <2>1, <4>1
        <3> QED
            BY <3>1, <3>2
    <2>3. DOMAIN log' = 1 .. n + 1 /\ log' = [k \in DOMAIN log' |-> log'[k]]
        BY <1>8
    <2>4. log' = [k \in 1 .. n + 1 |-> k]
        BY <2>2, <2>3
    <2> QED
        BY <1>8, <2>4 DEF InOrderOnce
<1>10. RingInv'
    <2>1. Ring(d)'
        BY <1>1, <1>3, RingSame
    <2>2. Restocked' = n
        <3>1. Restocked' = Len(log') - 1
            BY <1>7 DEF Restocked, Running
        <3> QED
            BY <1>2, <1>8, <3>1
    <2>3. Ring(Restocked)'
        BY <1>d, <2>1, <2>2, RingMoves
    <2>4. Len(log') <= npkts'
        BY <1>1, <1>2, <1>8
    <2> QED
        BY <1>8, <1>9, <2>3, <2>4 DEF RingInv
<1>11. FlatInv'
    <2>1. NoKeys' /\ air' \in Seq(Range(Air))
        BY <1>1, <1>5 DEF FlatInv, NoKeys
    <2>2. \/ Len(stack') = 1 /\ stack'[1].fn \in {"poll", "send"}
          \/ Len(stack') = 2 /\ stack'[1].fn = "send" /\ stack'[2].fn = "poll"
        <3>1. CASE Len(stack) = 1
            BY <1>6, <1>7, <3>1
        <3>2. CASE Len(stack) = 2
            <4>1. stack'[1] = stack[1] /\ stack'[2].fn = "poll"
                BY <1>6, <1>7, <3>2
            <4> QED
                BY <1>2, <1>6, <3>2, <4>1
        <3> QED
            BY <1>2, <3>1, <3>2
    <2> QED
        BY <2>1, <2>2 DEF FlatInv
<1>12. PlaceInv'
    <2>1. PICK m \in n .. npkts : Top.r = m % N
        BY <1>1 DEF PlaceInv, Polling
    <2>2. Top.i = n % N
        BY <1>1 DEF PlaceInv, Polling
    <2>3. m # n
        BY <1>1, <2>1, <2>2
    <2>4. m \in n + 1 .. npkts
        BY <1>2, <2>1, <2>3
    <2>5. Len(log') - 1 = n
        BY <1>2, <1>8
    <2> HIDE DEF n
    <2>6. Top'.i = (Len(log') - 1) % N
        BY <1>7, <2>2, <2>5
    <2>7. \E k \in Len(log') .. npkts' : Top'.r = k % N
        BY <1>1, <1>7, <1>8, <2>1, <2>4
    <2>8. Top'.rb = used'[Top'.i]
        BY <1>1, <1>7
    <2> QED
        BY <1>7, <2>6, <2>7, <2>8 DEF PlaceInv
<1> QED
    BY <1>10, <1>11, <1>12

\* The buffer of the packet handed over last is put back.
LEMMA FlatRestocks ==
    ASSUME FlatAll, PollRestock
    PROVE  FlatInv' /\ RingInv' /\ PlaceInv'
<1> DEFINE n == Len(log)
<1>1. /\ StackInv /\ SlotInv /\ FlatInv /\ RingInv /\ PlaceInv /\ Polling
      /\ Top.ph = "restock" /\ Restock(used[Top.i])
      /\ UNCHANGED <<buf, used, stts, npkts, air, read, log, state>>
    BY DEF PollRestock, FlatAll, PlaceInv, Running, Polling, assocvars
<1>2. /\ n \in Nat /\ npkts \in Nat /\ n <= npkts /\ N \in Nat \ {0}
      /\ Restocked = n - 1 /\ n >= 1 /\ Top.i = Slot(n)
      /\ Len(stack) \in {1, 2} /\ (Len(stack) = 2 => stack[1].fn = "send")
    BY <1>1, PollPlace
<1>3. PICK d : d = n - 1
    OBVIOUS
<1>4. Ring(d) /\ d + 1 = n /\ d \in Nat
    BY <1>1, <1>2, <1>3 DEF RingInv
<1>5. Ring(d + 1)'
    <2>1. d + 1 <= npkts /\ Restock(used[Slot(d + 1)])
        BY <1>1, <1>2, <1>4
    <2> QED
        BY <1>1, <1>4, <2>1, RingRestocks
<1>6. /\ Len(stack') = Len(stack) /\ Top \in PollFrames
      /\ stack'[Len(stack)] = [Top EXCEPT !.ph = "next", !.i = (@ + 1) % N, !.rb = 0]
      /\ \A k \in 1 .. Len(stack) - 1 : stack'[k] = stack[k]
    BY <1>1, PollGoesOn
<1>7. /\ Top'.fn = "poll" /\ Top'.ph = "next" /\ Top'.i = (Top.i + 1) % N /\ Top'.r = Top.r
      /\ stack' # << >> /\ Top' = stack'[Len(stack')]
    <2>1. /\ Top' = [Top EXCEPT !.ph = "next", !.i = (@ + 1) % N, !.rb = 0]
          /\ Top' = stack'[Len(stack')]
        BY <1>6 DEF Top
    <2>2. stack' # << >>
        BY <1>2, <1>6
    <2> QED
        BY <1>6, <2>1, <2>2 DEF PollFrames
<1>8. RingInv'
    <2>1. PICK e : e = d + 1
        OBVIOUS
    <2>2. Ring(e)'
        BY <1>5, <2>1
    <2>3. Restocked' = e
        BY <1>1, <1>4, <1>7, <2>1 DEF Restocked, Running
    <2>4. Ring(Restocked)'
        BY <2>2, <2>3, RingMoves
    <2> QED
        BY <1>1, <2>4 DEF RingInv, InOrderOnce
<1>9. FlatInv'
    <2>1. NoKeys' /\ air' \in Seq(Range(Air))
        BY <1>1 DEF FlatInv, NoKeys
    <2>2. \/ Len(stack') = 1 /\ stack'[1].fn \in {"poll", "send"}
          \/ Len(stack') = 2 /\ stack'[1].fn = "send" /\ stack'[2].fn = "poll"
        <3>1. CASE Len(stack) = 1
            BY <1>6, <1>7, <3>1
        <3>2. CASE Len(stack) = 2
            <4>1. stack'[1] = stack[1] /\ stack'[2].fn = "poll"
                BY <1>6, <1>7, <3>2
            <4> QED
                BY <1>2, <1>6, <3>2, <4>1
        <3> QED
            BY <1>2, <3>1, <3>2
    <2> QED
        BY <2>1, <2>2 DEF FlatInv
<1>10. PlaceInv'
    <2>1. \E m \in Len(log) .. npkts : Top.r = m % N
        BY <1>1 DEF PlaceInv, Polling
    <2>2. Top.i = d % N
        BY <1>2, <1>3 DEF Slot
    <2>3. ((d % N) + 1) % N = n % N
        BY <1>4, NextRest
    <2>4. Top'.i = Len(log)' % N
        BY <1>1, <1>7, <2>2, <2>3
    <2> QED
        BY <1>1, <1>7, <2>1, <2>4 DEF PlaceInv
<1> QED
    BY <1>8, <1>9, <1>10

\* The poll has reached the index it read, and stores it.
LEMMA FlatReturns ==
    ASSUME FlatAll, PollReturn
    PROVE  FlatInv' /\ RingInv' /\ PlaceInv'
<1> DEFINE n == Len(log)
<1>1. /\ StackInv /\ SlotInv /\ FlatInv /\ RingInv /\ PlaceInv /\ Polling
      /\ Top.ph = "next" /\ read' = Top.i
      /\ UNCHANGED <<free, stocked, buf, used, stts, npkts, air, log, state>>
    BY DEF PollReturn, FlatAll, Running, Polling, assocvars, ringvars
<1>2. /\ n \in Nat /\ N \in Nat \ {0} /\ Restocked = n /\ Top.i = Slot(n + 1)
      /\ Len(stack) \in {1, 2} /\ (Len(stack) = 2 => stack[1].fn = "send")
    BY <1>1, PollPlace
<1>3. PICK d : d = n
    OBVIOUS
<1>4. Ring(d)
    BY <1>1, <1>2, <1>3 DEF RingInv
<1>5. Ring(d)'
    BY <1>1, <1>4, RingSame
<1>6. /\ Len(stack') = Len(stack) - 1 /\ Shape(stack')
      /\ \A k \in 1 .. Len(stack) - 1 : stack'[k] = stack[k]
    BY <1>1, PollReturns DEF StackInv
<1>7. stack' = << >> \/ (Len(stack') = 1 /\ stack'[1].fn = "send")
    <2>1. CASE Len(stack) = 1
        <3>1. Len(stack') = 0 /\ stack' \in Seq(Frame)
            BY <1>6, <2>1 DEF Shape
        <3> QED
            BY <3>1
    <2>2. CASE Len(stack) = 2
        BY <1>2, <1>6, <2>2
    <2> QED
        BY <1>2, <2>1, <2>2
<1>8. ~(stack' # << >> /\ Top'.fn = "poll")
    BY <1>7 DEF Top
<1>9. RingInv'
    <2>1. Restocked' = d
        BY <1>1, <1>3, <1>8 DEF Restocked, Running
    <2>2. Ring(Restocked)'
        BY <1>5, <2>1, RingMoves
    <2> QED
        BY <1>1, <2>2 DEF RingInv, InOrderOnce
<1>10. FlatInv'
    BY <1>1, <1>7 DEF FlatInv, NoKeys
<1>11. PlaceInv'
    <2>1. Top.i = n % N
        BY <1>1 DEF PlaceInv, Polling
    <2> QED
        BY <1>1, <1>8, <2>1 DEF PlaceInv
<1> QED
    BY <1>9, <1>10, <1>11

\* What a call stack without handlers can be doing.
LEMMA SendAlone ==
    ASSUME FlatAll, stack # << >>, Top.fn = "send"
    PROVE  ~Polling /\ Len(stack) = 1 /\ Top = stack[1]
<1>1. Low(stack)
    BY DEF FlatAll, FlatInv, Low
<1> QED
    BY <1>1 DEF Low, Top, Polling

LEMMA FlatSends ==
    ASSUME FlatAll, SendDone \/ SendAgain \/ SendTimeout \/ WorkerCmd
    PROVE  FlatInv' /\ RingInv' /\ PlaceInv'
<1>1. /\ StackInv /\ SlotInv /\ FlatInv /\ RingInv /\ PlaceInv
      /\ UNCHANGED <<ringvars, read, log, state>>
    BY DEF FlatAll, SendDone, SendAgain, SendTimeout, WorkerCmd, assocvars
<1>2. ~Polling /\ (stack' = << >> \/ (Len(stack') = 1 /\ stack'[1].fn = "send"))
    <2>1. CASE SendDone \/ SendTimeout
        <3>1. stack # << >> /\ Top.fn = "send"
            BY <2>1 DEF SendDone, SendTimeout, Running
        <3>2. ~Polling /\ Len(stack) = 1
            BY <3>1, SendAlone
        <3>3. Len(stack') = Len(stack) - 1 /\ Shape(stack')
            BY <1>1, <2>1, SendReturns DEF StackInv
        <3>4. Len(stack') = 0 /\ stack' \in Seq(Frame)
            BY <3>2, <3>3 DEF Shape
        <3> QED
            BY <3>2, <3>4
    <2>2. CASE SendAgain
        <3>1. stack # << >> /\ Top.fn = "send"
            BY <2>2 DEF SendAgain, Running
        <3>2. ~Polling /\ Len(stack) = 1
            BY <3>1, SendAlone
        <3>3. Len(stack') = Len(stack) /\ stack'[Len(stack)].fn = "send"
            BY <1>1, <2>2, SendsAgain
        <3> QED
            BY <3>2, <3>3
    <2>3. CASE WorkerCmd
        BY <1>1, <2>3, WorkerCalls DEF Polling, SendFrame
    <2> QED
        BY <2>1, <2>2, <2>3
<1>3. ~Polling' /\ Low(stack')
    BY <1>2 DEF Polling, Top, Low
<1> QED
    BY <1>1, <1>2, <1>3, FlatQuiet

LEMMA FlatPolls ==
    ASSUME FlatAll, SendPoll \/ WorkerPoll
    PROVE  FlatInv' /\ RingInv' /\ PlaceInv'
<1>1. /\ StackInv /\ SlotInv /\ FlatInv /\ RingInv /\ PlaceInv
      /\ UNCHANGED <<ringvars, read, log, state>>
    BY DEF FlatAll, SendPoll, WorkerPoll, assocvars
<1>2. PollFrame.fn = "poll"
    BY DEF PollFrame
<1>3. CASE SendPoll
    <2>1. stack # << >> /\ Top.fn = "send"
        BY <1>3 DEF SendPoll, Running
    <2>2. ~Polling /\ Len(stack) = 1 /\ Top = stack[1]
        BY <2>1, SendAlone
    <2>3. Top \in SendFrames
        BY <1>1, <2>1, TopFrame, FrameKinds
    <2>4. /\ Len(stack') = 2 /\ stack'[2] = PollFrame
          /\ stack'[1] = [Top EXCEPT !.ph = "check"]
        BY <1>1, <1>3, <2>2, SendPolls
    <2>5. stack'[1].fn = "send"
        BY <2>3, <2>4 DEF SendFrames
    <2>6. Polling' /\ Top' = PollFrame /\ Low(stack')
        BY <1>2, <2>4, <2>5 DEF Polling, Top, Low
    <2> QED
        BY <1>1, <2>2, <2>6, FlatEnters
<1>4. CASE WorkerPoll
    <2>1. stack = << >> /\ Len(stack') = 1 /\ stack'[1] = PollFrame
        BY <1>1, <1>4, WorkerCalls
    <2>2. ~Polling /\ Polling' /\ Top' = PollFrame /\ Low(stack')
        BY <1>2, <2>1 DEF Polling, Top, Low
    <2> QED
        BY <1>1, <2>2, FlatEnters
<1> QED
    BY <1>3, <1>4

LEMMA NextFlat ==
    ASSUME FlatAll, [Next]_vars
    PROVE  FlatAll'
<1>1. StackInv' /\ SlotInv' /\ UsedInv'
    BY NextStack, NextUsed DEF FlatAll
<1>2. CASE Worker
    <2>1. ~(stack # << >> /\ Top.fn \in KeyKinds)
        BY DEF FlatAll, FlatInv, Top, KeyKinds
    <2>2. ~(Msg3Ptk \/ Msg3Gtk \/ Msg3Failed \/ Msg3Connected \/ GroupGtk \/ GroupDone)
        BY <2>1 DEF Msg3Ptk, Msg3Gtk, Msg3Failed, Msg3Connected, GroupGtk, GroupDone,
           Running, KeyKinds
    <2> QED
        BY <1>1, <1>2, <2>2, FlatSends, FlatPolls, FlatDispatches, FlatRestocks,
           FlatReturns DEF Worker, FlatAll
<1>3. CASE FwAnswer \/ AirFrame
    BY <1>1, <1>3, FlatDelivers DEF FlatAll
<1>4. CASE UNCHANGED vars
    <2>1. UNCHANGED <<free, stocked, buf, used, stts, npkts, air, read, log, state, stack>>
        BY <1>4 DEF vars, ringvars, assocvars
    <2>2. PICK d : d = Restocked
        OBVIOUS
    <2>3. Restocked' = d
        BY <2>1, <2>2 DEF Restocked, Running, Top
    <2>4. Ring(d)
        BY <2>2 DEF FlatAll, RingInv
    <2>5. Ring(d)'
        BY <2>1, <2>4, RingSame
    <2>6. Ring(Restocked)'
        BY <2>3, <2>5, RingMoves
    <2>7. RingInv'
        BY <2>1, <2>6 DEF FlatAll, RingInv, InOrderOnce
    <2>8. FlatInv' /\ PlaceInv'
        BY <2>1 DEF FlatAll, FlatInv, NoKeys, PlaceInv, Top
    <2> QED
        BY <1>1, <2>7, <2>8 DEF FlatAll
<1> QED
    BY <1>2, <1>3, <1>4 DEF Next

LEMMA InitFlat ==
    ASSUME Flat, Init
    PROVE  FlatAll
<1>1. /\ free = [b \in Buffers |-> b] /\ stocked = << >>
      /\ buf = [b \in Buffers |-> NoPkt] /\ used = [i \in 0 .. N - 1 |-> 0]
      /\ stts = 0 /\ read = 0 /\ npkts = 0 /\ stack = << >> /\ log = << >>
      /\ state = StartState /\ air = Air
    BY DEF Init
<1>2. Pool \in Nat \ {0} /\ N \in Nat \ {0} /\ Pool <= N
    BY RingAssumption
<1>3. StackInv /\ SlotInv /\ UsedInv
    BY InitStack
<1>4. FlatInv
    <2>1. NoKeys
        BY <1>1 DEF Flat, NoKeys, NoPkt, KeyKinds
    <2>2. air \in Seq(Range(Air))
        BY <1>1, ScriptAssumption DEF Range
    <2> QED
        BY <1>1, <2>1, <2>2 DEF FlatInv
<1>5. /\ free \in Seq(Buffers) /\ Len(free) = Pool /\ \A k \in 1 .. Pool : free[k] = k
    BY <1>1, <1>2 DEF Buffers
<1>6. 0 % N = 0
    BY <1>2
<1>7. \A k \in 1 .. Pool : At(k) = k
    <2> SUFFICES ASSUME NEW k \in 1 .. Pool PROVE At(k) = k
        OBVIOUS
    <2>1. ~(k <= npkts) /\ k - npkts = k
        BY <1>1, <1>2
    <2>2. stocked \in Seq(Buffers)
        BY <1>1
    <2>3. Posted[k] = free[k]
        BY <1>5, <2>2, PostedIs
    <2> QED
        BY <1>5, <2>1, <2>3 DEF At
<1>8. Ring(0)
    <2>1. DOMAIN used = 0 .. N - 1 /\ DOMAIN buf = Buffers /\ stocked \in Seq(Buffers)
        BY <1>1
    <2>2. npkts - 0 + Len(free) + Len(stocked) = Pool
        BY <1>1, <1>2, <1>5
    <2>3. \A j, k \in 0 + 1 .. 0 + Pool : At(j) = At(k) => j = k
        BY <1>2, <1>7
    <2> QED
        BY <1>1, <1>5, <1>6, <2>1, <2>2, <2>3 DEF Ring
<1>9. RingInv
    <2>1. Restocked = 0
        BY <1>1 DEF Restocked, Running
    <2>2. InOrderOnce
        BY <1>1 DEF InOrderOnce
    <2> QED
        BY <1>1, <1>8, <2>1, <2>2 DEF RingInv
<1>10. PlaceInv
    BY <1>1, <1>6 DEF PlaceInv
<1> QED
    BY <1>3, <1>4, <1>9, <1>10 DEF FlatAll

(***************************************************************************)
(* Without key messages from inside a poll every packet reaches            *)
(* iwlm_mvm_rx_pkt once and in order, whatever the sizes of ring and pool, *)
(* however restocks are batched and polls and completions interleave.      *)
(***************************************************************************)
THEOREM InOrderOnceHolds == Flat => (Spec => []InOrderOnce)
<1> SUFFICES ASSUME Flat PROVE Spec => []InOrderOnce
    OBVIOUS
<1>1. Init => FlatAll
    BY InitFlat
<1>2. FlatAll /\ [Next]_vars => FlatAll'
    BY NextFlat
<1>3. FlatAll => InOrderOnce
    BY DEF FlatAll, RingInv
<1> QED
    BY <1>1, <1>2, <1>3, PTL DEF Spec

(***************************************************************************)
(* Under the same condition the free ring lists every receive buffer at    *)
(* most once, and none that a poll is still reading.  With key messages    *)
(* the code breaks this: the run iwl_rx_reentry shows how.                 *)
(***************************************************************************)
THEOREM RbOnceHolds == Flat => (Spec => []RbOnce)
<1> SUFFICES ASSUME Flat PROVE Spec => []RbOnce
    OBVIOUS
<1>1. Init => FlatAll
    BY InitFlat
<1>2. FlatAll /\ [Next]_vars => FlatAll'
    BY NextFlat
<1>3. ASSUME FlatAll PROVE RbOnce
    <2>d. PICK d : d = Restocked
        OBVIOUS
    <2>1. Ring(d)
        BY <1>3, <2>d DEF FlatAll, RingInv
    <2>2. /\ d \in Nat /\ npkts \in Nat /\ d <= npkts
          /\ npkts + Len(free) + Len(stocked) = d + Pool
          /\ Len(free) \in Nat /\ Len(stocked) \in Nat /\ Pool \in Nat \ {0}
          /\ \A k \in d + 1 .. npkts : At(k) = used[Slot(k)]
          /\ \A k \in npkts + 1 .. d + Pool : At(k) = Posted[k - npkts]
        BY <2>1, RingFacts
    <2>3. \A j, k \in d + 1 .. d + Pool : At(j) = At(k) => j = k
        BY <2>1 DEF Ring
    <2>4. DOMAIN Posted = 1 .. Len(free) + Len(stocked)
        BY <2>1, PostedIs DEF Ring
    <2>5. ASSUME NEW i \in DOMAIN Posted
          PROVE  /\ npkts + i \in d + 1 .. d + Pool /\ At(npkts + i) = Posted[i]
                 /\ npkts + i > npkts /\ i \in Nat
        <3>1. /\ npkts + i \in d + 1 .. d + Pool /\ npkts + i \in npkts + 1 .. d + Pool
              /\ npkts + i - npkts = i /\ npkts + i > npkts /\ i \in Nat
            BY <2>2, <2>4
        <3> QED
            BY <2>2, <3>1
    <2>6. ASSUME NEW i \in DOMAIN Posted, NEW j \in DOMAIN Posted, Posted[i] = Posted[j]
          PROVE  i = j
        <3>1. npkts + i = npkts + j
            BY <2>3, <2>5, <2>6
        <3> QED
            BY <2>2, <2>5, <3>1
    <2>7. ASSUME NEW i \in DOMAIN Posted, NEW k \in Polls, stack[k].ph = "restock"
          PROVE  Posted[i] # stack[k].rb
        <3>1. Polling /\ Top = stack[k]
            BY <1>3, <2>7 DEF FlatAll, FlatInv, Polls, Polling, Top
        <3>2. /\ d = Len(log) - 1 /\ Len(log) >= 1 /\ Top.i = Slot(Len(log))
              /\ Len(log) \in Nat /\ Len(log) <= npkts
            BY <1>3, <2>d, <2>7, <3>1, PollPlace DEF FlatAll
        <3>3. /\ Len(log) \in d + 1 .. npkts /\ Len(log) \in d + 1 .. d + Pool
              /\ Len(log) # npkts + i
            BY <2>2, <2>5, <3>2
        <3>4. At(Len(log)) = stack[k].rb
            <4>1. Top.rb = used[Top.i]
                BY <1>3, <2>7, <3>1 DEF FlatAll, PlaceInv, Polling
            <4> QED
                BY <2>2, <3>1, <3>2, <3>3, <4>1
        <3> QED
            BY <2>3, <2>5, <3>3, <3>4
    <2> QED
        BY <2>6, <2>7 DEF RbOnce, Posted
<1> QED
    BY <1>1, <1>2, <1>3, PTL DEF Spec

-----------------------------------------------------------------------------
(* Commands and answers.                                                   *)

\* The worker's own call goes on, or ends.
SameCall ==
    First(stack') => /\ First(stack) /\ stack'[1].cmd = stack[1].cmd
                     /\ stack'[1].id = stack[1].id

LEMMA OneSend ==
    ASSUME NEW s, Shape(s), Low(s)
    PROVE  /\ \A k \in DOMAIN s : s[k].fn = "send" => k = 1 /\ First(s)
           /\ First(s) => 1 \in DOMAIN s
<1>1. s \in Seq(Frame) /\ (s # << >> <=> Len(s) > 0)
    BY DEF Shape
<1> QED
    BY <1>1 DEF Low, First

LEMMA SendsAre ==
    ASSUME FlatAll, FlatAll'
    PROVE  /\ \A k \in Sends : k = 1 /\ First(stack)
           /\ First(stack) => 1 \in Sends
           /\ \A k \in Sends' : k = 1 /\ First(stack')
<1>1. Shape(stack) /\ Low(stack) /\ Shape(stack') /\ Low(stack')
    BY DEF FlatAll, StackInv, FlatInv, Low
<1>2. /\ \A k \in DOMAIN stack : stack[k].fn = "send" => k = 1 /\ First(stack)
      /\ First(stack) => 1 \in DOMAIN stack
    BY ONLY <1>1, OneSend
<1>3. \A k \in DOMAIN stack' : stack'[k].fn = "send" => k = 1 /\ First(stack')
    <2> DEFINE t == stack'
    <2>1. Shape(t) /\ Low(t)
        BY <1>1
    <2> HIDE DEF t
    <2>2. \A k \in DOMAIN t : t[k].fn = "send" => k = 1 /\ First(t)
        BY ONLY <2>1, OneSend
    <2> QED
        BY <2>2 DEF t
<1> QED
    BY <1>2, <1>3 DEF Sends, First

\* The poll runs on top of the worker's call, and leaves it alone.
LEMMA CallKept ==
    ASSUME FlatAll, FlatAll', Polling, NEW n, Len(stack) = n,
           Len(stack') \in {n, n - 1},
           \A k \in 1 .. n - 1 : stack'[k] = stack[k],
           Len(stack') = n => stack'[n].fn = "poll"
    PROVE  SameCall
<1>1. Low(stack) /\ Low(stack') /\ stack # << >> /\ Top.fn = "poll"
    BY DEF FlatAll, FlatInv, Low, Polling
<1>2. CASE n = 1
    <2>1. Len(stack') = 0 \/ (Len(stack') = 1 /\ stack'[1].fn = "poll")
        BY <1>2
    <2> QED
        BY <1>1, <2>1 DEF SameCall, First, Low
<1>3. CASE n = 2
    <2>1. stack'[1] = stack[1] /\ First(stack)
        BY <1>1, <1>3 DEF Low, First
    <2> QED
        BY <2>1 DEF SameCall
<1> QED
    BY <1>1, <1>2, <1>3 DEF Low

LEMMA SameCalls ==
    ASSUME FlatAll, FlatAll', Worker
    PROVE  WorkerCmd \/ SameCall
<1>1. StackInv /\ SlotInv /\ UsedInv
    BY DEF FlatAll
<1>2. CASE PollDispatch
    <2>1. Polling /\ FlatInv' /\ Low(stack')
        BY <1>2 DEF PollDispatch, Running, Polling, FlatAll, FlatInv, Low
    <2>2. /\ Len(stack) \in {1, 2} /\ Top \in PollFrames
          /\ stack'[Len(stack)] = [Top EXCEPT !.ph = "restock", !.rb = used[Top.i]]
          /\ \A k \in 1 .. Len(stack) - 1 : stack'[k] = stack[k]
          /\ Len(stack') \in {Len(stack), Len(stack) + 1}
        BY <1>1, <1>2, <2>1, Dispatches, PollPlace DEF FlatAll
    <2>3. stack'[Len(stack)].fn = "poll"
        BY <2>2 DEF PollFrames
    <2>4. Len(stack') = Len(stack)
        <3>1. CASE Len(stack) = 1
            <4>1. stack'[1].fn = "poll"
                BY <2>3, <3>1
            <4> QED
                BY <2>1, <2>2, <3>1, <4>1 DEF Low
        <3>2. CASE Len(stack) = 2
            BY <2>1, <2>2, <3>2 DEF Low
        <3> QED
            BY <2>2, <3>1, <3>2
    <2> QED
        BY <2>1, <2>2, <2>3, <2>4, CallKept
<1>3. CASE PollRestock
    <2>1. Polling
        BY <1>3 DEF PollRestock, Running, Polling
    <2>2. /\ Len(stack') = Len(stack) /\ Top \in PollFrames
          /\ stack'[Len(stack)] = [Top EXCEPT !.ph = "next", !.i = (@ + 1) % N, !.rb = 0]
          /\ \A k \in 1 .. Len(stack) - 1 : stack'[k] = stack[k]
        BY <1>1, <1>3, PollGoesOn
    <2>3. stack'[Len(stack)].fn = "poll"
        BY <2>2 DEF PollFrames
    <2> QED
        BY <2>1, <2>2, <2>3, CallKept
<1>4. CASE PollReturn
    <2>1. Polling
        BY <1>4 DEF PollReturn, Running, Polling
    <2>2. /\ Len(stack') = Len(stack) - 1 /\ Len(stack) \in Nat
          /\ \A k \in 1 .. Len(stack) - 1 : stack'[k] = stack[k]
        BY <1>1, <1>4, PollReturns
    <2>3. Len(stack') # Len(stack)
        BY <2>2
    <2> QED
        BY <2>1, <2>2, <2>3, CallKept
<1>5. CASE SendPoll
    <2>1. stack # << >> /\ Top.fn = "send"
        BY <1>5 DEF SendPoll, Running
    <2>2. Len(stack) = 1 /\ Top = stack[1] /\ First(stack)
        BY <2>1, SendAlone DEF First
    <2>3. Top \in SendFrames
        BY <1>1, <2>1, TopFrame, FrameKinds
    <2>4. stack'[1] = [Top EXCEPT !.ph = "check"]
        BY <1>1, <1>5, <2>2, SendPolls
    <2>5. stack'[1].cmd = Top.cmd /\ stack'[1].id = Top.id
        BY <2>3, <2>4 DEF SendFrames
    <2> QED
        BY <2>2, <2>5 DEF SameCall
<1>6. CASE SendAgain
    <2>1. stack # << >> /\ Top.fn = "send"
        BY <1>6 DEF SendAgain, Running
    <2>2. Len(stack) = 1 /\ Top = stack[1] /\ First(stack)
        BY <2>1, SendAlone DEF First
    <2>3. stack'[Len(stack)].cmd = Top.cmd /\ stack'[Len(stack)].id = Top.id
        BY <1>1, <1>6, SendsAgain
    <2> QED
        BY <2>2, <2>3 DEF SameCall
<1>7. CASE SendDone \/ SendTimeout
    <2>1. stack # << >> /\ Top.fn = "send"
        BY <1>7 DEF SendDone, SendTimeout, Running
    <2>2. Len(stack) = 1
        BY <2>1, SendAlone
    <2>3. Len(stack') = Len(stack) - 1
        BY <1>1, <1>7, SendReturns
    <2>4. Len(stack') = 0 /\ Low(stack')
        BY <2>2, <2>3 DEF FlatAll, FlatInv, Low
    <2> QED
        BY <2>4 DEF SameCall, First, Low
<1>8. CASE WorkerPoll
    <2>1. stack'[1] = PollFrame
        BY <1>1, <1>8, WorkerCalls
    <2> QED
        BY <2>1 DEF SameCall, First, PollFrame
<1>9. ~(Msg3Ptk \/ Msg3Gtk \/ Msg3Failed \/ Msg3Connected \/ GroupGtk \/ GroupDone)
    <2>1. ~(stack # << >> /\ Top.fn \in KeyKinds)
        BY DEF FlatAll, FlatInv, Top, KeyKinds
    <2> QED
        BY <2>1 DEF Msg3Ptk, Msg3Gtk, Msg3Failed, Msg3Connected, GroupGtk, GroupDone,
           Running, KeyKinds
<1> QED
    BY <1>2, <1>3, <1>4, <1>5, <1>6, <1>7, <1>8, <1>9 DEF Worker

LEMMA NamesShrink ==
    ASSUME Names, Outstanding' \subseteq Outstanding, pos' = pos
    PROVE  Names'
BY DEF Names

\* What a command outstanding is.
LEMMA OutstandingIs ==
    ASSUME NEW x
    PROVE  x \in Outstanding <=>
              \/ \E i \in DOMAIN fwq : x = <<fwq[i].cmd, fwq[i].id>>
              \/ \E k \in Answered :
                    x = <<buf[used[Slot(k)]].cmd, buf[used[Slot(k)]].id>>
              \/ \E k \in Sends : x = <<stack[k].cmd, stack[k].id>>
BY DEF Outstanding

\* A step of the worker's that sends no command.
LEMMA WorkerNames ==
    ASSUME FlatAll, FlatAll', AnswerInv, SameCall,
           UNCHANGED <<fwq, used, buf, npkts, pos>>,
           Len(log') >= Len(log)
    PROVE  Names'
<1>1. Len(log) \in Nat /\ Len(log') \in Nat /\ npkts \in Nat
    <2>1. log \in Seq(Nat) /\ log' \in Seq(Nat)
        BY DEF FlatAll, RingInv
    <2>2. npkts \in Nat
        BY DEF FlatAll, RingInv, Ring
    <2> QED
        BY ONLY <2>1, <2>2
<1>2. Answered' \subseteq Answered
    <2>1. Answered' = {k \in Len(log') + 1 .. npkts : buf[used[Slot(k)]].kind = "resp"}
        BY DEF Answered, Slot
    <2>2. Len(log') + 1 .. npkts \subseteq Len(log) + 1 .. npkts
        BY <1>1
    <2> QED
        BY <2>1, <2>2 DEF Answered
<1>3. ASSUME NEW x \in Outstanding' PROVE x \in Outstanding
    <2>1. \/ \E i \in DOMAIN fwq : x = <<fwq[i].cmd, fwq[i].id>>
          \/ \E k \in Answered' :
                x = <<buf[used[Slot(k)]].cmd, buf[used[Slot(k)]].id>>
          \/ \E k \in Sends' : x = <<stack'[k].cmd, stack'[k].id>>
        BY <1>3 DEF Outstanding, Slot
    <2>2. CASE \E k \in Sends' : x = <<stack'[k].cmd, stack'[k].id>>
        <3>1. x = <<stack'[1].cmd, stack'[1].id>> /\ First(stack')
            BY <2>2, SendsAre
        <3>2. 1 \in Sends /\ x = <<stack[1].cmd, stack[1].id>>
            BY <3>1, SendsAre DEF SameCall
        <3> QED
            BY <3>2, OutstandingIs
    <2> QED
        BY <1>2, <2>1, <2>2, OutstandingIs
<1>4. Names
    BY DEF AnswerInv
<1> QED
    BY <1>3, <1>4, NamesShrink

LEMMA AppendKeeps ==
    ASSUME NEW S, NEW s \in Seq(S), NEW e \in S
    PROVE  Append(s, e) \in Seq(S)
OBVIOUS

\* The worker sends its next command: no other has that name.
LEMMA CmdNames ==
    ASSUME SentOnce, FlatAll, FlatAll', AnswerInv, WorkerCmd
    PROVE  AnswerInv'
<1> DEFINE c == Script[pos]
           new == <<c, sent + 1>>
<1>1. /\ stack = << >> /\ Len(stack') = 1 /\ pos \in DOMAIN Script
      /\ stack'[1] = SendFrame(c) /\ SendsOff(<< >>, c)
    BY WorkerCalls DEF FlatAll
<1>2. /\ pos' = pos + 1 /\ pos \in Nat \ {0} /\ sent \in Nat
      /\ UNCHANGED <<used, buf, npkts, log, air>>
    BY DEF WorkerCmd, ringvars, FlatAll, StackInv
<1>3. fwq' = Append(fwq, [cmd |-> c, id |-> sent + 1]) /\ wait'.cmd = c /\ ~wait'.done
    <2>1. stack' # << >>
        BY <1>1
    <2> QED
        BY <1>1, <2>1 DEF SendsOff
<1>4. stack'[1].cmd = c /\ stack'[1].id = sent + 1
    <2>1. stack'[1] = SendFrame(c)
        BY <1>1
    <2>2. SendFrame(c).cmd = c /\ SendFrame(c).id = sent + 1
        BY ONLY DEF SendFrame
    <2> QED
        BY ONLY <2>1, <2>2
<1>5. c \in Cmds
    BY <1>1 DEF Cmds, Range
<1>6. fwq \in Seq([cmd : Cmds, id : Nat]) /\ fwq' \in Seq([cmd : Cmds, id : Nat])
    <2>1. fwq \in Seq([cmd : Cmds, id : Nat])
        BY DEF AnswerInv
    <2>2. [cmd |-> c, id |-> sent + 1] \in [cmd : Cmds, id : Nat]
        BY ONLY <1>2, <1>5
    <2>3. fwq' = Append(fwq, [cmd |-> c, id |-> sent + 1])
        BY <1>3
    <2> QED
        BY ONLY <2>1, <2>2, <2>3, AppendKeeps
<1>7. ASSUME NEW x \in Outstanding' PROVE x \in Outstanding \/ x = new
    <2>1. \/ \E i \in DOMAIN fwq' : x = <<fwq'[i].cmd, fwq'[i].id>>
          \/ \E k \in Answered :
                x = <<buf[used[Slot(k)]].cmd, buf[used[Slot(k)]].id>>
          \/ \E k \in Sends' : x = <<stack'[k].cmd, stack'[k].id>>
        BY <1>2, <1>7 DEF Outstanding, Answered, Slot
    <2>2. CASE \E i \in DOMAIN fwq' : x = <<fwq'[i].cmd, fwq'[i].id>>
        <3>1. PICK i \in DOMAIN fwq' : x = <<fwq'[i].cmd, fwq'[i].id>>
            BY <2>2
        <3> DEFINE r == [cmd |-> c, id |-> sent + 1]
        <3>2. fwq' = Append(fwq, r) /\ i \in DOMAIN fwq' /\ fwq \in Seq([cmd : Cmds, id : Nat])
            BY <1>3, <1>6, <3>1
        <3>3. r.cmd = c /\ r.id = sent + 1
            OBVIOUS
        <3> HIDE DEF r
        <3>4. (i \in DOMAIN fwq /\ fwq'[i] = fwq[i]) \/ fwq'[i] = r
            BY ONLY <3>2
        <3>5. CASE i \in DOMAIN fwq /\ fwq'[i] = fwq[i]
            <4>1. i \in DOMAIN fwq /\ x = <<fwq[i].cmd, fwq[i].id>>
                BY ONLY <3>1, <3>5
            <4> QED
                BY <4>1, OutstandingIs
        <3>6. CASE fwq'[i] = r
            BY ONLY <3>1, <3>3, <3>6
        <3> QED
            BY ONLY <3>4, <3>5, <3>6
    <2>3. CASE \E k \in Sends' : x = <<stack'[k].cmd, stack'[k].id>>
        BY <1>4, <2>3, SendsAre
    <2> QED
        BY <2>1, <2>2, <2>3, OutstandingIs
<1>8. ASSUME NEW x \in Outstanding PROVE x[1] # c
    <2>1. PICK k \in 1 .. pos - 1 : k \in DOMAIN Script /\ Script[k] = x[1]
        BY <1>8 DEF AnswerInv, Names
    <2>2. k # pos
        BY <1>2, <2>1
    <2> QED
        BY <1>1, <2>1, <2>2 DEF SentOnce
<1>9. new[1] = c /\ new[2] = sent + 1
    OBVIOUS
<1> HIDE DEF new, c
<1>10. Names'
    <2>1. ASSUME NEW x \in Outstanding', NEW y \in Outstanding', x[1] = y[1]
          PROVE  x[2] = y[2]
        BY <1>7, <1>8, <1>9, <2>1 DEF AnswerInv, Names
    <2>2. ASSUME NEW x \in Outstanding'
          PROVE  \E k \in 1 .. pos' - 1 : k \in DOMAIN Script /\ Script[k] = x[1]
        <3>1. CASE x \in Outstanding
            <4>1. PICK k \in 1 .. pos - 1 : k \in DOMAIN Script /\ Script[k] = x[1]
                BY <3>1 DEF AnswerInv, Names
            <4>2. k \in 1 .. pos' - 1
                BY <1>2, <4>1
            <4> QED
                BY <4>1, <4>2
        <3>2. CASE x = new
            <4>1. pos \in 1 .. pos' - 1
                BY <1>2
            <4> QED
                BY <1>1, <1>9, <3>2, <4>1 DEF c
        <3> QED
            BY <1>7, <3>1, <3>2
    <2> QED
        BY <2>1, <2>2 DEF Names
<1> QED
    BY <1>2, <1>3, <1>4, <1>6, <1>10 DEF AnswerInv

\* The device delivers an answer, or something else.
LEMMA DeviceNames ==
    ASSUME FlatAll, FlatAll', AnswerInv, FwAnswer \/ AirFrame
    PROVE  AnswerInv'
<1> DEFINE m == npkts + 1
<1>1. /\ UNCHANGED <<stack, log, wait, pos>> /\ npkts' = npkts + 1
      /\ fwq \in Seq([cmd : Cmds, id : Nat]) /\ air \in Seq(STRING \ {"resp"})
    BY DEF FwAnswer, AirFrame, Deliver, cmdvars, AnswerInv
<1>2. \E p : /\ p.n = npkts + 1 /\ Deliver(p)
             /\ \/ /\ fwq # << >> /\ p.cmd = fwq[1].cmd /\ p.id = fwq[1].id
                   /\ fwq' = Tail(fwq) /\ air' = air
                \/ /\ p.kind # "resp" /\ fwq' = fwq
                   /\ air # << >> /\ air' = Tail(air)
    <2>1. CASE FwAnswer
        <3> DEFINE q == [kind |-> "resp", cmd |-> Head(fwq).cmd, id |-> Head(fwq).id,
                         n |-> npkts + 1]
        <3>1. fwq # << >> /\ Deliver(q) /\ fwq' = Tail(fwq) /\ air' = air
            BY <2>1 DEF FwAnswer
        <3>2. Head(fwq) = fwq[1]
            BY ONLY <1>1, <3>1
        <3>3. q.n = npkts + 1 /\ q.cmd = fwq[1].cmd /\ q.id = fwq[1].id
            BY ONLY <3>2
        <3> HIDE DEF q
        <3> QED
            BY ONLY <3>1, <3>3
    <2>2. CASE AirFrame
        <3>1. air # << >> /\ Head(air) # "resp"
            <4>1. air # << >>
                BY <2>2 DEF AirFrame
            <4> QED
                BY ONLY <1>1, <4>1
        <3> DEFINE q == [kind |-> Head(air), n |-> npkts + 1]
        <3>2. Deliver(q) /\ fwq' = fwq /\ air' = Tail(air)
            BY <2>2 DEF AirFrame, cmdvars
        <3>3. q.n = npkts + 1 /\ q.kind # "resp"
            BY ONLY <3>1
        <3> HIDE DEF q
        <3> QED
            BY ONLY <3>1, <3>2, <3>3
    <2> QED
        BY <2>1, <2>2
<1>3. PICK p : /\ p.n = npkts + 1 /\ Deliver(p)
               /\ \/ /\ fwq # << >> /\ p.cmd = fwq[1].cmd /\ p.id = fwq[1].id
                     /\ fwq' = Tail(fwq) /\ air' = air
                  \/ /\ p.kind # "resp" /\ fwq' = fwq
                     /\ air # << >> /\ air' = Tail(air)
    BY <1>2
<1>4. /\ fwq' \in Seq([cmd : Cmds, id : Nat]) /\ air' \in Seq(STRING \ {"resp"})
      /\ \A i \in DOMAIN fwq' : \E j \in DOMAIN fwq : fwq'[i] = fwq[j]
    <2>1. CASE fwq # << >> /\ fwq' = Tail(fwq) /\ air' = air
        <3>1. /\ fwq' \in Seq([cmd : Cmds, id : Nat])
              /\ \A i \in DOMAIN fwq' : i + 1 \in DOMAIN fwq /\ fwq'[i] = fwq[i + 1]
            BY <1>1, <2>1
        <3> QED
            BY <1>1, <2>1, <3>1
    <2>2. CASE fwq' = fwq /\ air # << >> /\ air' = Tail(air)
        <3>1. air' \in Seq(STRING \ {"resp"})
            BY <1>1, <2>2
        <3> QED
            BY <1>1, <2>2, <3>1
    <2> QED
        BY <1>3, <2>1, <2>2
<1>5. PICK d : d = Restocked
    OBVIOUS
<1>6. /\ Ring(d) /\ Len(log) \in Nat /\ npkts \in Nat /\ d \in Nat /\ d <= Len(log)
    <2>1. Ring(d) /\ Len(log) \in Nat
        BY <1>5 DEF FlatAll, RingInv
    <2>2. npkts \in Nat /\ d \in Nat
        BY <2>1, RingFacts
    <2>3. d = Len(log) \/ d = Len(log) - 1
        BY <1>5, RestockedIs
    <2> QED
        BY <2>1, <2>2, <2>3
<1>7. /\ \A k \in d + 1 .. npkts : buf'[used'[Slot(k)]] = buf[used[Slot(k)]]
      /\ buf'[used'[Slot(m)]] = p
    BY <1>3, <1>6, RingDelivers
<1>8. m = npkts + 1
    OBVIOUS
<1> HIDE DEF m
<1>9. ASSUME NEW x \in Outstanding' PROVE x \in Outstanding
    <2>1. \/ \E i \in DOMAIN fwq' : x = <<fwq'[i].cmd, fwq'[i].id>>
          \/ \E k \in Len(log) + 1 .. npkts + 1 :
                /\ buf'[used'[Slot(k)]].kind = "resp"
                /\ x = <<buf'[used'[Slot(k)]].cmd, buf'[used'[Slot(k)]].id>>
          \/ \E k \in Sends : x = <<stack[k].cmd, stack[k].id>>
        BY <1>1, <1>9 DEF Outstanding, Answered, Slot, Sends
    <2>2. CASE \E i \in DOMAIN fwq' : x = <<fwq'[i].cmd, fwq'[i].id>>
        BY <1>4, <2>2, OutstandingIs
    <2>3. CASE \E k \in Len(log) + 1 .. npkts + 1 :
                  /\ buf'[used'[Slot(k)]].kind = "resp"
                  /\ x = <<buf'[used'[Slot(k)]].cmd, buf'[used'[Slot(k)]].id>>
        <3>1. PICK k \in Len(log) + 1 .. npkts + 1 :
                  /\ buf'[used'[Slot(k)]].kind = "resp"
                  /\ x = <<buf'[used'[Slot(k)]].cmd, buf'[used'[Slot(k)]].id>>
            BY <2>3
        <3>2. CASE k = m
            <4>1. p.kind = "resp" /\ x = <<p.cmd, p.id>>
                BY <1>7, <3>1, <3>2
            <4>2. fwq # << >> /\ x = <<fwq[1].cmd, fwq[1].id>>
                BY <1>3, <4>1
            <4>3. 1 \in DOMAIN fwq
                BY <1>1, <4>2
            <4> QED
                BY <4>2, <4>3, OutstandingIs
        <3>3. CASE k # m
            <4>1. k \in d + 1 .. npkts /\ k \in Len(log) + 1 .. npkts
                BY <1>6, <1>8, <3>3
            <4>2. buf'[used'[Slot(k)]] = buf[used[Slot(k)]]
                BY <1>7, <4>1
            <4>3. k \in Answered
                BY <3>1, <4>1, <4>2 DEF Answered
            <4> QED
                BY <3>1, <4>2, <4>3, OutstandingIs
        <3> QED
            BY <3>2, <3>3
    <2> QED
        BY <2>1, <2>2, <2>3, OutstandingIs
<1>10. Names'
    BY <1>1, <1>9, NamesShrink DEF AnswerInv
<1> QED
    BY <1>1, <1>4, <1>10 DEF AnswerInv, First

\* A packet handed over fills the slot only with the answer waited for.
LEMMA DispatchAnswers ==
    ASSUME FlatAll, FlatAll', AnswerInv, PollDispatch, First(stack'), wait'.done
    PROVE  wait'.cmd = stack'[1].cmd /\ wait'.by = stack'[1].id
<1> DEFINE p == buf[used[Top.i]]
<1>1. First(stack) /\ stack'[1].cmd = stack[1].cmd /\ stack'[1].id = stack[1].id
    <2>1. ~WorkerCmd
        BY DEF WorkerCmd, PollDispatch, Running
    <2> QED
        BY <2>1, SameCalls DEF Worker, SameCall
<1>2. HandleAnswer(p) \/ HandleEapol(p) \/ HandlePlain(p)
    BY DEF PollDispatch
<1>3. wait.cmd = stack[1].cmd /\ (wait.done => wait.by = stack[1].id)
    BY <1>1 DEF AnswerInv
<1>4. CASE wait' = wait
    BY <1>1, <1>3, <1>4
<1>5. CASE HandleAnswer(p)
    <2>1. /\ Answers(p) /\ wait' = [wait EXCEPT !.done = TRUE, !.by = p.id] /\ IsSlot(wait)
        BY <1>5 DEF HandleAnswer, FlatAll, StackInv
    <2>2. wait'.cmd = wait.cmd /\ wait'.by = p.id
        BY <2>1 DEF IsSlot
    <2>3. p.kind = "resp" /\ p.cmd = wait.cmd
        BY <2>1 DEF Answers
    <2>4. /\ Polling /\ Top.ph = "next" /\ Top.i # Top.r
        BY DEF PollDispatch, Running, Polling
    <2>5. /\ Len(log) \in Nat /\ npkts \in Nat /\ Len(log) + 1 <= npkts
          /\ Top.i = Slot(Len(log) + 1)
        BY <2>4, PollPlace DEF FlatAll
    <2>6. Len(log) + 1 \in Answered
        <3>1. Len(log) + 1 \in Len(log) + 1 .. npkts
            BY <2>5
        <3> QED
            BY <2>3, <2>5, <3>1 DEF Answered
    <2>7. <<p.cmd, p.id>> \in Outstanding
        BY <2>5, <2>6, OutstandingIs
    <2>8. <<stack[1].cmd, stack[1].id>> \in Outstanding
        BY <1>1, SendsAre, OutstandingIs
    <2>9. p.id = stack[1].id
        <3> DEFINE x == <<p.cmd, p.id>>
                   y == <<stack[1].cmd, stack[1].id>>
        <3>1. x[1] = y[1] /\ x[2] = p.id /\ y[2] = stack[1].id
            BY <1>3, <2>3
        <3> HIDE DEF x, y
        <3>2. x \in Outstanding /\ y \in Outstanding
            BY <2>7, <2>8 DEF x, y
        <3> QED
            BY <3>1, <3>2 DEF AnswerInv, Names
    <2> QED
        BY <1>1, <1>3, <2>2, <2>9
<1> QED
    BY <1>2, <1>4, <1>5 DEF HandleEapol, HandlePlain

LEMMA WorkerAnswers ==
    ASSUME FlatAll, FlatAll', AnswerInv, Worker, ~WorkerCmd
    PROVE  AnswerInv'
<1>1. SameCall
    BY SameCalls
<1>2. /\ ~(Msg3Ptk \/ Msg3Gtk \/ Msg3Failed \/ Msg3Connected \/ GroupGtk \/ GroupDone)
    <2>1. ~(stack # << >> /\ Top.fn \in KeyKinds)
        BY DEF FlatAll, FlatInv, Top, KeyKinds
    <2> QED
        BY <2>1 DEF Msg3Ptk, Msg3Gtk, Msg3Failed, Msg3Connected, GroupGtk, GroupDone,
           Running, KeyKinds
<1>3. \/ WorkerPoll \/ SendPoll \/ SendDone \/ SendAgain \/ SendTimeout
      \/ PollDispatch \/ PollRestock \/ PollReturn
    BY <1>2 DEF Worker
<1>4. UNCHANGED <<fwq, used, buf, npkts, pos, air>>
    BY <1>3 DEF WorkerPoll, SendPoll, SendDone, SendAgain, SendTimeout, PollDispatch,
       PollRestock, PollReturn, ringvars, cmdvars
<1>5. log' = log \/ \E n : log' = Append(log, n)
    BY <1>3 DEF WorkerPoll, SendPoll, SendDone, SendAgain, SendTimeout, PollDispatch,
       PollRestock, PollReturn
<1>6. Len(log') >= Len(log)
    <2>1. log \in Seq(Nat) /\ log' \in Seq(Nat)
        BY DEF FlatAll, RingInv
    <2>2. CASE log' = log
        BY <2>1, <2>2
    <2>3. ASSUME NEW n, log' = Append(log, n) PROVE Len(log') >= Len(log)
        <3>1. Len(log') = Len(log) + 1
            BY <2>1, <2>3
        <3> QED
            BY <2>1, <3>1
    <2> QED
        BY <1>5, <2>2, <2>3
<1>7. Names'
    BY <1>1, <1>4, <1>6, WorkerNames
<1>8. ASSUME First(stack')
      PROVE  wait'.cmd = stack'[1].cmd /\ (wait'.done => wait'.by = stack'[1].id)
    <2>1. /\ First(stack) /\ stack'[1].cmd = stack[1].cmd /\ stack'[1].id = stack[1].id
          /\ wait.cmd = stack[1].cmd /\ (wait.done => wait.by = stack[1].id)
        BY <1>1, <1>8 DEF SameCall, AnswerInv
    <2>2. CASE wait' = wait
        BY <2>1, <2>2
    <2>3. CASE PollDispatch
        <3>1. wait' = wait \/ wait'.done
            BY <2>3 DEF PollDispatch, HandleAnswer, HandleEapol, HandlePlain, FlatAll,
               StackInv, IsSlot
        <3> QED
            BY <1>8, <2>2, <2>3, <3>1, DispatchAnswers
    <2>4. ~SendTimeout
        <3>1. ASSUME SendTimeout PROVE FALSE
            <4>1. stack # << >> /\ Top.fn = "send"
                BY <3>1 DEF SendTimeout, Running
            <4>2. Len(stack) = 1
                BY <4>1, SendAlone
            <4>3. Len(stack') = Len(stack) - 1 /\ Shape(stack')
                BY <3>1, SendReturns DEF FlatAll, StackInv
            <4>4. Len(stack') = 0 /\ stack' \in Seq(Frame)
                BY <4>2, <4>3 DEF Shape
            <4>5. stack' = << >>
                BY <4>4
            <4> QED
                BY <1>8, <4>5 DEF First
        <3> QED
            BY <3>1
    <2>5. PollDispatch \/ wait' = wait
        BY <1>3, <2>4 DEF WorkerPoll, SendPoll, SendDone, SendAgain, PollRestock,
           PollReturn, cmdvars
    <2> QED
        BY <2>2, <2>3, <2>5
<1> QED
    BY <1>4, <1>7, <1>8 DEF AnswerInv

LEMMA NextAnswers ==
    ASSUME SentOnce, FlatAll, FlatAll', AnswerInv, [Next]_vars
    PROVE  AnswerInv'
<1>1. CASE UNCHANGED vars
    <2>1. UNCHANGED <<fwq, buf, used, npkts, air, log, stack, pos, wait>>
        BY <1>1 DEF vars, ringvars, cmdvars
    <2>2. Answered' = Answered /\ Sends' = Sends
        BY <2>1 DEF Answered, Sends, Slot
    <2>3. Outstanding' = Outstanding
        BY <2>1, <2>2 DEF Outstanding, Slot
    <2>4. Names'
        BY <2>1, <2>3, NamesShrink DEF AnswerInv
    <2> QED
        BY <2>1, <2>4 DEF AnswerInv, First
<1> QED
    BY <1>1, CmdNames, WorkerAnswers, DeviceNames DEF Next

(***************************************************************************)
(* With no key message and no command sent twice, the answer that ends the *)
(* wait of iwlm_trans_send_cmd is the answer to that very command, late    *)
(* answers of commands that timed out included.                            *)
(***************************************************************************)
THEOREM AnswerMatchesHolds == Flat /\ SentOnce => (Spec => []AnswerMatches)
<1> SUFFICES ASSUME Flat, SentOnce PROVE Spec => []AnswerMatches
    OBVIOUS
<1> DEFINE Inv == FlatAll /\ AnswerInv
<1>1. Init => Inv
    <2> SUFFICES ASSUME Init PROVE FlatAll /\ AnswerInv
        OBVIOUS
    <2>1. FlatAll
        BY InitFlat
    <2>2. fwq = << >> /\ stack = << >> /\ log = << >> /\ npkts = 0 /\ air = Air
        BY DEF Init
    <2>3. Outstanding = {}
        <3>1. Answered = {}
            BY <2>2 DEF Answered
        <3>2. Sends = {}
            BY <2>2 DEF Sends
        <3>3. DOMAIN fwq = {}
            BY ONLY <2>2
        <3>4. \A x : x \notin Outstanding
            BY ONLY <3>1, <3>2, <3>3, OutstandingIs
        <3> QED
            BY ONLY <3>4
    <2>4. air \in Seq(STRING \ {"resp"}) /\ fwq \in Seq([cmd : Cmds, id : Nat])
        BY <2>2, ScriptAssumption
    <2> QED
        BY <2>1, <2>2, <2>3, <2>4 DEF AnswerInv, Names, First
<1>2. Inv /\ [Next]_vars => Inv'
    BY NextFlat, NextAnswers
<1>3. ASSUME Inv PROVE AnswerMatches
    <2> SUFFICES ASSUME Running("send", "check"), wait.done PROVE wait.by = Top.id
        BY DEF AnswerMatches
    <2>1. stack # << >> /\ Top.fn = "send"
        BY DEF Running
    <2>2. Top = stack[1] /\ First(stack)
        BY <1>3, <2>1, SendAlone DEF First
    <2> QED
        BY <1>3, <2>2 DEF AnswerInv
<1> QED
    BY <1>1, <1>2, <1>3, PTL DEF Spec
=============================================================================
