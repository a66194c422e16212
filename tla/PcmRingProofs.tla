--------------------------- MODULE PcmRingProofs ---------------------------
(***************************************************************************)
(* The ring of a playback stream is never overwritten, every frame in it   *)
(* is accounted for once, and a stream that ran dry did: for every size of *)
(* the ring and every engine, as long as the pointers do not reach their   *)
(* boundary.                                                               *)
(***************************************************************************)
EXTENDS PcmProofs

(***************************************************************************)
(* The stream, with w frames written to it: nothing is told to the engine  *)
(* of one that is prepared, everything of one that runs, and what is in    *)
(* the ring fits.                                                          *)
(***************************************************************************)
Stream(s, lev, w) ==
    /\ s.state = "PREPARE" =>
         /\ s.lastAppl = 0 /\ s.pending = 0 /\ s.total = 0 /\ s.processed = 0
         /\ s.fed = 0 /\ s.hw = 0 /\ lev = 0
         /\ s.devSize = s.dma /\ w <= s.dma
    /\ s.state = "RUNNING" =>
         s.lastAppl = s.appl /\ s.total + s.pending = s.appl
    /\ s.state \in {"PREPARE", "RUNNING"} /\ s.buffer > 0 =>
         Books(s, lev) /\ Ring(s) /\ s.appl = w
    /\ s.state \in {"SETUP", "PREPARE", "RUNNING", "XRUN"} /\ s.buffer > 0 =>
         s.boundary \in Nat /\ MaxFrames < s.boundary

StreamInv == Stream(pcm, level, written)

CallInv ==
    /\ written \in Nat /\ written <= MaxFrames
    /\ call.busy =>
         /\ DOMAIN call = {"busy", "left", "avail", "done"}
         /\ call.left \in Nat /\ call.avail \in Nat
         /\ written + call.left <= MaxFrames
         /\ pcm.state = "XRUN" => call.left = 0
         /\ pcm.state # "XRUN" => pcm.appl + call.avail <= pcm.hw + pcm.buffer

IInv == GeometryInv /\ StreamInv /\ CallInv

(***************************************************************************)
(* No stream writes as many frames between two prepares as there are below *)
(* the boundary of its ring.                                               *)
(***************************************************************************)
NoWrap ==
    \A c \in Configs :
        c.period * c.count \in 1 .. MaxDma =>
            Boundary(c.period * c.count) \in MaxFrames + 1 .. IntMax
-----------------------------------------------------------------------------
\* A stream that runs.
Live(s, lev) == Geometry(s) /\ s.state = "RUNNING" /\ Stream(s, lev, s.appl)

\* Feeding the engine leaves the ring alone.
LEMMA RingKept ==
    ASSUME NEW s, NEW t, Ring(s), Kept(s, t),
           s.processed \in Nat, t.processed \in Nat, s.processed <= t.processed
    PROVE  Ring(t)
BY DEF Ring, Kept

\* The engine has played no more than was written.
LEMMA PlayedBound ==
    ASSUME NEW s, NEW lev, Live(s, lev)
    PROVE  /\ Books(s, lev) /\ Ring(s)
           /\ s.buffer \in Nat \ {0} /\ s.dma = s.buffer
           /\ s.stop \in Nat /\ s.stop > 0
           /\ s.boundary \in Nat /\ MaxFrames < s.boundary
           /\ Miu * lev \in Nat
           /\ s.total - Miu * lev <= s.appl
           /\ s.processed <= s.appl /\ s.hw <= s.appl
           /\ Periods(s) /\ DOMAIN s = Fields
<1>1. s.buffer \in Nat \ {0} /\ s.dma = s.buffer /\ s.stop \in Nat /\ s.stop > 0
    BY DEF Live, Geometry
<1>2. /\ Books(s, lev) /\ Ring(s) /\ s.total + s.pending = s.appl
      /\ s.boundary \in Nat /\ MaxFrames < s.boundary
    BY <1>1 DEF Live, Stream
<1>3. Miu * lev \in Nat
    BY <1>2, BoundsAssumption DEF Books
<1>4. Periods(s) /\ DOMAIN s = Fields
    BY <1>1 DEF Live, Geometry, Periods
<1> QED
    BY <1>1, <1>2, <1>3, <1>4 DEF Books, Ring

\* A poll: hw catches up with the engine, and a stream that is found dry has
\* been played down to its stop threshold.
LEMMA Polled ==
    ASSUME NEW g, NEW lev, Live(g, lev), g.appl <= MaxFrames,
           NEW s, s = View(g, lev), NEW k, k = Kicked(s, lev)
    PROVE  /\ g.hw <= s.hw /\ s.hw \in Nat
           /\ k[1].hw = s.hw /\ k[1].appl = g.appl
           /\ PlayAvail(s) = s.hw + g.buffer - g.appl /\ PlayAvail(s) \in Nat
           /\ k[1].boundary = g.boundary
           /\ s.state = "RUNNING" => Live(k[1], k[2])
           /\ s.state = "XRUN" =>
                g.appl - (g.total - Miu * lev) <= g.buffer - g.stop
<1> DEFINE p == Pointed(g, lev)
           u == AdvanceHw(p)
<1>1. /\ Books(g, lev) /\ Ring(g)
      /\ g.buffer \in Nat \ {0} /\ g.dma = g.buffer
      /\ g.stop \in Nat /\ g.stop > 0
      /\ g.boundary \in Nat /\ MaxFrames < g.boundary
      /\ Miu * lev \in Nat
      /\ g.total - Miu * lev <= g.appl
      /\ DOMAIN g = Fields
    BY PlayedBound
<1>2. /\ Books(p, lev) /\ Kept(g, p) /\ DOMAIN p = Fields
      /\ p.total = g.total /\ p.pending = g.pending
      /\ p.processed = g.total - Miu * lev
    BY <1>1, PointedAt DEF Kept
<1> HIDE DEF p
<1>3. /\ Ring(p) /\ p.processed \in Nat /\ p.processed <= p.appl
      /\ p.buffer \in Nat \ {0} /\ p.dma = p.buffer
      /\ p.boundary \in Nat /\ p.appl < p.boundary
    <2>1. Ring(p) /\ p.processed \in Nat
        BY <1>1, <1>2, RingKept DEF Books
    <2>2. MaxFrames \in Nat /\ p.appl \in Nat
        BY <2>1, BoundsAssumption DEF Ring
    <2> QED
        BY <1>1, <1>2, <2>1, <2>2 DEF Kept
<1>4. Moved(p, u) /\ Ring(u) /\ p.hw <= u.hw
    BY <1>2, <1>3, AdvanceMoved, Advanced
<1> HIDE DEF u
<1>5. /\ u.state = "RUNNING" /\ DOMAIN u = Fields
      /\ u.hw <= u.processed /\ u.processed = g.total - Miu * lev
      /\ u.appl = g.appl /\ u.buffer = g.buffer /\ u.stop = g.stop
      /\ u.boundary = g.boundary /\ u.lastAppl = g.lastAppl
      /\ u.total = g.total /\ u.pending = g.pending
      /\ Books(u, lev) /\ g.hw <= u.hw /\ u.hw \in Nat /\ u.hw <= u.appl
    <2>1. g.state = "RUNNING"
        BY DEF Live
    <2>2. Books(u, lev)
        BY <1>2, <1>4 DEF Books, Told, Kept, Moved
    <2>3. u.hw <= u.processed /\ u.hw \in Nat /\ u.processed <= u.appl
        BY <1>3, <1>4 DEF Ring, Moved
    <2>4. u.hw <= u.appl
        BY <1>4, <2>2, <2>3 DEF Ring, Books
    <2> QED
        BY <1>2, <1>4, <2>1, <2>2, <2>3, <2>4 DEF Kept, Moved
<1>6. PlayAvail(u) = u.hw + u.buffer - u.appl /\ PlayAvail(u) \in Nat
    BY <1>1, <1>4, <1>5, AvailIs
<1>7. \/ s = u
      \/ /\ PlayAvail(u) >= u.stop
         /\ s = [[u EXCEPT !.running = FALSE] EXCEPT !.state = "XRUN"]
    BY Zenon DEF View, CheckXrun, TriggerStop, u, p
<1>8. CASE s = u
    <2>1. k = QueuePending(u, lev)
        BY <1>5, <1>8 DEF Kicked
    <2>2. Periods(u)
        BY <1>2, <1>4, PlayedBound DEF Kept, Moved, Periods
    <2>3. /\ Books(k[1], k[2]) /\ Kept(u, k[1])
          /\ k[1].total + k[1].pending = u.total + u.pending
          /\ u.processed <= k[1].processed
        BY <1>5, <2>1, <2>2, Fed
    <2>4. Ring(k[1])
        BY <1>4, <1>5, <2>3, RingKept DEF Books
    <2>5. Geometry(k[1]) /\ k[1].state = "RUNNING"
        <3>1. Geometry(g) /\ g.state = "RUNNING"
            BY DEF Live
        <3>2. Geometry(k[1])
            BY <3>1, PolledGeometry
        <3> QED
            BY <1>5, <2>3, <3>2 DEF Kept
    <2>6. Stream(k[1], k[2], k[1].appl)
        <3>1. /\ k[1].appl = g.appl /\ k[1].lastAppl = g.lastAppl
              /\ k[1].boundary = g.boundary
            BY <1>5, <2>3 DEF Kept
        <3>2. g.lastAppl = g.appl /\ g.total + g.pending = g.appl
            BY DEF Live, Stream
        <3>3. /\ k[1].lastAppl = k[1].appl
              /\ k[1].total + k[1].pending = k[1].appl
            BY <1>5, <2>3, <3>1, <3>2
        <3> QED
            BY <1>1, <2>3, <2>4, <2>5, <3>1, <3>3 DEF Stream
    <2> QED
        BY <1>5, <1>6, <1>8, <2>3, <2>5, <2>6 DEF Live, Kept
<1>9. CASE /\ PlayAvail(u) >= u.stop
           /\ s = [[u EXCEPT !.running = FALSE] EXCEPT !.state = "XRUN"]
    <2>1. /\ s.state = "XRUN" /\ s.hw = u.hw /\ s.appl = u.appl
          /\ s.buffer = u.buffer /\ s.boundary = u.boundary
        BY <1>5, <1>9 DEF Fields
    <2>2. k = <<s, lev>>
        BY <2>1 DEF Kicked
    <2>3. PlayAvail(s) = PlayAvail(u)
        BY <2>1, Zenon DEF PlayAvail
    <2>4. g.appl - (g.total - Miu * lev) <= g.buffer - g.stop
        BY <1>1, <1>5, <1>6, <1>9 DEF Ring, Books
    <2> QED
        BY <1>5, <1>6, <2>1, <2>2, <2>3, <2>4
<1> QED
    BY <1>7, <1>8, <1>9

\* A stream that is prepared or runs, with a ring.
Filling(s, lev) ==
    /\ Geometry(s) /\ s.state \in {"PREPARE", "RUNNING"} /\ s.buffer > 0
    /\ Stream(s, lev, s.appl)

\* hw does not pass appl.
LEMMA FillingBound ==
    ASSUME NEW s, NEW lev, Filling(s, lev)
    PROVE  /\ Books(s, lev) /\ Ring(s) /\ s.hw <= s.appl
           /\ s.buffer \in Nat \ {0} /\ s.dma = s.buffer
           /\ s.boundary \in Nat /\ MaxFrames < s.boundary
           /\ Periods(s) /\ DOMAIN s = Fields
<1>1. CASE s.state = "RUNNING"
    BY <1>1, PlayedBound DEF Filling, Live
<1>2. CASE s.state = "PREPARE"
    <2>1. s.buffer \in Nat \ {0} /\ s.dma = s.buffer
        BY <1>2 DEF Filling, Geometry
    <2>2. Periods(s) /\ DOMAIN s = Fields
        BY <1>2 DEF Filling, Geometry, Periods
    <2>3. /\ Books(s, lev) /\ Ring(s)
          /\ s.boundary \in Nat /\ MaxFrames < s.boundary
        BY <1>2 DEF Filling, Stream
    <2>4. s.hw = 0
        BY <1>2 DEF Filling, Stream
    <2> QED
        BY <2>1, <2>2, <2>3, <2>4 DEF Ring
<1> QED
    BY <1>1, <1>2 DEF Filling

\* A chunk that fits is added to what is in the ring, and once the stream
\* runs the engine has been told of it.
LEMMA CopiedStream ==
    ASSUME NEW g, NEW lev, Filling(g, lev), NEW n \in Nat,
           g.appl + n <= MaxFrames, g.appl + n <= g.hw + g.buffer,
           NEW k, k = Chunked(g, n, lev)
    PROVE  /\ Filling(k[1], k[2])
           /\ k[1].appl = g.appl + n /\ k[1].hw = g.hw
           /\ k[1].buffer = g.buffer
<1> DEFINE c == Copied(g, n)
           s == Started(c)
           a == Acked(s, lev)
<1>1. /\ Books(g, lev) /\ Ring(g) /\ g.hw <= g.appl
      /\ g.buffer \in Nat \ {0} /\ g.dma = g.buffer
      /\ g.boundary \in Nat /\ MaxFrames < g.boundary
      /\ Periods(g) /\ DOMAIN g = Fields /\ MaxFrames \in Nat
    BY FillingBound, BoundsAssumption
<1>2. /\ g.state \in {"PREPARE", "RUNNING"}
      /\ Geometry(g) /\ Stream(g, lev, g.appl)
    BY DEF Filling
<1>3. c = [g EXCEPT !.appl = g.appl + n]
    <2>1. ~(g.appl + n >= g.boundary)
        BY <1>1 DEF Ring
    <2> QED
        BY <2>1 DEF Copied
<1>4. /\ DOMAIN c = Fields /\ c.appl = g.appl + n /\ c.state = g.state
      /\ c.hw = g.hw /\ c.base = g.base /\ c.buffer = g.buffer
      /\ c.lastAppl = g.lastAppl /\ c.pending = g.pending /\ c.total = g.total
      /\ c.processed = g.processed /\ c.inflight = g.inflight
      /\ c.devPeriod = g.devPeriod /\ c.fed = g.fed
    BY <1>1, <1>3 DEF Fields
<1> HIDE DEF c
<1>5. /\ DOMAIN s = Fields /\ s.appl = g.appl + n
      /\ s.hw = g.hw /\ s.base = g.base /\ s.buffer = g.buffer
      /\ s.lastAppl = g.lastAppl /\ s.pending = g.pending /\ s.total = g.total
      /\ s.processed = g.processed /\ s.inflight = g.inflight
      /\ s.devPeriod = g.devPeriod /\ s.fed = g.fed
      /\ s.state \in {"PREPARE", "RUNNING"}
      /\ s.state = "PREPARE" => g.state = "PREPARE"
    <2>1. \/ s = c
          \/ s = [c EXCEPT !.state = "RUNNING", !.running = TRUE]
        BY DEF Started
    <2> HIDE DEF s
    <2>2. CASE s = c
        BY <1>2, <1>4, <2>2
    <2>3. CASE s = [c EXCEPT !.state = "RUNNING", !.running = TRUE]
        <3>1. /\ DOMAIN s = Fields /\ s.appl = c.appl /\ s.state = "RUNNING"
              /\ s.hw = c.hw /\ s.base = c.base /\ s.buffer = c.buffer
              /\ s.lastAppl = c.lastAppl /\ s.pending = c.pending
              /\ s.total = c.total /\ s.processed = c.processed
              /\ s.inflight = c.inflight /\ s.devPeriod = c.devPeriod
              /\ s.fed = c.fed
            BY <1>4, <2>3 DEF Fields
        <3> QED
            BY <1>4, <3>1
    <2> QED
        BY <2>1, <2>2, <2>3
<1> HIDE DEF s
<1>6. Books(s, lev) /\ Periods(s) /\ Ring(s)
    BY <1>1, <1>5 DEF Books, Told, Periods, Ring
<1>7. k = QueuePending(a[1], a[2])
    BY DEF Chunked, a, s, c
<1>8. /\ Geometry(k[1]) /\ k[1].buffer = g.buffer
      /\ k[1].state \in {"PREPARE", "RUNNING", "XRUN"}
    BY <1>1, <1>2, CopiedGeometry
<1>9. CASE s.state = "PREPARE"
    <2>1. a = <<s, lev>>
        BY <1>9 DEF Acked
    <2>2. /\ g.state = "PREPARE" /\ s.pending = 0 /\ lev = 0 /\ s.total = 0
          /\ s.lastAppl = 0 /\ s.processed = 0 /\ s.fed = 0 /\ s.hw = 0
        BY <1>2, <1>5, <1>9 DEF Stream
    <2>3. k = <<s, lev>>
        BY <1>7, <2>1, <2>2 DEF QueuePending
    <2>4. Geometry(s) /\ s.dma = s.buffer /\ s.devSize = s.buffer
        BY <1>1, <1>5, <1>8, <1>9, <2>3 DEF Geometry
    <2>5. s.boundary \in Nat /\ MaxFrames < s.boundary
        <3>1. s = c \/ s = [c EXCEPT !.state = "RUNNING", !.running = TRUE]
            BY DEF s, Started
        <3> QED
            BY <1>1, <1>3, <1>4, <3>1 DEF Fields
    <2>6. s.appl <= s.dma
        BY <1>1, <1>5, <2>2, <2>4
    <2>7. Stream(s, lev, s.appl)
        BY <1>5, <1>6, <1>9, <2>2, <2>4, <2>5, <2>6 DEF Stream
    <2> QED
        BY <1>1, <1>5, <1>9, <2>3, <2>4, <2>7 DEF Filling
<1>10. CASE s.state = "RUNNING"
    <2> DEFINE delta == s.appl - s.lastAppl
               b == [s EXCEPT !.lastAppl = s.appl,
                              !.pending = @ + Max({delta, 0})]
    <2>1. a = <<b, lev>> \/ a = QueuePending(b, lev)
        BY <1>10, Zenon DEF Acked, Ack
    <2>2. delta \in Nat /\ s.total + s.pending + delta = s.appl
        <3>1. CASE g.state = "PREPARE"
            BY <1>1, <1>2, <1>5, <3>1 DEF Stream, Ring
        <3>2. CASE g.state = "RUNNING"
            <4>1. /\ g.lastAppl = g.appl /\ g.appl \in Nat
                  /\ g.total + g.pending = g.appl
                BY <1>1, <1>2, <3>2 DEF Stream, Ring
            <4> QED
                BY <1>1, <1>5, <4>1 DEF Books
        <3> QED
            BY <1>2, <3>1, <3>2
    <2>3. Max({delta, 0}) = delta
        <3> HIDE DEF delta
        <3> QED
            BY <2>2, MaxPair
    <2>4. /\ DOMAIN b = Fields /\ b.lastAppl = s.appl
          /\ b.pending = s.pending + delta
          /\ b.total = s.total /\ b.processed = s.processed /\ b.appl = s.appl
          /\ b.hw = s.hw /\ b.base = s.base /\ b.buffer = s.buffer
          /\ b.inflight = s.inflight /\ b.devPeriod = s.devPeriod
          /\ b.state = "RUNNING" /\ b.boundary = s.boundary /\ b.fed = s.fed
        BY <1>5, <1>10, <2>3 DEF Fields
    <2> HIDE DEF b, delta
    <2>5. Books(b, lev) /\ Periods(b) /\ Ring(b)
        BY <1>6, <2>2, <2>4 DEF Books, Told, Periods, Ring
    <2>6. /\ Books(a[1], a[2]) /\ Kept(b, a[1])
          /\ a[1].total + a[1].pending = b.total + b.pending
          /\ b.processed <= a[1].processed
        <3>1. CASE a = <<b, lev>>
            BY <2>5, <3>1 DEF Books, Kept
        <3>2. CASE a = QueuePending(b, lev)
            BY ONLY <2>4, <2>5, <3>2, Fed
        <3> QED
            BY <2>1, <3>1, <3>2
    <2> HIDE DEF a
    <2>7. Periods(a[1]) /\ DOMAIN a[1] = Fields
        BY <2>4, <2>5, <2>6 DEF Kept, Periods
    <2>8. /\ Books(k[1], k[2]) /\ Kept(a[1], k[1])
          /\ k[1].total + k[1].pending = a[1].total + a[1].pending
          /\ a[1].processed <= k[1].processed
        BY <1>7, <2>6, <2>7, Fed
    <2>9. Kept(b, k[1]) /\ b.processed <= k[1].processed
        <3>1. Kept(b, k[1])
            BY <2>6, <2>8, KeptTrans
        <3>2. /\ b.processed \in Nat /\ a[1].processed \in Nat
              /\ k[1].processed \in Nat
            BY <2>5, <2>6, <2>8 DEF Books
        <3> QED
            BY <2>6, <2>8, <3>1, <3>2
    <2>10. Ring(k[1])
        BY <2>5, <2>8, <2>9, RingKept DEF Books
    <2>11. /\ k[1].state = "RUNNING" /\ k[1].appl = g.appl + n /\ k[1].hw = g.hw
           /\ k[1].lastAppl = k[1].appl
           /\ k[1].total + k[1].pending = k[1].appl
        <3>1. /\ k[1].state = "RUNNING" /\ k[1].appl = s.appl /\ k[1].hw = s.hw
              /\ k[1].lastAppl = s.appl
            BY <2>4, <2>9 DEF Kept
        <3>2. k[1].total + k[1].pending = s.total + (s.pending + delta)
            BY <2>4, <2>6, <2>8
        <3>3. s.total \in Nat /\ s.pending \in Nat
            BY <1>6 DEF Books
        <3> QED
            BY <1>5, <2>2, <3>1, <3>2, <3>3
    <2>12. k[1].boundary \in Nat /\ MaxFrames < k[1].boundary
        <3>1. s = c \/ s = [c EXCEPT !.state = "RUNNING", !.running = TRUE]
            BY DEF s, Started
        <3>2. s.boundary = g.boundary
            BY <1>1, <1>3, <1>4, <3>1 DEF Fields
        <3> QED
            BY <1>1, <2>4, <2>9, <3>2 DEF Kept
    <2>13. Stream(k[1], k[2], k[1].appl)
        BY <2>8, <2>10, <2>11, <2>12 DEF Stream
    <2> QED
        BY <1>1, <1>8, <2>11, <2>13 DEF Filling
<1> QED
    BY <1>5, <1>9, <1>10

\* A stream that has just been prepared, or prepared again.
LEMMA PreparedStream ==
    ASSUME NEW d, Geometry(d), d.state \in {"SETUP", "PREPARE", "XRUN"},
           NEW lev, NEW w, w \in Nat, Stream(d, lev, w),
           NEW t, t = Prepare(d), NEW v, v = (IF t.appl = 0 THEN 0 ELSE w)
    PROVE  Stream(t, 0, v)
<1>1. /\ Geometry(t) /\ t.state \in {"SETUP", "PREPARE"}
      /\ t.lastAppl = 0 /\ t.pending = 0 /\ t.total = 0 /\ t.processed = 0
      /\ t.fed = 0
      /\ t.devSize = t.dma /\ t.inflight \in Int
      /\ t.dma = d.dma /\ t.buffer = d.buffer /\ t.boundary = d.boundary
      /\ \/ t.hw = 0 /\ t.base = 0 /\ t.appl = 0
         \/ /\ d.state = "PREPARE" /\ t.state = "PREPARE"
            /\ t.hw = d.hw /\ t.base = d.base /\ t.appl = d.appl
    BY PrepareIs
<1>2. t.buffer > 0 => t.boundary \in Nat /\ MaxFrames < t.boundary
    BY <1>1 DEF Stream
<1>3. Books(t, 0)
    BY <1>1, BoundsAssumption DEF Books, Told
<1>4. CASE t.hw = 0 /\ t.base = 0 /\ t.appl = 0
    <2>1. v = 0 /\ t.dma \in Nat /\ t.buffer \in Nat
        BY <1>1, <1>4 DEF Geometry
    <2>2. Lap(0, t.buffer)
        <3>1. 0 = 0 * t.buffer
            BY <2>1
        <3> QED
            BY <3>1 DEF Lap
    <2>3. t.buffer > 0 => Ring(t)
        BY <1>1, <1>4, <2>1, <2>2 DEF Ring
    <2> QED
        BY <1>1, <1>2, <1>3, <1>4, <2>1, <2>3 DEF Stream
<1>5. CASE /\ d.state = "PREPARE" /\ t.state = "PREPARE"
           /\ t.hw = d.hw /\ t.base = d.base /\ t.appl = d.appl
    <2>1. w <= d.dma /\ d.dma \in Nat /\ d.hw = 0 /\ d.processed = 0
        BY <1>5 DEF Stream, Geometry
    <2>2. d.buffer > 0 => Ring(d) /\ d.appl = w
        BY <1>5 DEF Stream
    <2>3. t.buffer > 0 => Ring(t) /\ t.appl = v
        BY <1>1, <1>5, <2>1, <2>2 DEF Ring
    <2>4. v <= t.dma
        BY <1>1, <2>1
    <2> QED
        BY <1>1, <1>2, <1>3, <1>5, <2>1, <2>3, <2>4 DEF Stream
<1> QED
    BY <1>1, <1>4, <1>5

\* A state without claims: closed, open, or set up with no ring.
LEMMA Unclaimed ==
    ASSUME NEW s, NEW lev, NEW w, s.state \in {"UNKOWN", "OPEN"}
    PROVE  Stream(s, lev, w)
BY DEF Stream

\* A new configuration.
LEMMA ParmsStream ==
    ASSUME NoWrap, NEW s, Geometry(s), NEW lev, NEW w, Stream(s, lev, w),
           NEW c \in Configs, NEW h, h = HwSwParms(s, c)
    PROVE  Stream(h, lev, w)
<1>1. /\ Geometry(h)
      /\ \/ h = s
         \/ h.state = "OPEN"
         \/ s.state # "RUNNING" /\ h.buffer = 0 /\ SameBooks(s, h)
         \/ h = Accepted(s, c) /\ c.period * c.count \in 1 .. MaxDma
    BY ParmsGeometry
<1>2. CASE h = s
    BY <1>2
<1>3. CASE h.state = "OPEN"
    BY <1>3, Unclaimed
<1>4. CASE s.state # "RUNNING" /\ h.buffer = 0 /\ SameBooks(s, h)
    BY <1>4 DEF Stream, SameBooks
<1>5. CASE h = Accepted(s, c) /\ c.period * c.count \in 1 .. MaxDma
    <2>1. h.state = "SETUP" /\ h.boundary = Boundary(c.period * c.count)
        BY <1>5, AcceptedGeometry
    <2>2. Boundary(c.period * c.count) \in MaxFrames + 1 .. IntMax
        BY <1>5 DEF NoWrap
    <2>3. h.boundary \in Nat /\ MaxFrames < h.boundary
        BY <2>1, <2>2, BoundsAssumption
    <2> QED
        BY <2>1, <2>3 DEF Stream
<1> QED
    BY <1>1, <1>2, <1>3, <1>4, <1>5

\* What the invariant says of a stream with a ring.
LEMMA IInvFilling ==
    ASSUME IInv
    PROVE  /\ Geometry(pcm)
           /\ pcm.state \in {"PREPARE", "RUNNING"} /\ pcm.buffer > 0 =>
                Filling(pcm, level) /\ pcm.appl = written
           /\ pcm.state = "RUNNING" =>
                /\ Live(pcm, level) /\ pcm.appl = written
                /\ pcm.appl <= MaxFrames
<1>1. Geometry(pcm) /\ Stream(pcm, level, written) /\ written <= MaxFrames
    BY DEF IInv, GeometryInv, StreamInv, CallInv
<1>2. ASSUME pcm.state \in {"PREPARE", "RUNNING"}, pcm.buffer > 0
      PROVE  Filling(pcm, level) /\ pcm.appl = written
    <2>1. pcm.appl = written
        BY <1>1, <1>2 DEF Stream
    <2> QED
        BY <1>1, <1>2, <2>1 DEF Filling
<1>3. pcm.state = "RUNNING" => pcm.buffer > 0
    BY <1>1 DEF Geometry
<1> QED
    BY <1>1, <1>2, <1>3 DEF Filling, Live

\* The write handler is entered.
LEMMA WriteEnterStep ==
    ASSUME IInv, NoWrap, WriteEnter
    PROVE  StreamInv' /\ CallInv'
<1> DEFINE s == WriteReady(pcm)
           fresh == /\ pcm.state \in {"OPEN", "SETUP"}
                    /\ s.state \in {"PREPARE", "SETUP"}
<1>1. /\ pcm' = s /\ ~call.busy
      /\ level' = (IF fresh THEN 0 ELSE level)
      /\ written' = (IF fresh THEN 0 ELSE written)
      /\ \/ /\ s.dma > 0 /\ s.buffer > 0
            /\ s.state \in {"PREPARE", "RUNNING"}
            /\ \E n \in WriteSizes :
                  /\ written' + n <= MaxFrames
                  /\ call' = [busy |-> TRUE, left |-> n,
                              avail |-> PlayAvail(s), done |-> 0]
         \/ UNCHANGED call
    BY DEF WriteEnter
<1>2. /\ Geometry(pcm) /\ Stream(pcm, level, written)
      /\ written \in Nat /\ written <= MaxFrames /\ MaxFrames \in Nat
    BY BoundsAssumption DEF IInv, GeometryInv, StreamInv, CallInv
<1>3. /\ Geometry(s)
      /\ \/ s = pcm
         \/ pcm.state \in {"OPEN", "SETUP"} /\ s.state = "OPEN"
         \/ /\ pcm.state \in {"OPEN", "SETUP"}
            /\ \E d : /\ s = Prepare(d) /\ Geometry(d) /\ d.state = "SETUP"
                      /\ \/ d = pcm
                         \/ /\ d = Accepted(pcm, Default)
                            /\ Default.period * Default.count \in 1 .. MaxDma
    BY <1>2, WriteReadyIs
<1> HIDE DEF s
<1>4. written' \in Nat /\ written' <= MaxFrames
    BY <1>1, <1>2
<1>5. Stream(s, level', written')
    <2>1. CASE s = pcm
        <3>1. CASE fresh
            <4>1. s.state = "SETUP"
                BY <2>1, <3>1
            <4> QED
                BY <1>2, <2>1, <4>1 DEF Stream
        <3>2. CASE ~fresh
            BY <1>1, <1>2, <2>1, <3>2
        <3> QED
            BY <3>1, <3>2
    <2>2. CASE s.state = "OPEN"
        BY <2>2, Unclaimed
    <2>3. ASSUME NEW d, pcm.state \in {"OPEN", "SETUP"},
                 s = Prepare(d), Geometry(d), d.state = "SETUP",
                 \/ d = pcm
                 \/ /\ d = Accepted(pcm, Default)
                    /\ Default.period * Default.count \in 1 .. MaxDma
          PROVE  Stream(s, level', written')
        <3>1. s.state \in {"SETUP", "PREPARE"} /\ s.appl = 0
            BY <2>3, PrepareIs
        <3>2. level' = 0 /\ written' = 0
            BY <1>1, <2>3, <3>1
        <3>3. Stream(d, level, written)
            <4>1. CASE d = pcm
                BY <1>2, <4>1
            <4>2. CASE /\ d = Accepted(pcm, Default)
                       /\ Default.period * Default.count \in 1 .. MaxDma
                <5>1. Default \in Configs
                    BY ConfigsAssumption
                <5>2. d.boundary = Boundary(Default.period * Default.count)
                    BY <1>2, <4>2, <5>1, AcceptedGeometry
                <5>3. Boundary(Default.period * Default.count)
                        \in MaxFrames + 1 .. IntMax
                    BY <4>2, <5>1 DEF NoWrap
                <5>4. d.boundary \in Nat /\ MaxFrames < d.boundary
                    BY <5>2, <5>3, BoundsAssumption
                <5> QED
                    BY <2>3, <5>4 DEF Stream
            <4> QED
                BY <2>3, <4>1, <4>2
        <3> QED
            BY <1>2, <2>3, <3>1, <3>2, <3>3, PreparedStream
    <2> QED
        BY <1>3, <2>1, <2>2, <2>3
<1>6. StreamInv'
    BY <1>1, <1>5 DEF StreamInv
<1>7. CASE UNCHANGED call
    BY <1>1, <1>4, <1>6, <1>7 DEF CallInv
<1>8. ASSUME s.buffer > 0, s.state \in {"PREPARE", "RUNNING"},
             NEW n \in WriteSizes, written' + n <= MaxFrames,
             call' = [busy |-> TRUE, left |-> n,
                      avail |-> PlayAvail(s), done |-> 0]
      PROVE  CallInv'
    <2>1. s.appl = written'
        BY <1>5, <1>8 DEF Stream
    <2>2. Filling(s, level')
        BY <1>3, <1>5, <1>8, <2>1 DEF Filling
    <2>3. Ring(s) /\ s.hw <= s.appl /\ s.buffer \in Nat \ {0}
        BY <2>2, FillingBound
    <2>4. PlayAvail(s) = s.hw + s.buffer - s.appl /\ PlayAvail(s) \in Nat
        BY <2>3, AvailIs
    <2>5. n \in Nat
        BY BoundsAssumption
    <2>6. s.appl + PlayAvail(s) <= s.hw + s.buffer
        BY <2>3, <2>4 DEF Ring
    <2> HIDE DEF s
    <2> QED
        BY <1>1, <1>4, <1>8, <2>4, <2>5, <2>6 DEF CallInv
<1> QED
    BY <1>1, <1>6, <1>7, <1>8

\* The write handler looks again for room.
LEMMA WriteRefreshStep ==
    ASSUME IInv, WriteRefresh
    PROVE  StreamInv' /\ CallInv'
<1> DEFINE s == View(pcm, level)
           k == Kicked(s, level)
<1>1. /\ call.busy /\ call.left > 0 /\ call.avail = 0 /\ UNCHANGED written
      /\ \/ pcm.state # "RUNNING" /\ Refreshed(pcm, <<pcm, level>>)
         \/ pcm.state = "RUNNING" /\ Refreshed(s, k)
    BY PollIs DEF WriteRefresh
<1>2. /\ pcm.buffer > 0 /\ pcm.state \in {"PREPARE", "RUNNING", "XRUN"}
      /\ Geometry(pcm) /\ Stream(pcm, level, written)
      /\ written \in Nat /\ written <= MaxFrames
      /\ DOMAIN call = {"busy", "left", "avail", "done"}
      /\ call.left \in Nat /\ call.avail \in Nat
      /\ written + call.left <= MaxFrames
      /\ pcm.state = "XRUN" => call.left = 0
    BY <1>1 DEF IInv, GeometryInv, StreamInv, CallInv
<1>3. pcm.state \in {"PREPARE", "RUNNING"}
    BY <1>1, <1>2
<1>4. Filling(pcm, level) /\ pcm.appl = written
    BY <1>2, <1>3, IInvFilling
<1>5. Ring(pcm) /\ pcm.hw <= pcm.appl /\ pcm.buffer \in Nat \ {0}
    BY <1>4, FillingBound
<1>6. CASE pcm.state # "RUNNING" /\ Refreshed(pcm, <<pcm, level>>)
    <2>1. pcm.state = "PREPARE"
        BY <1>3, <1>6
    <2>2. /\ PlayAvail(pcm) = pcm.hw + pcm.buffer - pcm.appl
          /\ PlayAvail(pcm) \in Nat
        BY <1>5, AvailIs
    <2>3. /\ pcm' = pcm /\ level' = level
          /\ \/ call' = [call EXCEPT !.left = 0]
             \/ call' = [call EXCEPT !.avail = PlayAvail(pcm)]
        BY <1>6 DEF Refreshed
    <2>4. StreamInv'
        BY <1>1, <1>2, <2>3 DEF StreamInv
    <2>5. /\ DOMAIN call' = {"busy", "left", "avail", "done"}
          /\ call'.left \in Nat /\ call'.avail \in Nat
          /\ call'.left <= call.left
          /\ call'.avail = 0 \/ call'.avail = PlayAvail(pcm)
        BY <1>1, <1>2, <2>2, <2>3
    <2>6. pcm.appl + call'.avail <= pcm.hw + pcm.buffer
        BY <1>5, <2>2, <2>5 DEF Ring
    <2>7. written + call'.left <= MaxFrames
        BY <1>2, <2>5, BoundsAssumption
    <2> QED
        BY <1>1, <1>2, <2>1, <2>3, <2>4, <2>5, <2>6, <2>7 DEF CallInv
<1>7. CASE pcm.state = "RUNNING" /\ Refreshed(s, k)
    <2>1. /\ pcm' = k[1] /\ level' = k[2]
          /\ \/ call' = [call EXCEPT !.left = 0]
             \/ /\ s.state # "XRUN"
                /\ call' = [call EXCEPT !.avail = PlayAvail(s)]
        BY <1>7 DEF Refreshed
    <2>0. s = View(pcm, level) /\ k = Kicked(s, level)
        OBVIOUS
    <2> HIDE DEF s, k
    <2>2. Live(pcm, level) /\ pcm.appl <= MaxFrames
        BY <1>7, IInvFilling
    <2>3. /\ pcm.hw <= s.hw /\ s.hw \in Nat /\ k[1].hw = s.hw
          /\ k[1].appl = pcm.appl
          /\ PlayAvail(s) = s.hw + pcm.buffer - pcm.appl /\ PlayAvail(s) \in Nat
          /\ k[1].boundary = pcm.boundary
          /\ s.state = "RUNNING" => Live(k[1], k[2])
        BY ONLY <2>0, <2>2, Polled
    <2>4. /\ s.state \in {"RUNNING", "XRUN"} /\ k[1].state = s.state
          /\ k[1].buffer = pcm.buffer
        BY ONLY <1>2, <1>7, <2>0, PolledGeometry
    <2>5. StreamInv'
        <3>1. Stream(k[1], k[2], written)
            <4>1. CASE s.state = "RUNNING"
                BY <1>4, <2>3, <4>1 DEF Live
            <4>2. CASE s.state = "XRUN"
                <5>1. pcm.boundary \in Nat /\ MaxFrames < pcm.boundary
                    BY <2>2, PlayedBound
                <5> QED
                    BY <2>3, <2>4, <4>2, <5>1 DEF Stream
            <4> QED
                BY <2>4, <4>1, <4>2
        <3> QED
            BY <1>1, <2>1, <3>1 DEF StreamInv
    <2>6. /\ DOMAIN call' = {"busy", "left", "avail", "done"}
          /\ call'.left \in Nat /\ call'.avail \in Nat
          /\ call'.left <= call.left
          /\ s.state = "XRUN" => call'.left = 0
          /\ call'.avail = 0 \/ call'.avail = PlayAvail(s)
        BY <1>1, <1>2, <2>1, <2>3
    <2>7. k[1].appl + call'.avail <= k[1].hw + k[1].buffer
        BY <1>5, <2>3, <2>4, <2>6 DEF Ring
    <2>8. written + call'.left <= MaxFrames
        BY <1>2, <2>6, BoundsAssumption
    <2> QED
        BY <1>1, <1>2, <2>1, <2>4, <2>5, <2>6, <2>7, <2>8 DEF CallInv
<1> QED
    BY <1>1, <1>6, <1>7

\* The write handler copies a chunk.
LEMMA WriteCopyStep ==
    ASSUME IInv, WriteCopy
    PROVE  StreamInv' /\ CallInv'
<1> DEFINE n == Chunk
           k == Chunked(pcm, n, level)
<1>1. /\ call.busy /\ call.left > 0 /\ call.avail > 0
      /\ pcm' = k[1] /\ level' = k[2] /\ written' = written + n
      /\ call' = [call EXCEPT !.left = @ - n, !.avail = @ - n, !.done = @ + n]
    BY CopyIs DEF WriteCopy
<1>2. /\ pcm.buffer > 0 /\ pcm.state \in {"PREPARE", "RUNNING", "XRUN"}
      /\ written \in Nat
      /\ DOMAIN call = {"busy", "left", "avail", "done"}
      /\ call.left \in Nat /\ call.avail \in Nat
      /\ written + call.left <= MaxFrames
      /\ pcm.state = "XRUN" => call.left = 0
      /\ pcm.state # "XRUN" => pcm.appl + call.avail <= pcm.hw + pcm.buffer
    BY <1>1 DEF IInv, GeometryInv, CallInv
<1>3. pcm.state \in {"PREPARE", "RUNNING"}
    BY <1>1, <1>2
<1>4. Filling(pcm, level) /\ pcm.appl = written
    BY <1>2, <1>3, IInvFilling
<1>5. pcm.buffer \in Nat \ {0} /\ pcm.appl \in Nat /\ pcm.hw \in Nat
    BY <1>4, FillingBound DEF Ring
<1>6. n \in Nat /\ n <= call.left /\ n <= call.avail
    <2> DEFINE r == pcm.buffer - (pcm.appl % pcm.buffer)
    <2>1. r \in Nat
        BY <1>5
    <2>2. n = Min({call.left, call.avail, r})
        BY DEF Chunk
    <2> HIDE DEF r, n
    <2>3. call.left \in Int /\ call.avail \in Int /\ r \in Int
        BY <1>2, <2>1
    <2>4. /\ Min({call.left, call.avail, r}) \in {call.left, call.avail, r}
          /\ Min({call.left, call.avail, r}) <= call.left
          /\ Min({call.left, call.avail, r}) <= call.avail
        BY ONLY <2>3, MinTriple
    <2> QED
        BY <1>2, <2>1, <2>2, <2>4
<1> HIDE DEF n
<1>7. pcm.appl + n <= MaxFrames /\ pcm.appl + n <= pcm.hw + pcm.buffer
    BY <1>2, <1>3, <1>4, <1>5, <1>6, BoundsAssumption
<1>8. /\ Filling(k[1], k[2]) /\ k[1].appl = pcm.appl + n
      /\ k[1].hw = pcm.hw /\ k[1].buffer = pcm.buffer
    BY <1>4, <1>6, <1>7, CopiedStream
<1> HIDE DEF k
<1>9. StreamInv'
    BY <1>1, <1>4, <1>8 DEF StreamInv, Filling
<1>10. /\ DOMAIN call' = {"busy", "left", "avail", "done"} /\ call'.busy
       /\ call'.left = call.left - n /\ call'.avail = call.avail - n
    BY <1>1, <1>2
<1>11. k[1].state # "XRUN"
    BY <1>8 DEF Filling
<1>12. /\ call'.left \in Nat /\ call'.avail \in Nat
       /\ written' \in Nat /\ written' <= MaxFrames
       /\ written' + call'.left <= MaxFrames
       /\ k[1].appl + call'.avail <= k[1].hw + k[1].buffer
    BY <1>1, <1>2, <1>3, <1>4, <1>5, <1>6, <1>8, <1>10, BoundsAssumption
<1> QED
    BY <1>1, <1>9, <1>10, <1>11, <1>12 DEF CallInv

\* The engine plays a word.
LEMMA DrainStep ==
    ASSUME IInv, Drain
    PROVE  StreamInv' /\ CallInv'
<1>1. UNCHANGED <<pcm, call, written>> /\ level > 0 /\ level' = level - 1
    BY DEF Drain
<1>2. Stream(pcm, level, written)
    BY DEF IInv, StreamInv
<1>3. pcm.state # "PREPARE"
    BY <1>1, <1>2 DEF Stream
<1>4. Books(pcm, level) => Books(pcm, level - 1)
    <2>1. Miu \in Nat
        BY BoundsAssumption
    <2>2. ASSUME level \in Nat
          PROVE  Miu * (level - 1) = Miu * level - Miu /\ Miu * level \in Nat
        BY <2>1, <2>2
    <2> QED
        BY <1>1, <2>1, <2>2 DEF Books
<1>5. Stream(pcm, level - 1, written)
    BY <1>2, <1>3, <1>4 DEF Stream
<1> QED
    BY <1>1, <1>5 DEF StreamInv, IInv, CallInv

\* A turn of the loop that polls.
LEMMA LoopStepStream ==
    ASSUME IInv, LoopWritable \/ LoopFull
    PROVE  StreamInv' /\ CallInv'
<1> DEFINE s == View(pcm, level)
           k == Kicked(s, level)
           x == [TriggerStop(k[1]) EXCEPT !.state = "XRUN"]
<1>0. s = View(pcm, level) /\ k = Kicked(s, level)
    OBVIOUS
<1>1. /\ pcm.state = "RUNNING" /\ UNCHANGED <<call, written>> /\ ~call.busy
      /\ level' = k[2] /\ (pcm' = k[1] \/ pcm' = x)
    BY PollIs DEF LoopWritable, LoopFull, LoopTurn, FoundRoom, FoundFull
<1> HIDE DEF s, k
<1>2. Live(pcm, level) /\ pcm.appl = written /\ pcm.appl <= MaxFrames
    BY <1>1, IInvFilling
<1>3. /\ k[1].appl = pcm.appl /\ k[1].boundary = pcm.boundary
      /\ s.state = "RUNNING" => Live(k[1], k[2])
    BY ONLY <1>2, <1>0, Polled
<1>4. /\ s.state \in {"RUNNING", "XRUN"} /\ k[1].state = s.state
      /\ Geometry(k[1])
    BY <1>0, <1>1, PolledGeometry DEF IInv, GeometryInv
<1>5. pcm.boundary \in Nat /\ MaxFrames < pcm.boundary
    BY <1>2, PlayedBound
<1>6. Stream(k[1], k[2], written)
    <2> HIDE DEF k, s
    <2>1. CASE s.state = "RUNNING"
        BY <1>2, <1>3, <2>1 DEF Live
    <2>2. CASE s.state = "XRUN"
        BY <1>3, <1>4, <1>5, <2>2 DEF Stream
    <2> QED
        BY <1>4, <2>1, <2>2
<1>7. Stream(x, k[2], written)
    <2> DEFINE y == k[1]
    <2>1. x = [[y EXCEPT !.running = FALSE] EXCEPT !.state = "XRUN"]
        BY DEF TriggerStop
    <2>2. DOMAIN y = Fields /\ y.boundary = pcm.boundary
        BY <1>3, <1>4 DEF Geometry
    <2> HIDE DEF x, y, k
    <2>3. x.state = "XRUN" /\ x.boundary = pcm.boundary
        BY <2>1, <2>2 DEF Fields
    <2> QED
        BY <1>5, <2>3 DEF Stream
<1>8. StreamInv'
    BY <1>1, <1>6, <1>7 DEF StreamInv
<1> QED
    BY <1>1, <1>8 DEF IInv, CallInv

\* Every step keeps the invariant.
LEMMA NextStream ==
    ASSUME IInv, NoWrap, [Next]_vars
    PROVE  IInv'
<1>1. GeometryInv'
    BY NextGeometry DEF IInv
<1>2. /\ Geometry(pcm) /\ Stream(pcm, level, written) /\ CallInv
      /\ written \in Nat /\ written <= MaxFrames
    BY DEF IInv, GeometryInv, StreamInv, CallInv
<1>3. 0 \in Nat /\ 0 <= MaxFrames
    BY BoundsAssumption
<1>4. CASE UNCHANGED <<pcm, level, written, call>>
    BY <1>1, <1>4 DEF IInv, StreamInv, CallInv
<1>5. CASE Open
    <2>1. Opened.state = "OPEN"
        BY DEF Opened
    <2>2. Stream(pcm', level', written') /\ ~call'.busy /\ written' = 0
        BY <1>5, <2>1, Unclaimed DEF Open
    <2> QED
        BY <1>1, <1>3, <2>2 DEF IInv, StreamInv, CallInv
<1>6. CASE Close \/ LoopReap
    <2>1. pcm' = Released(pcm) /\ UNCHANGED <<call, written>> /\ ~call.busy
        BY <1>6 DEF Close, LoopReap, MayCall
    <2>2. Released(pcm).state = "UNKOWN"
        BY <1>2 DEF Released, Geometry, Fields
    <2>3. Stream(pcm', level', written')
        BY <2>1, <2>2, Unclaimed
    <2> QED
        BY <1>1, <1>2, <2>1, <2>3 DEF IInv, StreamInv, CallInv
<1>7. CASE SetParams \/ BufAvail
    <2>1. /\ \E c \in Configs : pcm' = HwSwParms(pcm, c)
          /\ UNCHANGED <<level, call, written>> /\ ~call.busy
        BY <1>7, ConfigsAssumption DEF SetParams, BufAvail, MayCall, DefaultHw
    <2>2. Stream(pcm', level', written')
        BY <1>2, <2>1, ParmsStream
    <2> QED
        BY <1>1, <1>2, <2>1, <2>2 DEF IInv, StreamInv, CallInv
<1>8. CASE HwFree
    <2>1. /\ pcm' = [pcm EXCEPT !.dma = 0, !.state = "OPEN"]
          /\ UNCHANGED <<level, call, written>> /\ ~call.busy
        BY <1>8 DEF HwFree, MayCall
    <2>2. pcm'.state = "OPEN"
        BY <1>2, <2>1 DEF Geometry, Fields
    <2>3. Stream(pcm', level', written')
        BY <2>2, Unclaimed
    <2> QED
        BY <1>1, <1>2, <2>1, <2>3 DEF IInv, StreamInv, CallInv
<1>9. CASE PrepareStream
    <2>1. /\ pcm' = Prepare(pcm) /\ pcm.state \in {"SETUP", "PREPARE", "XRUN"}
          /\ level' = 0 /\ written' = (IF pcm'.appl = 0 THEN 0 ELSE written)
          /\ UNCHANGED call /\ ~call.busy
        BY <1>9 DEF PrepareStream, MayCall, Preparable
    <2>2. Stream(pcm', level', written')
        BY <1>2, <2>1, PreparedStream
    <2>3. written' \in Nat /\ written' <= MaxFrames
        BY <1>2, <1>3, <2>1
    <2> QED
        BY <1>1, <2>1, <2>2, <2>3 DEF IInv, StreamInv, CallInv
<1>10. CASE WriteEnter
    BY <1>1, <1>10, WriteEnterStep DEF IInv
<1>11. CASE WriteRefresh
    BY <1>1, <1>11, WriteRefreshStep DEF IInv
<1>12. CASE WriteCopy
    BY <1>1, <1>12, WriteCopyStep DEF IInv
<1>13. CASE WriteReturn
    <2>1. UNCHANGED <<pcm, level, written>> /\ ~call'.busy
        BY <1>13, IdleCall DEF WriteReturn
    <2> QED
        BY <1>1, <1>2, <2>1 DEF IInv, StreamInv, CallInv
<1>14. CASE LoopWritable \/ LoopFull
    BY <1>1, <1>14, LoopStepStream DEF IInv
<1>15. CASE Drain
    BY <1>1, <1>15, DrainStep DEF IInv
<1>16. CASE LoopClosed \/ LoopIdle \/ Die \/ Hang \/ UNCHANGED vars
    BY <1>4, <1>16 DEF LoopClosed, LoopIdle, LoopTurn, Die, Hang, vars
<1> QED
    BY <1>5, <1>6, <1>7, <1>8, <1>9, <1>10, <1>11, <1>12, <1>13, <1>14,
       <1>15, <1>16 DEF Next

\* The invariant holds as long as the pointers stay below the boundary.
LEMMA IInvHolds == NoWrap => (Spec => []IInv)
<1> SUFFICES ASSUME NoWrap PROVE Spec => []IInv
    OBVIOUS
<1>1. Init => IInv
    <2>1. ASSUME Init PROVE IInv
        <3>1. pcm.state = "UNKOWN" /\ written = 0 /\ ~call.busy
            BY <2>1, IdleCall DEF Init, Opened
        <3>2. Stream(pcm, level, written)
            BY <3>1, Unclaimed
        <3>3. GeometryInv
            BY <2>1, InitGeometry
        <3>4. MaxFrames \in Nat
            BY BoundsAssumption
        <3> QED
            BY <3>1, <3>2, <3>3, <3>4 DEF IInv, StreamInv, CallInv
    <2> QED
        BY <2>1
<1>2. IInv /\ [Next]_vars => IInv'
    BY NextStream
<1> QED
    BY <1>1, <1>2, PTL DEF Spec

\* With the slack taken off, what is unplayed is what the driver's books say.
LEMMA UnplayedIs ==
    ASSUME written \in Nat, pcm.total \in Nat, Miu * level \in Nat, Told(pcm)
    PROVE  Unplayed = written - (pcm.total - Miu * level)
<1>1. CASE pcm.devPeriod % Miu = 0
    <2>1. Slack = 0 /\ pcm.fed = pcm.total
        BY <1>1 DEF Slack, Told
    <2> QED
        BY <2>1 DEF Unplayed, Played
<1>2. CASE pcm.devPeriod % Miu # 0
    <2>1. Slack = pcm.total - pcm.fed /\ pcm.fed \in Nat
        BY <1>2 DEF Slack, Told
    <2> QED
        BY <2>1 DEF Unplayed, Played
<1> QED
    BY <1>1, <1>2

(***************************************************************************)
(* The write path never copies over a frame the engine has still to play   *)
(* (NoOverwrite), although it works with a room read before the lock was   *)
(* dropped and derived from a level polled earlier: hw never overtakes the *)
(* engine, so the room can only be an understatement.  With periods that   *)
(* are not whole words it is one up to the frames the rounding has cut off *)
(* since the last prepare.                                                 *)
(***************************************************************************)
THEOREM NoOverwriteHolds == NoWrap => (Spec => []NoOverwrite)
<1> SUFFICES ASSUME NoWrap PROVE Spec => []NoOverwrite
    OBVIOUS
<1>1. IInv => NoOverwrite
    <2> SUFFICES ASSUME IInv, pcm.state \in {"PREPARE", "RUNNING"}
                 PROVE  Unplayed <= pcm.devSize
        BY DEF NoOverwrite
    <2>1. CASE pcm.state = "PREPARE"
        <3>1. /\ pcm.total = 0 /\ pcm.fed = 0 /\ level = 0
              /\ written <= pcm.devSize /\ written \in Nat /\ Miu \in Nat
            BY <2>1, BoundsAssumption DEF IInv, StreamInv, Stream, CallInv
        <3>2. Played = 0 /\ Slack = 0
            BY <3>1 DEF Played, Slack
        <3> QED
            BY <3>1, <3>2 DEF Unplayed
    <2>2. CASE pcm.state = "RUNNING"
        <3>1. Live(pcm, level) /\ pcm.appl = written
            BY <2>2, IInvFilling
        <3>2. /\ Books(pcm, level) /\ Ring(pcm) /\ pcm.buffer \in Nat
              /\ Miu * level \in Nat
            BY <3>1, PlayedBound
        <3>3. pcm.devSize = pcm.buffer
            BY <2>2 DEF IInv, GeometryInv, Geometry
        <3>4. Unplayed = written - (pcm.total - Miu * level)
            BY <3>2, UnplayedIs DEF Books, IInv, CallInv
        <3> QED
            BY <3>1, <3>2, <3>3, <3>4 DEF Books, Ring
    <2> QED
        BY <2>1, <2>2
<1> QED
    BY <1>1, IInvHolds, PTL

(***************************************************************************)
(* pending_bytes is "the single source of truth" (miyoo-dais.c): while the *)
(* stream runs, every frame in the ring is handed to the engine or pending *)
(* and counted once, and with periods of whole words the engine knows of   *)
(* all that was handed over (SourceOfTruth).                               *)
(***************************************************************************)
THEOREM SourceOfTruthHolds == NoWrap => (Spec => []SourceOfTruth)
<1> SUFFICES ASSUME NoWrap PROVE Spec => []SourceOfTruth
    OBVIOUS
<1>1. IInv => SourceOfTruth
    <2> SUFFICES ASSUME IInv, pcm.state = "RUNNING"
                 PROVE  /\ pcm.total + pcm.pending = written
                        /\ pcm.fed + Slack = pcm.total
        BY DEF SourceOfTruth
    <2>1. Live(pcm, level) /\ pcm.appl = written
        BY IInvFilling
    <2>2. Told(pcm) /\ pcm.total \in Nat
        BY <2>1, PlayedBound DEF Books
    <2>3. pcm.fed + Slack = pcm.total
        <3>1. CASE pcm.devPeriod % Miu = 0
            BY <2>2, <3>1 DEF Slack, Told
        <3>2. CASE pcm.devPeriod % Miu # 0
            BY <2>2, <3>2 DEF Slack, Told
        <3> QED
            BY <3>1, <3>2
    <2> QED
        BY <2>1, <2>3 DEF Live, Stream
<1> QED
    BY <1>1, IInvHolds, PTL

(***************************************************************************)
(* "Playback XRUN means the hardware has drained all queued frames": the   *)
(* stream goes into XRUN only when the engine has played the ring down to  *)
(* the stop threshold, up to the frames the rounding to words has cut off, *)
(* or has stalled (XrunMeansDrained).                                      *)
(***************************************************************************)
THEOREM XrunMeansDrainedHolds == NoWrap => (Spec => XrunMeansDrained)
<1> SUFFICES ASSUME NoWrap PROVE Spec => XrunMeansDrained
    OBVIOUS
<1> DEFINE Dry == pcm.state = "RUNNING" /\ pcm'.state = "XRUN"
                    => Stalled \/ Unplayed <= pcm.buffer - pcm.stop
<1>1. IInv /\ [Next]_vars => [Dry]_vars
    <2> SUFFICES ASSUME IInv, Next, pcm.state = "RUNNING", pcm'.state = "XRUN"
                 PROVE  Stalled \/ Unplayed <= pcm.buffer - pcm.stop
        OBVIOUS
    <2> DEFINE s == View(pcm, level)
               k == Kicked(s, level)
    <2>0. s = View(pcm, level) /\ k = Kicked(s, level)
        OBVIOUS
    <2> HIDE DEF s, k
    <2>1. Geometry(pcm) /\ Live(pcm, level) /\ pcm.appl = written
          /\ pcm.appl <= MaxFrames /\ pcm.state = "RUNNING"
        BY IInvFilling
    <2>2. k[1].state = s.state
        BY ONLY <2>0, <2>1, PolledGeometry
    <2>3. s.state = "XRUN" =>
             pcm.appl - (pcm.total - Miu * level) <= pcm.buffer - pcm.stop
        BY ONLY <2>0, <2>1, Polled
    <2>4. s.state = "XRUN" => Unplayed <= pcm.buffer - pcm.stop
        <3>1. Books(pcm, level) /\ Miu * level \in Nat
            BY <2>1, PlayedBound
        <3>2. Unplayed = written - (pcm.total - Miu * level)
            BY <3>1, UnplayedIs DEF Books, IInv, CallInv
        <3> QED
            BY ONLY <2>1, <2>3, <3>2
    <2>5. CASE Open \/ Close \/ LoopReap
        <3>1. pcm' = Opened \/ pcm' = Released(pcm)
            BY <2>5 DEF Open, Close, LoopReap
        <3>2. Opened.state = "OPEN"
            BY DEF Opened
        <3>3. Released(pcm).state = "UNKOWN"
            BY <2>1 DEF Released, Geometry, Fields
        <3> QED
            BY <3>1, <3>2, <3>3
    <2>6. CASE SetParams \/ BufAvail \/ HwFree \/ PrepareStream
        <3>1. pcm' = pcm \/ BufAvail \/ HwFree \/ PrepareStream
            BY <2>6 DEF SetParams, HwSwParms
        <3> QED
            BY <3>1 DEF BufAvail, HwFree, PrepareStream, Preparable
    <2>7. CASE WriteEnter
        <3>1. pcm' = pcm
            BY <2>7 DEF WriteEnter, WriteReady, DefaultHw
        <3> QED
            BY <3>1
    <2>8. CASE WriteRefresh
        <3>1. Refreshed(s, k)
            BY <2>8, PollIs DEF WriteRefresh, s, k
        <3>2. pcm' = k[1]
            BY <3>1 DEF Refreshed
        <3> QED
            BY <2>2, <2>4, <3>2
    <2>9. CASE WriteCopy
        <3>1. pcm' = Chunked(pcm, Chunk, level)[1] /\ pcm.buffer > 0
            BY <2>1, <2>9, CopyIs DEF Geometry
        <3>2. pcm'.state = "RUNNING"
            BY <2>1, <3>1, CopiedGeometry
        <3> QED
            BY <3>2
    <2>10. CASE LoopWritable
        <3>1. pcm' = k[1] /\ s.state = "RUNNING"
            BY <2>10, PollIs DEF LoopWritable, FoundRoom, Writable, s, k
        <3> QED
            BY <2>2, <3>1
    <2>11. CASE LoopFull
        <3>1. Stalled \/ pcm' = k[1]
            BY <2>11, PollIs DEF LoopFull, FoundFull, s, k
        <3> QED
            BY <2>2, <2>4, <3>1
    <2>12. CASE WriteReturn \/ LoopClosed \/ LoopIdle \/ Die \/ Drain \/ Hang
        BY <2>12 DEF WriteReturn, LoopClosed, LoopIdle, Die, Drain, Hang
    <2> QED
        BY <2>5, <2>6, <2>7, <2>8, <2>9, <2>10, <2>11, <2>12 DEF Next
<1>2. Spec => [][Next]_vars
    BY PTL DEF Spec
<1> QED
    BY <1>1, <1>2, IInvHolds, PTL DEF XrunMeansDrained
=============================================================================
