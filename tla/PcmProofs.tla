----------------------------- MODULE PcmProofs -----------------------------
(***************************************************************************)
(* Proofs about PcmStream, for every configuration the driver can be given *)
(* and every size of the ring.                                             *)
(***************************************************************************)
EXTENDS PcmStream, TLAPS

Fields == {"open", "state", "hw", "base", "appl", "start", "stop", "boundary",
           "period", "buffer", "rate", "dma", "lastAppl", "running", "pending",
           "processed", "total", "fed", "devPeriod", "devSize", "inflight"}

(***************************************************************************)
(* The geometry.  A stream with a ring has the DMA buffer of its size from *)
(* SETUP on, the engine knows it from PREPARE on, and a write in progress  *)
(* or a running stream has a ring.  A refused configuration may leave a    *)
(* prepared stream without one (buffer = 0): nothing can be written then.  *)
(***************************************************************************)
Geometry(s) ==
    /\ DOMAIN s = Fields
    /\ s.state \in States
    /\ s.buffer \in Nat /\ s.period \in Nat /\ s.dma \in Nat /\ s.stop \in Nat
    /\ s.state \in {"SETUP", "PREPARE", "RUNNING", "XRUN"} /\ s.buffer > 0 =>
         s.dma = s.buffer /\ s.period > 0 /\ s.stop > 0
    /\ s.state \in {"PREPARE", "RUNNING"} /\ s.buffer > 0 =>
         s.devSize = s.buffer /\ s.devPeriod = s.period
    /\ s.state \in {"RUNNING", "XRUN"} => s.buffer > 0

GeometryInv ==
    /\ Geometry(pcm)
    /\ call.busy => /\ pcm.buffer > 0
                    /\ pcm.state \in {"PREPARE", "RUNNING", "XRUN"}

(***************************************************************************)
(* The engine's books: what was handed to it is what it has played and     *)
(* what its level says it holds, and processed never runs ahead of it.     *)
(* What was handed over reached the engine, all of it if the periods are   *)
(* whole words.                                                            *)
(***************************************************************************)
Told(s) ==
    /\ s.fed \in Nat
    /\ s.devPeriod % Miu = 0 => s.fed = s.total

Books(s, lev) ==
    /\ s.total \in Nat /\ s.pending \in Nat /\ s.processed \in Nat
    /\ s.inflight \in Int /\ lev \in Nat
    /\ s.processed <= s.total - Miu * lev
    /\ Told(s)

(***************************************************************************)
(* The ring: the base is the start of a lap, hw is in that lap and not     *)
(* ahead of the engine, appl is at most a ring ahead of hw.                *)
(***************************************************************************)
Lap(b, n) == \E k \in Nat : b = k * n

Ring(s) ==
    /\ s.hw \in Nat /\ s.base \in Nat /\ s.appl \in Nat
    /\ Lap(s.base, s.buffer)
    /\ s.base <= s.hw /\ s.hw < s.base + s.buffer
    /\ s.hw <= s.processed
    /\ s.appl <= s.hw + s.buffer

-----------------------------------------------------------------------------
(* Numbers.                                                                *)

\* Max of two numbers, as the code's conditional expressions take it.
LEMMA MaxPair ==
    ASSUME NEW a \in Int, NEW b \in Int
    PROVE  Max({a, b}) = IF a >= b THEN a ELSE b
<1>1. \E x \in {a, b} : \A y \in {a, b} : x >= y
    OBVIOUS
<1>2. /\ Max({a, b}) \in {a, b}
      /\ \A y \in {a, b} : Max({a, b}) >= y
    BY <1>1 DEF Max
<1> QED
    BY <1>2

\* Min of two numbers.
LEMMA MinPair ==
    ASSUME NEW a \in Int, NEW b \in Int
    PROVE  Min({a, b}) = IF a <= b THEN a ELSE b
<1>1. \E x \in {a, b} : \A y \in {a, b} : x <= y
    OBVIOUS
<1>2. /\ Min({a, b}) \in {a, b}
      /\ \A y \in {a, b} : Min({a, b}) <= y
    BY <1>1 DEF Min
<1> QED
    BY <1>2

\* The size of a chunk is one of three numbers and above none of them.
LEMMA MinTriple ==
    ASSUME NEW a \in Int, NEW b \in Int, NEW c \in Int
    PROVE  /\ Min({a, b, c}) \in {a, b, c}
           /\ Min({a, b, c}) <= a /\ Min({a, b, c}) <= b /\ Min({a, b, c}) <= c
<1>1. \E x \in {a, b, c} : \A y \in {a, b, c} : x <= y
    OBVIOUS
<1>2. /\ Min({a, b, c}) \in {a, b, c}
      /\ \A y \in {a, b, c} : Min({a, b, c}) <= y
    BY <1>1 DEF Min
<1> QED
    BY <1>2

\* Division rounds down.
LEMMA Quotient ==
    ASSUME NEW n \in Nat \ {0}, NEW a \in Nat
    PROVE  /\ a \div n \in Nat /\ a % n \in 0 .. n - 1
           /\ a = (a \div n) * n + (a % n)
OBVIOUS

\* A whole number of n's divides by n without a rest.
LEMMA Whole ==
    ASSUME NEW n \in Nat \ {0}, NEW k \in Nat
    PROVE  (k * n) \div n = k
<1> DEFINE q == (k * n) \div n  r == (k * n) % n
<1>1. q \in Nat /\ r \in 0 .. n - 1 /\ k * n = q * n + r
    <2>1. k * n \in Nat
        OBVIOUS
    <2> QED
        BY <2>1, Quotient
<1> HIDE DEF q, r
<1>2. (k - q) * n = r
    BY <1>1
<1>3. k - q < 1 /\ k - q > -1
    BY <1>1, <1>2
<1> QED
    BY <1>1, <1>3 DEF q

\* The rest in the first and in the second lap after the start b of one.
LEMMA LapRest ==
    ASSUME NEW n \in Nat \ {0}, NEW b \in Nat, NEW a \in Nat, Lap(b, n),
           b <= a, a < b + 2 * n
    PROVE  a % n = IF a < b + n THEN a - b ELSE a - b - n
<1>1. PICK k \in Nat : b = k * n
    BY DEF Lap
<1> DEFINE q == a \div n  r == a % n
<1>2. q \in Nat /\ r \in 0 .. n - 1 /\ a = q * n + r
    BY Quotient
<1> HIDE DEF q, r
<1>3. q * n >= k * n - n + 1 /\ q * n < (k + 2) * n
    BY <1>1, <1>2
<1>4. q >= k /\ q < k + 2
    BY <1>2, <1>3
<1>5. q * n = b \/ q * n = b + n
    <2>1. CASE q = k
        BY <1>1, <2>1
    <2>2. CASE q = k + 1
        <3>1. (k + 1) * n = k * n + n
            OBVIOUS
        <3> QED
            BY <1>1, <2>2, <3>1
    <2> QED
        BY <1>2, <1>4, <2>1, <2>2
<1> DEFINE m == q * n
<1>6. m = b \/ m = b + n
    BY <1>5
<1>7. a = m + r
    BY <1>2
<1> HIDE DEF m
<1>8. r = IF a < b + n THEN a - b ELSE a - b - n
    BY <1>2, <1>6, <1>7
<1> QED
    BY <1>8 DEF r

\* The next lap starts where this one ends.
LEMMA LapNext ==
    ASSUME NEW n \in Nat, NEW b \in Nat, Lap(b, n)
    PROVE  Lap(b + n, n)
<1>1. PICK k \in Nat : b = k * n
    BY DEF Lap
<1>2. b + n = (k + 1) * n /\ k + 1 \in Nat
    BY <1>1
<1> QED
    BY <1>2 DEF Lap

-----------------------------------------------------------------------------
(* The engine's driver.                                                    *)

\* What feeding the engine leaves alone.
Kept(s, t) ==
    /\ DOMAIN t = DOMAIN s
    /\ t.open = s.open /\ t.state = s.state /\ t.rate = s.rate
    /\ t.hw = s.hw /\ t.base = s.base /\ t.appl = s.appl
    /\ t.lastAppl = s.lastAppl /\ t.running = s.running
    /\ t.start = s.start /\ t.stop = s.stop /\ t.boundary = s.boundary
    /\ t.period = s.period /\ t.buffer = s.buffer /\ t.dma = s.dma
    /\ t.devPeriod = s.devPeriod /\ t.devSize = s.devSize
    /\ t.inflight = s.inflight

LEMMA KeptTrans ==
    ASSUME NEW s, NEW t, NEW u, Kept(s, t), Kept(t, u)
    PROVE  Kept(s, u)
BY DEF Kept

Periods(s) == s.devPeriod \in Nat

\* No frame comes to the engine that is not pending, none is made up, and
\* none is cut off if the periods are whole words.
LEMMA ToQueueWhole ==
    ASSUME NEW s, NEW lev, Books(s, lev), Periods(s), s.devPeriod > 0,
           ~(ToQueue(s) < s.devPeriod)
    PROVE  /\ ToQueue(s) \in Nat /\ ToQueue(s) <= s.pending
           /\ ToQueue(s) \div Miu \in Nat
           /\ Miu * (ToQueue(s) \div Miu) <= ToQueue(s)
           /\ s.devPeriod % Miu = 0 =>
                Miu * (ToQueue(s) \div Miu) = ToQueue(s)
<1> DEFINE p == s.devPeriod
           m == Min({s.inflight - Cached(s), s.pending})
           n == ToQueue(s)
<1>1. Miu \in Nat \ {0}
    BY BoundsAssumption
<1>2. p \in Nat \ {0} /\ s.pending \in Nat /\ s.inflight \in Int
      /\ s.total \in Nat /\ s.processed \in Nat
    BY DEF Books, Periods
<1>3. m \in Int /\ m <= s.pending
    <2>1. Cached(s) \in Int
        BY <1>2, MaxPair DEF Cached
    <2> QED
        BY <1>2, <2>1, MinPair
<1>4. n = IF m > p THEN (m \div p) * p ELSE m
    BY DEF ToQueue
<1> HIDE DEF m, n, p
<1>5. n >= p
    <2>1. ~(n < p)
        BY DEF n, p
    <2>2. m > p => m \div p \in Int
        BY <1>2, <1>3
    <2> QED
        BY <1>2, <1>3, <1>4, <2>1, <2>2
<1>6. PICK k \in Nat : n = k * p /\ n <= m
    <2>1. CASE m > p
        <3>1. m \in Nat
            BY <1>2, <1>3, <2>1
        <3>2. /\ m \div p \in Nat /\ m % p \in 0 .. p - 1
              /\ m = (m \div p) * p + (m % p)
            BY <1>2, <3>1, Quotient
        <3>3. n = (m \div p) * p
            BY <1>4, <2>1
        <3>4. n <= m
            BY <1>2, <3>2, <3>3
        <3> QED
            BY <3>2, <3>3, <3>4
    <2>2. CASE ~(m > p)
        <3>1. n = 1 * p /\ n = m
            BY <1>2, <1>3, <1>4, <1>5, <2>2
        <3> QED
            BY <3>1, <1>3
    <2> QED
        BY <2>1, <2>2
<1>7. n \in Nat /\ n <= s.pending
    BY <1>2, <1>3, <1>6
<1>8. n \div Miu \in Nat /\ Miu * (n \div Miu) <= n
    <2>1. /\ n \div Miu \in Nat /\ n % Miu \in 0 .. Miu - 1
          /\ n = (n \div Miu) * Miu + (n % Miu)
        BY <1>1, <1>7, Quotient
    <2> QED
        BY <1>1, <1>7, <2>1
<1>9. ASSUME p % Miu = 0 PROVE Miu * (n \div Miu) = n
    <2>1. PICK j \in Nat : p = j * Miu
        <3>1. p = (p \div Miu) * Miu + (p % Miu) /\ p \div Miu \in Nat
            BY <1>1, <1>2, Quotient
        <3> QED
            BY <1>1, <1>2, <1>9, <3>1
    <2>2. k * j \in Nat /\ n = (k * j) * Miu
        BY <1>1, <1>6, <2>1
    <2>3. n \div Miu = k * j
        BY <1>1, <2>2, Whole
    <2> QED
        BY <1>1, <2>2, <2>3
<1> QED
    BY <1>7, <1>8, <1>9 DEF n, p

\* Feeding the engine changes its books only, and keeps the fields.
LEMMA FedKept ==
    ASSUME NEW s, NEW lev, DOMAIN s = Fields, NEW k, k = QueuePending(s, lev)
    PROVE  Kept(s, k[1])
<1> DEFINE r == Resync(s, lev)
           q == QueueBytes(r, ToQueue(r))
<1>1. Kept(s, r) /\ DOMAIN r = Fields
    BY DEF Resync, Kept, Fields
<1>2. Kept(s, s)
    BY DEF Kept
<1>3. Kept(s, q)
    <2> HIDE DEF r
    <2>1. Kept(r, q)
        BY <1>1 DEF QueueBytes, Kept, Fields
    <2> QED
        BY <1>1, <2>1 DEF Kept
<1>4. k[1] = s \/ k[1] = r \/ k[1] = q
    BY DEF QueuePending
<1> QED
    BY <1>1, <1>2, <1>3, <1>4

\* Feeding the engine moves frames from pending to handed over.
LEMMA Fed ==
    ASSUME NEW s, NEW lev, Books(s, lev), Periods(s), DOMAIN s = Fields,
           NEW k, k = QueuePending(s, lev)
    PROVE  /\ Books(k[1], k[2])
           /\ Kept(s, k[1])
           /\ k[1].total + k[1].pending = s.total + s.pending
           /\ s.processed <= k[1].processed
<1> DEFINE r == Resync(s, lev)
           n == ToQueue(r)
           q == QueueBytes(r, n)
<1>1. Miu \in Nat \ {0}
    BY BoundsAssumption
<1>2. /\ Books(r, lev) /\ Kept(s, r)
      /\ r.total = s.total /\ r.pending = s.pending
      /\ s.processed <= r.processed
    BY <1>1 DEF Resync, Books, Told, Kept, Fields
<1>3. CASE k = <<s, lev>>
    BY <1>1, <1>3 DEF Books, Kept
<1>4. CASE k = <<r, lev>>
    BY <1>1, <1>2, <1>4 DEF Books
<1>5. CASE /\ k = <<q, lev + n \div Miu>>
           /\ ~(s.devPeriod <= 0) /\ ~(n < r.devPeriod)
    <2> HIDE DEF r, n, q
    <2>1. /\ Periods(r) /\ r.devPeriod > 0 /\ DOMAIN r = Fields
          /\ ~(n < r.devPeriod)
        BY <1>2, <1>5 DEF Kept, Periods
    <2>2. /\ n \in Nat /\ n <= r.pending /\ n \div Miu \in Nat
          /\ Miu * (n \div Miu) \in Nat /\ Miu * (n \div Miu) <= n
          /\ r.devPeriod % Miu = 0 => Miu * (n \div Miu) = n
        BY <1>1, <1>2, <2>1, ToQueueWhole DEF n
    <2>3. /\ Kept(r, q) /\ q.total = r.total + n /\ q.processed = r.processed
          /\ q.fed = r.fed + Miu * (n \div Miu)
          /\ q.pending = Max({r.pending - n, 0})
        BY <2>1 DEF q, QueueBytes, Kept, Fields
    <2>4. q.pending = r.pending - n
        BY <1>2, <2>2, <2>3, MaxPair DEF Books
    <2>5. k[1] = q /\ k[2] = lev + n \div Miu
        BY <1>5
    <2>6. Miu * (lev + n \div Miu) = Miu * lev + Miu * (n \div Miu)
        BY <1>1, <1>2, <2>2 DEF Books
    <2>7. Kept(s, q)
        BY <1>2, <2>3, KeptTrans
    <2>8. /\ r.total \in Nat /\ r.pending \in Nat /\ r.processed \in Nat
          /\ r.inflight \in Int /\ lev \in Nat /\ Miu * lev \in Nat
          /\ r.processed <= r.total - Miu * lev
        BY <1>1, <1>2 DEF Books
    <2>9. q.inflight = r.inflight /\ q.devPeriod = r.devPeriod
        BY <2>3 DEF Kept
    <2>10. Books(q, lev + n \div Miu)
        <3>1. Told(r)
            BY <1>2 DEF Books
        <3>2. Told(q)
            BY <2>2, <2>3, <2>8, <2>9, <3>1 DEF Told
        <3> QED
            BY <2>2, <2>3, <2>4, <2>6, <2>8, <2>9, <3>2 DEF Books
    <2>11. /\ q.total + q.pending = s.total + s.pending
           /\ s.processed <= q.processed
        BY <1>2, <2>2, <2>3, <2>4, <2>6, <2>8
    <2> QED
        BY <2>5, <2>7, <2>10, <2>11
<1> QED
    <2> HIDE DEF n, q
    <2>1. k = <<s, lev>> \/ k = <<r, lev>>
          \/ /\ k = <<q, lev + n \div Miu>>
             /\ ~(s.devPeriod <= 0) /\ ~(n < r.devPeriod)
        BY DEF QueuePending, n, q
    <2> QED
        BY <2>1, <1>3, <1>4, <1>5 DEF n, q

\* A poll of the level finds exactly the frames that were played.
LEMMA PointedAt ==
    ASSUME NEW s, NEW lev, Books(s, lev), DOMAIN s = Fields,
           NEW t, t = Pointed(s, lev)
    PROVE  /\ Books(t, lev) /\ Kept(s, t)
           /\ t.total = s.total /\ t.pending = s.pending
           /\ t.processed = s.total - Miu * lev
<1>1. Miu * lev \in Nat
    BY BoundsAssumption DEF Books
<1>2. /\ Kept(s, t) /\ t.total = s.total /\ t.pending = s.pending
      /\ t.processed = Max({s.total - Min({Miu * lev, s.total}), s.processed})
      /\ t.fed = s.fed
    BY DEF Pointed, Kept, Fields
<1>3. Min({Miu * lev, s.total}) = Miu * lev
    BY <1>1, MinPair DEF Books
<1>4. t.processed = s.total - Miu * lev
    <2>1. /\ s.total - Miu * lev \in Int /\ s.processed \in Int
          /\ s.total - Miu * lev >= s.processed
        BY <1>1 DEF Books
    <2>2. Max({s.total - Miu * lev, s.processed}) = s.total - Miu * lev
        BY <2>1, MaxPair
    <2> QED
        BY <1>2, <1>3, <2>2
<1> QED
    BY <1>1, <1>2, <1>4 DEF Books, Told, Kept

-----------------------------------------------------------------------------
(* The ring.                                                               *)

\* What a move of hw leaves alone.
Moved(s, t) ==
    /\ DOMAIN t = DOMAIN s
    /\ t.open = s.open /\ t.state = s.state /\ t.rate = s.rate
    /\ t.appl = s.appl /\ t.lastAppl = s.lastAppl /\ t.running = s.running
    /\ t.start = s.start /\ t.stop = s.stop /\ t.boundary = s.boundary
    /\ t.period = s.period /\ t.buffer = s.buffer /\ t.dma = s.dma
    /\ t.devPeriod = s.devPeriod /\ t.devSize = s.devSize
    /\ t.inflight = s.inflight /\ t.pending = s.pending
    /\ t.processed = s.processed /\ t.total = s.total /\ t.fed = s.fed

LEMMA AdvanceMoved ==
    ASSUME NEW s, DOMAIN s = Fields
    PROVE  Moved(s, AdvanceHw(s))
BY DEF AdvanceHw, Moved, Fields

\* hw follows the engine: it never goes back, never overtakes it, and never
\* wraps while appl is below the boundary.
LEMMA Advanced ==
    ASSUME NEW s, DOMAIN s = Fields, Ring(s),
           s.buffer \in Nat \ {0}, s.dma = s.buffer,
           s.processed \in Nat, s.processed <= s.appl,
           s.boundary \in Nat, s.appl < s.boundary,
           NEW t, t = AdvanceHw(s)
    PROVE  Ring(t) /\ s.hw <= t.hw
<1> DEFINE n == s.buffer
           pos == IF Position(s) >= n THEN 0 ELSE Position(s)
           lap == s.base + pos < s.hw /\ s.base + n <= s.appl
           next == IF s.base + n >= s.boundary THEN 0 ELSE s.base + n
           base == IF lap THEN next ELSE s.base
<1>1. /\ s.hw \in Nat /\ s.base \in Nat /\ s.appl \in Nat /\ s.boundary \in Nat
      /\ n \in Nat \ {0} /\ s.processed \in Nat
      /\ s.base <= s.hw /\ s.hw < s.base + n /\ s.hw <= s.processed
      /\ s.processed <= s.appl /\ s.appl <= s.hw + n /\ s.appl < s.boundary
      /\ Lap(s.base, n) /\ Lap(s.base + n, n)
    BY LapNext DEF Ring
<1>2. pos = IF s.processed < s.base + n THEN s.processed - s.base
            ELSE s.processed - s.base - n
    <2>1. Position(s) = s.processed % n
        BY <1>1 DEF Position
    <2>2. s.processed % n = IF s.processed < s.base + n THEN s.processed - s.base
                            ELSE s.processed - s.base - n
        <3>1. s.base <= s.processed /\ s.processed < s.base + 2 * n
            BY <1>1
        <3> QED
            BY <1>1, <3>1, LapRest
    <2> QED
        BY <1>1, <2>1, <2>2
<1>3. t = IF base + pos >= s.boundary
          THEN [s EXCEPT !.base = 0, !.hw = (base + pos) - s.boundary]
          ELSE [s EXCEPT !.base = base, !.hw = base + pos]
    BY DEF AdvanceHw
<1> HIDE DEF pos, n
<1>4. /\ base \in Nat /\ Lap(base, n) /\ pos \in Nat /\ pos < n
      /\ s.hw <= base + pos /\ base + pos <= s.processed
    BY <1>1, <1>2
<1> HIDE DEF base
<1>5. t = [s EXCEPT !.base = base, !.hw = base + pos]
    BY <1>1, <1>3, <1>4
<1>6. t.base = base /\ t.hw = base + pos /\ Moved(s, t)
    BY <1>5 DEF Moved, Fields
<1> QED
    BY <1>1, <1>4, <1>6 DEF Ring, Moved, n

\* play_avail is the room the ring has.
LEMMA AvailIs ==
    ASSUME NEW s, Ring(s), s.hw <= s.appl, s.buffer \in Nat \ {0}
    PROVE  /\ PlayAvail(s) = s.hw + s.buffer - s.appl
           /\ PlayAvail(s) \in Nat
<1> DEFINE room == s.hw + s.buffer - s.appl
<1>1. room \in Nat /\ room <= s.buffer
    BY DEF Ring
<1>2. PlayAvail(s) = Max({0, Min({room, s.buffer})})
    <2>1. ~(s.buffer <= 0) /\ ~(room < 0)
        BY <1>1
    <2> QED
        BY <2>1, Zenon DEF PlayAvail, Clamp
<1> HIDE DEF room
<1>3. PlayAvail(s) = room
    BY <1>1, <1>2, MinPair, MaxPair
<1> QED
    BY <1>1, <1>3 DEF room

-----------------------------------------------------------------------------
(* The geometry is an invariant of its own.                                *)

\* Feeding the engine and moving hw do not touch the geometry.
LEMMA GeometryKept ==
    ASSUME NEW s, NEW t, Geometry(s), Kept(s, t) \/ Moved(s, t)
    PROVE  Geometry(t)
BY DEF Geometry, Kept, Moved

\* What a stream that is refused its ring keeps.
SameBooks(s, h) ==
    /\ h.state = s.state /\ h.dma = s.dma /\ h.devSize = s.devSize
    /\ h.lastAppl = s.lastAppl /\ h.pending = s.pending /\ h.hw = s.hw
    /\ h.total = s.total /\ h.processed = s.processed /\ h.fed = s.fed

\* What a configuration sets before it is checked.
LEMMA GivenGeometry ==
    ASSUME NEW s, Geometry(s), NEW c \in Configs, NEW g, g = Given(s, c)
    PROVE  /\ DOMAIN g = Fields /\ g.state = s.state /\ g.dma = s.dma
           /\ g.period = c.period /\ g.buffer = c.period * c.count
           /\ g.stop = IF c.stop = 0 THEN c.period * c.count ELSE c.stop
           /\ g.buffer \in Nat /\ g.period \in Nat /\ g.stop \in Nat
           /\ g.buffer > 0 => g.period > 0 /\ g.stop > 0
           /\ g.rate = c.rate /\ g.open = s.open
           /\ SameBooks(s, g)
<1>1. /\ c.period \in Nat /\ c.count \in Nat /\ c.stop \in Nat
      /\ c.period * c.count \in Nat
      /\ c.period * c.count > 0 => c.period > 0
    BY ConfigsAssumption DEF Config
<1>2. /\ DOMAIN g = Fields /\ g.state = s.state /\ g.dma = s.dma
      /\ g.period = c.period /\ g.buffer = c.period * c.count
      /\ g.stop = (IF c.stop = 0 THEN c.period * c.count ELSE c.stop)
      /\ g.rate = c.rate /\ g.open = s.open /\ SameBooks(s, g)
    BY DEF Given, Geometry, Fields, SameBooks
<1> QED
    BY <1>1, <1>2

\* A configuration that is accepted gets a DMA buffer of the ring's size.
LEMMA AcceptedGeometry ==
    ASSUME NEW s, Geometry(s), NEW c \in Configs, NEW a, a = Accepted(s, c)
    PROVE  /\ DOMAIN a = Fields /\ a.state = "SETUP"
           /\ a.period = c.period /\ a.buffer = c.period * c.count
           /\ a.dma = a.buffer /\ a.rate = c.rate /\ a.open = s.open
           /\ a.boundary = Boundary(c.period * c.count)
           /\ Geometry(a)
<1> DEFINE g == Given(s, c)
<1>1. a = [g EXCEPT !.start = StartThreshold(c, g.buffer),
                    !.boundary = Boundary(g.buffer), !.dma = g.buffer,
                    !.state = "SETUP"]
    BY DEF Accepted
<1>2. /\ DOMAIN g = Fields /\ g.period = c.period
      /\ g.buffer = c.period * c.count /\ g.rate = c.rate /\ g.open = s.open
      /\ g.buffer \in Nat /\ g.period \in Nat /\ g.stop \in Nat
      /\ g.buffer > 0 => g.period > 0 /\ g.stop > 0
    BY GivenGeometry
<1> HIDE DEF g
<1>3. /\ DOMAIN a = Fields /\ a.state = "SETUP" /\ a.period = g.period
      /\ a.buffer = g.buffer /\ a.dma = g.buffer /\ a.stop = g.stop
      /\ a.boundary = Boundary(g.buffer) /\ a.rate = g.rate /\ a.open = g.open
    BY <1>1, <1>2 DEF Fields
<1> QED
    BY <1>2, <1>3 DEF Geometry, States

\* Every exit of snd_pcm_hw_sw_parms leaves a consistent geometry, and none
\* but the first leaves a stream that runs.
LEMMA ParmsGeometry ==
    ASSUME NEW s, Geometry(s), NEW c \in Configs, NEW h, h = HwSwParms(s, c)
    PROVE  /\ Geometry(h)
           /\ \/ h = s
              \/ /\ s.state \in {"OPEN", "SETUP", "PREPARE"}
                 /\ \/ h.state = "OPEN"
                    \/ h.buffer = 0 /\ SameBooks(s, h)
                    \/ /\ h = Accepted(s, c)
                       /\ c.period * c.count \in 1 .. MaxDma
<1> DEFINE g == Given(s, c)
           a == Accepted(s, c)
           size == c.period * c.count
<1>1. MaxDma \in Nat
    BY BoundsAssumption
<1>2. /\ DOMAIN g = Fields /\ g.state = s.state /\ g.dma = s.dma
      /\ g.buffer = size /\ SameBooks(s, g)
      /\ g.buffer \in Nat /\ g.period \in Nat /\ g.stop \in Nat
    BY GivenGeometry
<1>3. DOMAIN a = Fields /\ Geometry(a)
    BY AcceptedGeometry
<1>4. \/ h = s
      \/ /\ s.state \in {"OPEN", "SETUP", "PREPARE"}
         /\ \/ h = [g EXCEPT !.state = "OPEN"]
            \/ size = 0 /\ h = [g EXCEPT !.boundary = 0]
            \/ h = [a EXCEPT !.dma = 0, !.state = "OPEN"]
            \/ size # 0 /\ ~(size > MaxDma) /\ h = a
    BY Zenon DEF HwSwParms
<1> HIDE DEF g, a, size
<1>5. CASE h = s
    BY <1>5
<1>6. CASE /\ s.state \in {"OPEN", "SETUP", "PREPARE"}
           /\ h = [g EXCEPT !.state = "OPEN"]
    BY <1>2, <1>6 DEF Geometry, Fields, States
<1>7. CASE /\ s.state \in {"OPEN", "SETUP", "PREPARE"}
           /\ size = 0 /\ h = [g EXCEPT !.boundary = 0]
    BY <1>2, <1>7 DEF Geometry, Fields, States, SameBooks
<1>8. CASE /\ s.state \in {"OPEN", "SETUP", "PREPARE"}
           /\ h = [a EXCEPT !.dma = 0, !.state = "OPEN"]
    BY <1>3, <1>8 DEF Geometry, Fields, States
<1>9. CASE /\ s.state \in {"OPEN", "SETUP", "PREPARE"}
           /\ size # 0 /\ ~(size > MaxDma) /\ h = a
    BY <1>1, <1>2, <1>3, <1>9 DEF a, size
<1> QED
    BY <1>4, <1>5, <1>6, <1>7, <1>8, <1>9

\* The engine's books after a prepare.
LEMMA DaiPrepared ==
    ASSUME NEW s, Geometry(s), NEW d, d = DaiPrepare(s)
    PROVE  /\ DOMAIN d = Fields /\ d.state = s.state
           /\ d.lastAppl = 0 /\ d.pending = 0 /\ d.total = 0 /\ d.processed = 0
           /\ d.fed = 0
           /\ d.devPeriod = (IF s.period > 0 THEN s.period ELSE s.dma)
           /\ d.devSize = s.dma /\ d.inflight \in Int
           /\ d.period = s.period /\ d.buffer = s.buffer /\ d.dma = s.dma
           /\ d.stop = s.stop /\ d.boundary = s.boundary
           /\ d.hw = s.hw /\ d.base = s.base /\ d.appl = s.appl
<1> DEFINE per == IF s.period > 0 THEN s.period ELSE s.dma
           room == IF s.dma > 0 /\ s.dma >= per THEN s.dma - per ELSE per
           low == Max({room, 2 * per})
           high == Min({low, s.dma})
           lim == IF high <= 0 THEN per ELSE high
<1>1. d = [s EXCEPT !.lastAppl = 0, !.running = FALSE, !.pending = 0,
                    !.processed = 0, !.total = 0, !.fed = 0,
                    !.devPeriod = per, !.devSize = s.dma, !.inflight = lim]
    BY Zenon DEF DaiPrepare
<1>2. per \in Nat /\ room \in Int /\ 2 * per \in Int /\ s.dma \in Int
    BY DEF Geometry
<1>3. lim \in Int
    <2>1. low \in Int
        <3> HIDE DEF per, room
        <3> QED
            BY <1>2, MaxPair
    <2>2. high \in Int
        <3> HIDE DEF low
        <3> QED
            BY <1>2, <2>1, MinPair
    <2> HIDE DEF high, per
    <2> QED
        BY <1>2, <2>2
<1>4. DOMAIN s = Fields
    BY DEF Geometry
<1>5. /\ DOMAIN d = Fields /\ d.state = s.state
      /\ d.lastAppl = 0 /\ d.pending = 0 /\ d.total = 0 /\ d.processed = 0
      /\ d.fed = 0 /\ d.devPeriod = per
      /\ d.devSize = s.dma /\ d.inflight = lim
      /\ d.period = s.period /\ d.buffer = s.buffer /\ d.dma = s.dma
      /\ d.stop = s.stop /\ d.boundary = s.boundary
      /\ d.hw = s.hw /\ d.base = s.base /\ d.appl = s.appl
    <2> HIDE DEF lim, per
    <2> QED
        BY ONLY <1>1, <1>4 DEF Fields
<1> QED
    BY ONLY <1>3, <1>5

\* A prepared stream: what was written to a ring prepared before stays.
LEMMA PrepareIs ==
    ASSUME NEW s, Geometry(s), s.state \in {"SETUP", "PREPARE", "XRUN"},
           NEW t, t = Prepare(s)
    PROVE  /\ Geometry(t) /\ t.state \in {"SETUP", "PREPARE"}
           /\ t.lastAppl = 0 /\ t.pending = 0 /\ t.total = 0 /\ t.processed = 0
           /\ t.fed = 0
           /\ t.devSize = t.dma /\ t.inflight \in Int
           /\ t.dma = s.dma /\ t.buffer = s.buffer /\ t.boundary = s.boundary
           /\ \/ t.hw = 0 /\ t.base = 0 /\ t.appl = 0
              \/ /\ s.state = "PREPARE" /\ t.state = "PREPARE"
                 /\ t.hw = s.hw /\ t.base = s.base /\ t.appl = s.appl
<1> DEFINE d == DaiPrepare(s)
           reset == [d EXCEPT !.base = 0, !.hw = 0, !.appl = 0]
<1>1. /\ DOMAIN d = Fields /\ d.state = s.state
      /\ d.lastAppl = 0 /\ d.pending = 0 /\ d.total = 0 /\ d.processed = 0
      /\ d.fed = 0
      /\ d.devPeriod = (IF s.period > 0 THEN s.period ELSE s.dma)
      /\ d.devSize = s.dma /\ d.inflight \in Int
      /\ d.period = s.period /\ d.buffer = s.buffer /\ d.dma = s.dma
      /\ d.stop = s.stop /\ d.boundary = s.boundary
      /\ d.hw = s.hw /\ d.base = s.base /\ d.appl = s.appl
    BY DaiPrepared
<1>2. \/ t = [reset EXCEPT !.state = "SETUP"]
      \/ s.state = "PREPARE" /\ t = d
      \/ t = [reset EXCEPT !.state = "PREPARE"]
    BY Zenon DEF Prepare
<1> HIDE DEF d
<1>3. /\ DOMAIN reset = Fields
      /\ reset.lastAppl = 0 /\ reset.pending = 0 /\ reset.total = 0
      /\ reset.processed = 0 /\ reset.fed = 0
      /\ reset.devPeriod = (IF s.period > 0 THEN s.period ELSE s.dma)
      /\ reset.devSize = s.dma /\ reset.inflight \in Int
      /\ reset.period = s.period /\ reset.buffer = s.buffer
      /\ reset.dma = s.dma /\ reset.stop = s.stop
      /\ reset.boundary = s.boundary
      /\ reset.hw = 0 /\ reset.base = 0 /\ reset.appl = 0
    BY <1>1 DEF Fields
<1> HIDE DEF reset
<1>4. CASE t = [reset EXCEPT !.state = "SETUP"]
    BY <1>3, <1>4 DEF Geometry, Fields, States
<1>5. CASE s.state = "PREPARE" /\ t = d
    BY <1>1, <1>5 DEF Geometry, States
<1>6. CASE t = [reset EXCEPT !.state = "PREPARE"]
    BY <1>3, <1>6 DEF Geometry, Fields, States
<1> QED
    BY <1>2, <1>4, <1>5, <1>6

\* Getting ready to write: nothing happens to a stream that is prepared or
\* runs, and one that becomes prepared is a clean one with a ring of its own.
LEMMA WriteReadyIs ==
    ASSUME NEW s, Geometry(s), NEW w, w = WriteReady(s)
    PROVE  /\ Geometry(w)
           /\ \/ w = s
              \/ s.state \in {"OPEN", "SETUP"} /\ w.state = "OPEN"
              \/ /\ s.state \in {"OPEN", "SETUP"}
                 /\ \E d : /\ w = Prepare(d) /\ Geometry(d) /\ d.state = "SETUP"
                           /\ \/ d = s
                              \/ /\ d = Accepted(s, Default)
                                 /\ Default.period * Default.count \in 1 .. MaxDma
<1> DEFINE d == DefaultHw(s)
<1>1. w = IF d.state = "SETUP" THEN Prepared(d) ELSE d
    BY DEF WriteReady
<1>2. /\ Geometry(d)
      /\ \/ d = s
         \/ /\ s.state = "OPEN" /\ s.open
            /\ \/ d.state = "OPEN"
               \/ /\ d = Accepted(s, Default)
                  /\ Default.period * Default.count \in 1 .. MaxDma
    <2>1. Default \in Configs
        BY ConfigsAssumption
    <2>2. d = s \/ (s.state = "OPEN" /\ s.open /\ d = HwSwParms(s, Default))
        BY DEF DefaultHw
    <2> QED
        BY <2>1, <2>2, ParmsGeometry DEF SameBooks
<1> HIDE DEF d
<1>3. d = Accepted(s, Default) => d.state = "SETUP" /\ d.open = s.open
    BY ConfigsAssumption, AcceptedGeometry
<1>4. CASE d.state # "SETUP"
    BY <1>1, <1>2, <1>3, <1>4
<1>5. CASE d.state = "SETUP" /\ ~d.open
    <2>1. w = d /\ d = s
        BY <1>1, <1>2, <1>3, <1>5 DEF Prepared, Preparable
    <2> QED
        BY <2>1
<1>6. CASE d.state = "SETUP" /\ d.open
    <2>1. w = Prepare(d)
        BY <1>1, <1>6 DEF Prepared, Preparable
    <2>2. Geometry(w)
        BY <1>2, <1>6, <2>1, PrepareIs
    <2> QED
        BY <1>2, <1>6, <2>1, <2>2
<1> QED
    BY <1>4, <1>5, <1>6

\* The view of the hardware a poll of a running stream gets.
View(g, lev) == CheckXrun(AdvanceHw(Pointed(g, lev)))

\* A poll of a running stream leaves its geometry alone, and finds it running
\* or dry.
LEMMA PolledGeometry ==
    ASSUME NEW g, NEW lev, Geometry(g), g.state = "RUNNING",
           NEW s, s = View(g, lev), NEW k, k = Kicked(s, lev)
    PROVE  /\ Geometry(s) /\ Geometry(k[1])
           /\ s.state \in {"RUNNING", "XRUN"} /\ k[1].state = s.state
           /\ s.buffer = g.buffer /\ k[1].buffer = g.buffer
<1> DEFINE p == Pointed(g, lev)
           u == AdvanceHw(p)
<1>1. DOMAIN g = Fields
    BY DEF Geometry
<1>2. Kept(g, p) /\ DOMAIN p = Fields
    BY <1>1 DEF Pointed, Kept, Fields
<1> HIDE DEF p
<1>3. Moved(p, u)
    BY <1>2, AdvanceMoved
<1> HIDE DEF u
<1>4. Geometry(u) /\ u.state = "RUNNING" /\ u.buffer = g.buffer
    <2>1. Geometry(p)
        BY <1>2, GeometryKept
    <2> QED
        BY <1>2, <1>3, <2>1, GeometryKept DEF Kept, Moved
<1>5. s = u \/ s = [[u EXCEPT !.running = FALSE] EXCEPT !.state = "XRUN"]
    BY DEF View, CheckXrun, TriggerStop, u, p
<1>6. /\ Geometry(s) /\ s.state \in {"RUNNING", "XRUN"}
      /\ s.buffer = g.buffer
    BY <1>4, <1>5 DEF Geometry, Fields, States
<1>7. Kept(s, k[1])
    <2>1. Kept(s, s) /\ DOMAIN s = Fields
        BY <1>6 DEF Kept, Geometry
    <2>2. k = <<s, lev>> \/ k = QueuePending(s, lev)
        BY DEF Kicked
    <2> QED
        BY <2>1, <2>2, FedKept
<1>8. Geometry(k[1])
    BY <1>6, <1>7, GeometryKept
<1> QED
    BY <1>6, <1>7, <1>8 DEF Kept

\* The pair a poll goes on with.
LEMMA PollPair ==
    ASSUME NEW p, p \in Poll(pcm, level)
    PROVE  \/ /\ pcm.state # "RUNNING"
              /\ p[1] = pcm /\ p[2] = <<pcm, level>>
           \/ /\ pcm.state = "RUNNING"
              /\ p[1] = View(pcm, level)
              /\ p[2] = Kicked(View(pcm, level), level)
BY DEF Poll, View

LEMMA PollIs ==
    /\ (\E p \in Poll(pcm, level) : Refreshed(p[1], p[2])) =>
         \/ pcm.state # "RUNNING" /\ Refreshed(pcm, <<pcm, level>>)
         \/ /\ pcm.state = "RUNNING"
            /\ Refreshed(View(pcm, level), Kicked(View(pcm, level), level))
    /\ (\E p \in Poll(pcm, level) : FoundRoom(p[1], p[2]))
         /\ pcm.state = "RUNNING" =>
         FoundRoom(View(pcm, level), Kicked(View(pcm, level), level))
    /\ (\E p \in Poll(pcm, level) : FoundFull(p[1], p[2]))
         /\ pcm.state = "RUNNING" =>
         FoundFull(View(pcm, level), Kicked(View(pcm, level), level))
<1>1. (\E p \in Poll(pcm, level) : Refreshed(p[1], p[2])) =>
         \/ pcm.state # "RUNNING" /\ Refreshed(pcm, <<pcm, level>>)
         \/ /\ pcm.state = "RUNNING"
            /\ Refreshed(View(pcm, level), Kicked(View(pcm, level), level))
    BY PollPair, Zenon
<1>2. (\E p \in Poll(pcm, level) : FoundRoom(p[1], p[2]))
         /\ pcm.state = "RUNNING" =>
         FoundRoom(View(pcm, level), Kicked(View(pcm, level), level))
    BY PollPair, Zenon
<1>3. (\E p \in Poll(pcm, level) : FoundFull(p[1], p[2]))
         /\ pcm.state = "RUNNING" =>
         FoundFull(View(pcm, level), Kicked(View(pcm, level), level))
    BY PollPair, Zenon
<1> QED
    BY <1>1, <1>2, <1>3, Zenon

\* A chunk is copied, the stream perhaps started, the engine told and fed.
Chunked(g, n, lev) ==
    LET s == Started(Copied(g, n))
        a == Acked(s, lev)
    IN  QueuePending(a[1], a[2])

LEMMA CopyIs ==
    WriteCopy => /\ pcm' = Chunked(pcm, Chunk, level)[1]
                 /\ level' = Chunked(pcm, Chunk, level)[2]
BY Zenon DEF WriteCopy, Chunked

\* A copied chunk leaves the geometry alone.
LEMMA CopiedGeometry ==
    ASSUME NEW g, NEW n, NEW lev, Geometry(g), g.buffer > 0,
           g.state \in {"PREPARE", "RUNNING", "XRUN"},
           NEW k, k = Chunked(g, n, lev)
    PROVE  /\ Geometry(k[1]) /\ k[1].buffer = g.buffer
           /\ k[1].state \in {"PREPARE", "RUNNING", "XRUN"}
           /\ g.state = "XRUN" => k[1].state = "XRUN"
           /\ g.state = "RUNNING" => k[1].state = "RUNNING"
<1> DEFINE c == Copied(g, n)
           s == Started(c)
           a == Acked(s, lev)
<1>1. /\ Geometry(c) /\ c.buffer = g.buffer /\ c.state = g.state
    BY DEF Copied, Geometry, Fields
<1> HIDE DEF c
<1>2. /\ Geometry(s) /\ s.buffer = g.buffer
      /\ s.state \in {"PREPARE", "RUNNING", "XRUN"}
      /\ g.state = "XRUN" => s.state = "XRUN"
      /\ g.state = "RUNNING" => s.state = "RUNNING"
    <2>1. \/ s = c
          \/ /\ c.state = "PREPARE"
             /\ s = [c EXCEPT !.state = "RUNNING", !.running = TRUE]
        BY DEF Started
    <2> HIDE DEF s
    <2>2. CASE s = c
        BY <1>1, <2>2
    <2>3. CASE /\ c.state = "PREPARE"
               /\ s = [c EXCEPT !.state = "RUNNING", !.running = TRUE]
        <3>1. /\ DOMAIN s = Fields /\ s.state = "RUNNING"
              /\ s.buffer = c.buffer /\ s.period = c.period /\ s.dma = c.dma
              /\ s.stop = c.stop /\ s.devSize = c.devSize
              /\ s.devPeriod = c.devPeriod
            BY <1>1, <2>3 DEF Geometry, Fields
        <3>2. Geometry(s)
            BY <1>1, <2>3, <3>1 DEF Geometry, States
        <3> QED
            BY <1>1, <2>3, <3>1, <3>2
    <2> QED
        BY <2>1, <2>2, <2>3
<1> HIDE DEF s
<1>3. Geometry(a[1]) /\ a[1].buffer = s.buffer /\ a[1].state = s.state
    <2> DEFINE b == [s EXCEPT !.lastAppl = s.appl,
                              !.pending = @ + Max({s.appl - s.lastAppl, 0})]
    <2>1. a = <<s, lev>> \/ a = <<b, lev>> \/ a = QueuePending(b, lev)
        BY Zenon DEF Acked, Ack
    <2>2. /\ Geometry(b) /\ DOMAIN b = Fields
          /\ b.buffer = s.buffer /\ b.state = s.state
        BY <1>2 DEF Geometry, Fields
    <2> HIDE DEF b, a
    <2>3. CASE a = QueuePending(b, lev)
        <3>1. Kept(b, a[1])
            BY <2>2, <2>3, FedKept
        <3> QED
            BY <2>2, <3>1, GeometryKept DEF Kept
    <2> QED
        BY <1>2, <2>1, <2>2, <2>3
<1> HIDE DEF a
<1>4. k = QueuePending(a[1], a[2])
    BY DEF Chunked, a, s, c
<1>5. Kept(a[1], k[1])
    BY <1>3, <1>4, FedKept DEF Geometry
<1> QED
    BY <1>2, <1>3, <1>5, GeometryKept DEF Kept

\* What the write handler's busy flag says about the call.
LEMMA IdleCall == Idle.busy = FALSE
BY DEF Idle

\* Every step keeps the geometry.
LEMMA NextGeometry ==
    ASSUME GeometryInv, [Next]_vars
    PROVE  GeometryInv'
<1>1. CASE UNCHANGED vars
    BY <1>1 DEF GeometryInv, vars
<1>2. CASE Open
    <2>1. Geometry(Opened)
        <3>1. /\ DOMAIN Opened = Fields /\ Opened.state = "OPEN"
              /\ Opened.buffer = 0 /\ Opened.period = 0 /\ Opened.dma = 0
              /\ Opened.stop = 0
            BY DEF Opened, Fields
        <3> QED
            BY <3>1 DEF Geometry, States
    <2> QED
        BY <1>2, <2>1 DEF Open, GeometryInv
<1>3. CASE Close \/ LoopReap
    <2>1. pcm' = Released(pcm) /\ UNCHANGED call /\ ~call.busy
        BY <1>3 DEF Close, LoopReap, MayCall
    <2>2. Geometry(Released(pcm))
        <3> DEFINE t == Released(pcm)
        <3>1. Geometry(pcm)
            BY DEF GeometryInv
        <3>2. /\ DOMAIN t = Fields /\ t.state = "UNKOWN" /\ t.dma = 0
              /\ t.buffer = pcm.buffer /\ t.period = pcm.period
              /\ t.stop = pcm.stop
            BY <3>1 DEF Released, Geometry, Fields
        <3> HIDE DEF t
        <3> QED
            BY <3>1, <3>2 DEF Geometry, States, t
    <2> QED
        BY <2>1, <2>2 DEF GeometryInv
<1>4. CASE SetParams
    <2>1. PICK c \in Configs : pcm' = HwSwParms(pcm, c)
        BY <1>4 DEF SetParams
    <2> QED
        BY <1>4, <2>1, ParmsGeometry DEF SetParams, MayCall, GeometryInv
<1>5. CASE HwFree
    <2>1. /\ pcm' = [pcm EXCEPT !.dma = 0, !.state = "OPEN"]
          /\ UNCHANGED call /\ ~call.busy
        BY <1>5 DEF HwFree, MayCall
    <2> QED
        BY <2>1 DEF GeometryInv, Geometry, Fields, States
<1>6. CASE PrepareStream
    BY <1>6, PrepareIs DEF PrepareStream, MayCall, Preparable, GeometryInv
<1>7. CASE BufAvail
    <2>1. pcm' = HwSwParms(pcm, Default) /\ UNCHANGED call /\ ~call.busy
        BY <1>7 DEF BufAvail, MayCall, DefaultHw
    <2> QED
        BY <2>1, ConfigsAssumption, ParmsGeometry DEF GeometryInv
<1>8. CASE WriteEnter
    <2> DEFINE s == WriteReady(pcm)
    <2>1. /\ pcm' = s /\ ~call.busy
          /\ \/ s.buffer > 0 /\ s.state \in {"PREPARE", "RUNNING"}
             \/ UNCHANGED call
        BY <1>8 DEF WriteEnter
    <2>2. Geometry(s)
        BY WriteReadyIs DEF GeometryInv
    <2> QED
        BY <2>1, <2>2 DEF GeometryInv
<1>9. CASE WriteRefresh
    <2> DEFINE s == View(pcm, level)
               k == Kicked(s, level)
    <2>1. \/ pcm.state # "RUNNING" /\ pcm' = pcm
          \/ pcm.state = "RUNNING" /\ pcm' = k[1]
        BY <1>9, PollIs DEF WriteRefresh, Refreshed
    <2>2. call.busy
        BY <1>9 DEF WriteRefresh
    <2>3. CASE pcm.state # "RUNNING" /\ pcm' = pcm
        BY <2>2, <2>3 DEF GeometryInv
    <2>4. CASE pcm.state = "RUNNING" /\ pcm' = k[1]
        BY <2>2, <2>4, PolledGeometry DEF GeometryInv
    <2> QED
        BY <2>1, <2>3, <2>4
<1>10. CASE WriteCopy
    BY <1>10, CopyIs, CopiedGeometry DEF WriteCopy, GeometryInv
<1>11. CASE WriteReturn
    BY <1>11, IdleCall DEF WriteReturn, GeometryInv
<1>12. CASE LoopClosed \/ LoopIdle \/ Die \/ Drain \/ Hang
    BY <1>12 DEF LoopClosed, LoopIdle, LoopTurn, Die, Drain, Hang, GeometryInv
<1>13. CASE LoopWritable
    <2> DEFINE s == View(pcm, level)
               k == Kicked(s, level)
    <2>1. pcm.state = "RUNNING" /\ pcm' = k[1] /\ UNCHANGED call /\ ~call.busy
        BY <1>13, PollIs DEF LoopWritable, LoopTurn, FoundRoom
    <2> QED
        BY <2>1, PolledGeometry DEF GeometryInv
<1>14. CASE LoopFull
    <2> DEFINE s == View(pcm, level)
               k == Kicked(s, level)
               x == [TriggerStop(k[1]) EXCEPT !.state = "XRUN"]
    <2>1. /\ pcm.state = "RUNNING" /\ UNCHANGED call /\ ~call.busy
          /\ pcm' = x \/ pcm' = k[1]
        BY <1>14, PollIs DEF LoopFull, LoopTurn, FoundFull
    <2>2. /\ Geometry(k[1]) /\ k[1].buffer > 0
          /\ k[1].state \in {"RUNNING", "XRUN"}
        BY <2>1, PolledGeometry DEF GeometryInv, Geometry
    <2>3. Geometry(x)
        <3> DEFINE y == k[1]
        <3>1. x = [[y EXCEPT !.running = FALSE] EXCEPT !.state = "XRUN"]
            BY DEF TriggerStop
        <3>2. Geometry(y) /\ y.buffer > 0 /\ y.state \in {"RUNNING", "XRUN"}
            BY <2>2
        <3> HIDE DEF x, y
        <3> QED
            BY <3>1, <3>2 DEF Geometry, Fields, States
    <2> QED
        BY <2>1, <2>2, <2>3 DEF GeometryInv
<1> QED
    BY <1>1, <1>2, <1>3, <1>4, <1>5, <1>6, <1>7, <1>8, <1>9, <1>10, <1>11,
       <1>12, <1>13, <1>14 DEF Next

\* The stream as the driver starts has no ring.
LEMMA InitGeometry == Init => GeometryInv
<1>1. ASSUME Init PROVE GeometryInv
    <2>1. pcm = [Opened EXCEPT !.open = FALSE, !.state = "UNKOWN"] /\ ~call.busy
        BY <1>1, IdleCall DEF Init
    <2>2. /\ DOMAIN pcm = Fields /\ pcm.state = "UNKOWN" /\ pcm.buffer = 0
          /\ pcm.period = 0 /\ pcm.dma = 0 /\ pcm.stop = 0
        BY <2>1 DEF Opened, Fields
    <2> QED
        BY <2>1, <2>2 DEF GeometryInv, Geometry, States
<1> QED
    BY <1>1

(***************************************************************************)
(* A running stream has the engine programmed with the geometry the write  *)
(* path copies by, whatever configurations were accepted or refused before *)
(* (GeometryAgrees), for every set of configurations.                      *)
(***************************************************************************)
THEOREM GeometryAgreesHolds == Spec => []GeometryAgrees
<1>1. GeometryInv => GeometryAgrees
    BY DEF GeometryInv, Geometry, GeometryAgrees
<1> QED
    BY <1>1, InitGeometry, NextGeometry, PTL DEF Spec

=============================================================================
