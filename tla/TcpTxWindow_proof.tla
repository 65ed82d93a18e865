------------------------ MODULE TcpTxWindow_proof ---------------------------
(***************************************************************************)
(* The sending window, for any number of bytes, segment size, pool and     *)
(* window: the segments tile the stream and each is in the queue it        *)
(* belongs to, packets hold the stream, nothing is dropped that the peer   *)
(* has not got, and its window is kept.                                    *)
(***************************************************************************)
EXTENDS TcpTxWindow, SequenceTheorems, FiniteSetTheorems, TLAPS

-----------------------------------------------------------------------------
(* The invariant *)

\* Positions of the user's stream, for the sequence numbers.
Number(p) == SeqAdd(InitialSeq, p)
Start(s) == Position(s.ulSequenceNumber)
Upto(s) == Start(s) + s.lDataLength

SegmentType ==
    [ulSequenceNumber : SeqNumber, lDataLength : 1 .. MSS, lStreamPos : Index,
     bOutstanding : BOOLEAN, ucTransmitCount : 0 .. MaxTransmitCount,
     ucDupAckCount : 0 .. DuplicateAcks + 1, bAcked : BOOLEAN]

WindowType ==
    [ulCurrentSequenceNumber : SeqNumber, ulHighestSequenceNumber : SeqNumber,
     ulNextTxSequenceNumber : SeqNumber, xTxSegments : Seq(SegmentType),
     xPriorityQueue : Seq(SeqNumber), xWaitQueue : Seq(SeqNumber), xTxQueue : Seq(SeqNumber),
     pxHeadSegment : SeqNumber \cup {NoSegment}, ulTxWindowLength : Nat, bSendFullSize : BOOLEAN]

StreamType == [array : [Index -> Nat \cup {Garbage}], head : Index, tail : Index, mid : Index]

\* The positions of a window's numbers.
Cur(w) == Position(w.ulCurrentSequenceNumber)
High(w) == Position(w.ulHighestSequenceNumber)
Nxt(w) == Position(w.ulNextTxSequenceNumber)

\* The segments lie one after the other, from a to n.
Tiled(segs, a, n) ==
    /\ \A i \in 1 .. Len(segs) : a <= Start(segs[i]) /\ Upto(segs[i]) <= n
    /\ \A i, j \in 1 .. Len(segs) : i < j => Upto(segs[i]) <= Start(segs[j])
    /\ \A i, j \in 1 .. Len(segs) : j = i + 1 => Start(segs[j]) = Upto(segs[i])
    /\ Len(segs) = 0 => a = n
    /\ Len(segs) # 0 => Start(segs[1]) = a /\ Upto(segs[Len(segs)]) = n

\* The transmit queue has the segments that were not sent yet, in their order;
\* they begin at h.
Unsent(segs, queue, h, n) ==
    /\ Len(queue) <= Len(segs)
    /\ \A j \in 1 .. Len(queue) : queue[j] = segs[Len(segs) - Len(queue) + j].ulSequenceNumber
    /\ \A i \in 1 .. Len(segs) : segs[i].bOutstanding <=> i <= Len(segs) - Len(queue)
    /\ \A i \in 1 .. Len(segs) : segs[i].bAcked => segs[i].bOutstanding
    /\ Len(queue) = 0 => h = n
    /\ Len(queue) # 0 => Start(segs[Len(segs) - Len(queue) + 1]) = h

Distinct(queue) == \A i, j \in 1 .. Len(queue) : queue[i] = queue[j] => i = j

\* The segments that were sent and not acknowledged ...
Flying(segs) == {segs[i].ulSequenceNumber :
                     i \in {k \in 1 .. Len(segs) : segs[k].bOutstanding /\ ~segs[k].bAcked}}

\* ... are in one of the other two queues, once.
InFlight(segs, prio, wait) ==
    /\ Distinct(prio) /\ Distinct(wait)
    /\ ToSet(prio) \cap ToSet(wait) = {}
    /\ ToSet(prio) \cup ToSet(wait) = Flying(segs)

\* Only the last segment, and only while it was not sent, is filled up.
HeadFits(segs, head) ==
    head # NoSegment =>
        Len(segs) # 0 /\ head = segs[Len(segs)].ulSequenceNumber /\ ~segs[Len(segs)].bOutstanding

WindowOK(w) ==
    /\ w \in WindowType
    /\ Cur(w) <= High(w) /\ High(w) <= Nxt(w) /\ Nxt(w) <= MaxBytes
    /\ Tiled(w.xTxSegments, Cur(w), Nxt(w))
    /\ Unsent(w.xTxSegments, w.xTxQueue, High(w), Nxt(w))
    /\ InFlight(w.xTxSegments, w.xPriorityQueue, w.xWaitQueue)
    /\ HeadFits(w.xTxSegments, w.pxHeadSegment)

\* Each segment's bytes lie where lStreamPos says, if the tail is at position a.
Placed(segs, tail, a) ==
    \A i \in 1 .. Len(segs) : segs[i].lStreamPos = Wrap(tail + (Start(segs[i]) - a))

\* The stream holds the bytes from position a on.
StreamHolds(stream, a) ==
    /\ stream \in StreamType
    /\ a + Distance(stream.tail, stream.head) <= MaxBytes
    /\ \A k \in 0 .. LENGTH - 1 :
          k < Distance(stream.tail, stream.head) => stream.array[Wrap(stream.tail + k)] = a + k

Matches(w, stream) ==
    /\ Placed(w.xTxSegments, stream.tail, Cur(w))
    /\ StreamHolds(stream, Cur(w))
    /\ Distance(stream.tail, stream.mid) = Nxt(w) - Cur(w)
    /\ Distance(stream.tail, stream.mid) <= Distance(stream.tail, stream.head)

\* A packet holds a piece of the stream that lies below h.
Packet(p, n) == [seq |-> Number(p), data |-> [i \in 1 .. n |-> p + i - 1]]
Packets == {Packet(p, n) : p \in 0 .. MaxBytes, n \in 1 .. MSS}
PacketOK(packet, h) == \E p \in 0 .. MaxBytes, n \in 1 .. MSS : p + n <= h /\ packet = Packet(p, n)

\* The peer has what is dropped or no longer sent.
PeerHas(w, got) ==
    /\ got \subseteq 0 .. High(w) - 1
    /\ 0 .. Cur(w) - 1 \subseteq got
    /\ \A i \in 1 .. Len(w.xTxSegments) : w.xTxSegments[i].bAcked =>
          Start(w.xTxSegments[i]) .. Upto(w.xTxSegments[i]) - 1 \subseteq got

PoolOK(free, segs) == free \in Nat /\ free + Len(segs) <= SegmentCount

\* An acknowledgement tells what the peer has.
AckType == [ack : SeqNumber, window : Int, sack : {<< >>} \cup (SeqNumber \X SeqNumber)]

AckOK(m, got) ==
    /\ Position(m.ack) <= MaxBytes /\ 0 .. Position(m.ack) - 1 \subseteq got
    /\ m.sack # << >> =>
          /\ Position(m.sack[1]) < Position(m.sack[2]) /\ Position(m.sack[2]) <= MaxBytes
          /\ Position(m.sack[1]) .. Position(m.sack[2]) - 1 \subseteq got

\* Position x lies in none of the segments that were acknowledged out of order.
Clear(segs, x) ==
    \A i \in 1 .. Len(segs) : segs[i].bAcked /\ Start(segs[i]) < x => Upto(segs[i]) <= x

\* Nothing allows more than the peer did.
Bounded(w, windowSize, e) ==
    /\ Cur(w) + windowSize <= e
    /\ InitialSeq + High(w) < SeqRange => High(w) <= e

\* Acknowledgements that come in order ask for no more, and tell of no less, each
\* than the one before.
InOrder(w, queue, e) ==
    /\ \A i \in 1 .. Len(queue) :
          /\ Position(queue[i].ack) + queue[i].window <= e
          /\ Cur(w) <= Position(queue[i].ack)
          /\ Clear(w.xTxSegments, Position(queue[i].ack))
          /\ queue[i].sack # << >> => Position(queue[i].ack) < Position(queue[i].sack[1])
    /\ \A i, j \in 1 .. Len(queue) : i < j =>
          /\ Position(queue[i].ack) <= Position(queue[j].ack)
          /\ queue[i].sack # << >> /\ Position(queue[i].sack[1]) <= Position(queue[j].ack) =>
                Position(queue[i].sack[2]) <= Position(queue[j].ack)

IInv ==
    /\ WindowOK(pxWindow)
    /\ Matches(pxWindow, txStream)
    /\ PoolOK(freeSegments, pxWindow.xTxSegments)
    /\ \A packet \in wire : PacketOK(packet, High(pxWindow))
    /\ PeerHas(pxWindow, received)
    /\ received \subseteq 0 .. edge - 1 /\ edge \in Nat
    /\ acks \in Seq(AckType) /\ Len(acks) <= MaxAcks
    /\ \A i \in 1 .. Len(acks) : AckOK(acks[i], received)
    /\ ulWindowSize \in Int /\ overtaken \in BOOLEAN
    /\ ~overtaken => Bounded(pxWindow, ulWindowSize, edge) /\ InOrder(pxWindow, acks, edge)

-----------------------------------------------------------------------------
(* Sequence numbers *)

LEMMA Constants ==
    /\ HalfRange \in Nat /\ 2 * HalfRange = SeqRange /\ HalfRange > 0
    /\ MaxBytes \in Nat /\ MaxBytes < HalfRange
    /\ InitialSeq \in Nat /\ InitialSeq < SeqRange /\ SeqRange \in Nat
    /\ MSS \in Nat /\ MSS > 1 /\ LENGTH \in Nat /\ LENGTH > 0
BY SeqRangeAssumption, TxAssumption, LengthAssumption DEF HalfRange, SeqNumber

\* A number less than a turn below zero or above the range comes back into it.
LEMMA ModuloOnce ==
    ASSUME NEW x \in Int, -SeqRange <= x, x < 2 * SeqRange
    PROVE  x % SeqRange = IF x < 0 THEN x + SeqRange ELSE IF x < SeqRange THEN x ELSE x - SeqRange
BY SeqRangeAssumption

\* A number stands for a position less than a turn away.
LEMMA PositionValue ==
    ASSUME NEW q \in SeqNumber
    PROVE  /\ Position(q) \in SeqNumber
           /\ Position(q) = IF q >= InitialSeq THEN q - InitialSeq ELSE q - InitialSeq + SeqRange
<1>1. q - InitialSeq \in Int /\ -SeqRange <= q - InitialSeq /\ q - InitialSeq < 2 * SeqRange
    BY Constants DEF SeqNumber
<1>2. Position(q) = IF q - InitialSeq < 0 THEN q - InitialSeq + SeqRange
                    ELSE IF q - InitialSeq < SeqRange THEN q - InitialSeq ELSE q - InitialSeq - SeqRange
    BY <1>1, ModuloOnce DEF Position, SeqSub
<1> QED
    BY <1>2, Constants DEF SeqNumber

\* Two numbers that stand for one position are the same.
LEMMA PositionOne ==
    ASSUME NEW q \in SeqNumber, NEW r \in SeqNumber, Position(q) = Position(r)
    PROVE  q = r
<1>1. /\ Position(q) = IF q >= InitialSeq THEN q - InitialSeq ELSE q - InitialSeq + SeqRange
      /\ Position(r) = IF r >= InitialSeq THEN r - InitialSeq ELSE r - InitialSeq + SeqRange
    BY PositionValue
<1>2. Position(q) = Position(r) /\ q \in Nat /\ r \in Nat /\ q < SeqRange /\ r < SeqRange
    BY Constants DEF SeqNumber
<1>3. CASE q >= InitialSeq /\ r >= InitialSeq
    <2>1. q - InitialSeq = r - InitialSeq
        BY <1>1, <1>2, <1>3, Zenon
    <2> QED
        BY <1>2, <2>1, Constants
<1>4. CASE q >= InitialSeq /\ ~(r >= InitialSeq)
    <2>1. q - InitialSeq = r - InitialSeq + SeqRange
        BY <1>1, <1>2, <1>4, Zenon
    <2> QED
        BY <1>2, <2>1, Constants
<1>5. CASE ~(q >= InitialSeq) /\ r >= InitialSeq
    <2>1. q - InitialSeq + SeqRange = r - InitialSeq
        BY <1>1, <1>2, <1>5, Zenon
    <2> QED
        BY <1>2, <2>1, Constants
<1>6. CASE ~(q >= InitialSeq) /\ ~(r >= InitialSeq)
    <2>1. q - InitialSeq + SeqRange = r - InitialSeq + SeqRange
        BY <1>1, <1>2, <1>6, Zenon
    <2> QED
        BY <1>2, <2>1, Constants
<1> QED
    BY <1>3, <1>4, <1>5, <1>6

\* Going on in the numbers goes on in the stream.
LEMMA PositionAdd ==
    ASSUME NEW q \in SeqNumber, NEW n \in Nat, Position(q) + n <= MaxBytes
    PROVE  SeqAdd(q, n) \in SeqNumber /\ Position(SeqAdd(q, n)) = Position(q) + n
<1>1. /\ Position(q) \in SeqNumber
      /\ Position(q) = IF q >= InitialSeq THEN q - InitialSeq ELSE q - InitialSeq + SeqRange
    BY PositionValue
<1>2. q + n \in Int /\ 0 <= q + n /\ q + n < 2 * SeqRange
    BY <1>1, Constants DEF SeqNumber
<1>3. SeqAdd(q, n) = IF q + n < SeqRange THEN q + n ELSE q + n - SeqRange
    <2>1. -SeqRange <= q + n
        BY <1>2, Constants
    <2>2. (q + n) % SeqRange = IF q + n < 0 THEN q + n + SeqRange
                               ELSE IF q + n < SeqRange THEN q + n ELSE q + n - SeqRange
        BY <1>2, <2>1, SeqRangeAssumption DEF SeqNumber
    <2> QED
        BY <1>2, <2>2 DEF SeqAdd
<1>4. SeqAdd(q, n) \in SeqNumber
    BY <1>2, <1>3, Constants DEF SeqNumber
<1>5. Position(SeqAdd(q, n)) = IF SeqAdd(q, n) >= InitialSeq THEN SeqAdd(q, n) - InitialSeq
                               ELSE SeqAdd(q, n) - InitialSeq + SeqRange
    BY <1>4, PositionValue
<1> QED
    BY <1>1, <1>3, <1>4, <1>5, Constants DEF SeqNumber

\* The number of a position stands for it.
LEMMA PositionOfNumber ==
    ASSUME NEW p \in 0 .. MaxBytes
    PROVE  Number(p) \in SeqNumber /\ Position(Number(p)) = p
<1>1. InitialSeq \in SeqNumber
    BY Constants DEF SeqNumber
<1>2. Position(InitialSeq) = 0
    BY <1>1, PositionValue, Constants
<1> QED
    BY <1>1, <1>2, PositionAdd, Constants DEF Number

\* The comparisons of the code compare positions.
LEMMA PositionLess ==
    ASSUME NEW q \in SeqNumber, NEW r \in SeqNumber,
           Position(q) <= MaxBytes, Position(r) <= MaxBytes
    PROVE  /\ xSequenceLessThan(q, r) <=> Position(q) < Position(r)
           /\ xSequenceGreaterThan(q, r) <=> Position(r) < Position(q)
           /\ xSequenceLessThanOrEqual(q, r) <=> Position(q) <= Position(r)
<1>1. ASSUME NEW a \in SeqNumber, NEW b \in SeqNumber,
             Position(a) <= MaxBytes, Position(b) <= MaxBytes
      PROVE  SeqSub(b, SeqAdd(a, 1)) < HalfRange <=> Position(a) < Position(b)
    <2>1. /\ Position(a) = IF a >= InitialSeq THEN a - InitialSeq ELSE a - InitialSeq + SeqRange
          /\ Position(b) = IF b >= InitialSeq THEN b - InitialSeq ELSE b - InitialSeq + SeqRange
        BY PositionValue
    <2>2. SeqAdd(a, 1) = IF a + 1 < SeqRange THEN a + 1 ELSE a + 1 - SeqRange
        <3>1. a + 1 \in Int /\ -SeqRange <= a + 1 /\ a + 1 < 2 * SeqRange /\ a + 1 >= 0
            BY Constants DEF SeqNumber
        <3>2. (a + 1) % SeqRange = IF a + 1 < 0 THEN a + 1 + SeqRange
                                   ELSE IF a + 1 < SeqRange THEN a + 1 ELSE a + 1 - SeqRange
            BY <3>1, SeqRangeAssumption DEF SeqNumber
        <3> QED
            BY <3>1, <3>2 DEF SeqAdd
    <2>3. SeqSub(b, SeqAdd(a, 1)) = IF b - SeqAdd(a, 1) < 0 THEN b - SeqAdd(a, 1) + SeqRange
                                    ELSE b - SeqAdd(a, 1)
        <3>1. b - SeqAdd(a, 1) \in Int /\ -SeqRange <= b - SeqAdd(a, 1) /\ b - SeqAdd(a, 1) < SeqRange
            BY <2>2, Constants DEF SeqNumber
        <3> QED
            BY <3>1, ModuloOnce, Constants DEF SeqSub
    <2> QED
        BY <1>1, <2>1, <2>2, <2>3, Constants DEF SeqNumber
<1>2. SeqSub(r, q) < HalfRange <=> Position(q) <= Position(r)
    <2>1. /\ Position(q) = IF q >= InitialSeq THEN q - InitialSeq ELSE q - InitialSeq + SeqRange
          /\ Position(r) = IF r >= InitialSeq THEN r - InitialSeq ELSE r - InitialSeq + SeqRange
        BY PositionValue
    <2>2. SeqSub(r, q) = IF r - q < 0 THEN r - q + SeqRange ELSE r - q
        <3>1. r - q \in Int /\ -SeqRange <= r - q /\ r - q < SeqRange
            BY Constants DEF SeqNumber
        <3> QED
            BY <3>1, ModuloOnce, Constants DEF SeqSub
    <2> QED
        BY <2>1, <2>2, Constants DEF SeqNumber
<1> QED
    BY <1>1, <1>2 DEF xSequenceLessThan, xSequenceGreaterThan, xSequenceLessThanOrEqual

-----------------------------------------------------------------------------
(* Indices of the stream buffer *)

LEMMA DistanceIn ==
    ASSUME NEW t \in Index, NEW h \in Index
    PROVE  /\ Distance(t, h) \in 0 .. LENGTH - 1
           /\ Space(h, t) = LENGTH - 1 - Distance(t, h)
           /\ Distance(t, t) = 0
           /\ h = Wrap(t + Distance(t, h))
BY LengthAssumption DEF Index, Wrap, Distance, Space

LEMMA DistanceGrows ==
    ASSUME NEW t \in Index, NEW h \in Index, NEW n \in Nat, Distance(t, h) + n <= LENGTH - 1
    PROVE  /\ Wrap(h + n) \in Index
           /\ Distance(t, Wrap(h + n)) = Distance(t, h) + n
           /\ Wrap(h + n) = Wrap(t + (Distance(t, h) + n))
BY LengthAssumption DEF Index, Wrap, Distance

LEMMA DistanceShrinks ==
    ASSUME NEW t \in Index, NEW h \in Index, NEW n \in Nat, n <= Distance(t, h)
    PROVE  /\ Wrap(t + n) \in Index
           /\ Distance(Wrap(t + n), h) = Distance(t, h) - n
BY LengthAssumption DEF Index, Wrap, Distance

LEMMA WrapTwice ==
    ASSUME NEW t \in Index, NEW n \in Nat, NEW e \in Nat, n + e < LENGTH
    PROVE  /\ Wrap(Wrap(t + n) + e) = Wrap(t + (n + e))
           /\ Wrap(t + (n + e)) \in Index
BY LengthAssumption DEF Index, Wrap

\* The place k slots on from the tail is k slots away from it.
LEMMA DistanceOnward ==
    ASSUME NEW t \in Index, NEW k \in 0 .. LENGTH - 1
    PROVE  Wrap(t + k) \in Index /\ Distance(t, Wrap(t + k)) = k
BY LengthAssumption DEF Index, Wrap, Distance

\* How far the head is from the middle.
LEMMA DistanceRest ==
    ASSUME NEW t \in Index, NEW m \in Index, NEW h \in Index, Distance(t, m) <= Distance(t, h)
    PROVE  Distance(m, h) = Distance(t, h) - Distance(t, m)
BY LengthAssumption DEF Index, Wrap, Distance

-----------------------------------------------------------------------------
(* Induction over a set of numbers *)

LEMMA Smallest ==
    ASSUME NEW n \in Nat, NEW K \in SUBSET (0 .. n), K # {}
    PROVE  \E m \in K : \A j \in K : m <= j
<1> DEFINE upTo(m) == {j \in K : j <= m}
<1> DEFINE R == StrictSubsetOrdering(K)
<1> DEFINE T == {upTo(m) : m \in K}
<1>1. IsFiniteSet(K) /\ \A j \in K : j \in Int
    <2>1. IsFiniteSet(0 .. n)
        BY FS_Interval
    <2>2. IsFiniteSet(K)
        BY <2>1, FS_Subset
    <2> QED
        BY <2>2
<1>2. IsWellFoundedOn(R, FiniteSubsetsOf(K))
    BY FS_StrictSubsetOrderingWellFounded
<1>3. T \subseteq FiniteSubsetsOf(K) /\ T # {}
    <2>1. \A m \in K : upTo(m) \in SUBSET K /\ IsFiniteSet(upTo(m))
        BY <1>1, FS_Subset
    <2> QED
        BY <2>1 DEF FiniteSubsetsOf
<1>4. PICK x \in T : \A y \in T : ~ (<< y, x >> \in R)
    <2> HIDE DEF R, T
    <2> QED
        BY <1>2, <1>3, WFMin
<1>5. PICK m \in K : x = upTo(m)
    BY <1>4
<1>6. ASSUME NEW j \in K, j < m
      PROVE  FALSE
    <2>1. upTo(j) \subseteq upTo(m)
        <3>1. \A i \in K : i <= j => i <= m
            BY <1>1, <1>6
        <3> QED
            BY <3>1
    <2>2. m \in upTo(m) /\ m \notin upTo(j)
        BY <1>1, <1>6
    <2>3. << upTo(j), upTo(m) >> \in R
        BY <2>1, <2>2 DEF StrictSubsetOrdering
    <2> QED
        BY <2>3, <1>4, <1>5
<1> QED
    <2>1. \A j \in K : m <= j
        BY <1>1, <1>6
    <2> QED
        BY <2>1

LEMMA Greatest ==
    ASSUME NEW n \in Nat, NEW K \in SUBSET (0 .. n), K # {}
    PROVE  \E m \in K : \A j \in K : j <= m
<1> DEFINE mirror == {n - j : j \in K}
<1>1. mirror \in SUBSET (0 .. n) /\ mirror # {}
    <2>1. \A j \in K : j \in 0 .. n /\ n - j \in 0 .. n
        OBVIOUS
    <2> QED
        BY <2>1
<1>2. PICK l \in mirror : \A i \in mirror : l <= i
    <2> HIDE DEF mirror
    <2> QED
        BY <1>1, Smallest
<1>3. PICK m \in K : l = n - m
    BY <1>2
<1>4. \A j \in K : n - m <= n - j
    BY <1>2, <1>3
<1>5. \A j \in K : j <= m
    <2>1. \A j \in K : j \in Int
        OBVIOUS
    <2> QED
        BY <1>4, <2>1
<1> QED
    BY <1>5

\* What holds at first, and after each turn if it held before, holds after all.
LEMMA Induction ==
    ASSUME NEW n \in Nat, NEW good, 0 \in good, \A i \in 1 .. n : i - 1 \in good => i \in good
    PROVE  \A i \in 0 .. n : i \in good
<1> DEFINE bad == (0 .. n) \ good
<1> SUFFICES ASSUME bad # {} PROVE FALSE
    OBVIOUS
<1>1. bad \in SUBSET (0 .. n)
    OBVIOUS
<1>2. PICK m \in bad : \A j \in bad : m <= j
    <2> HIDE DEF bad
    <2> QED
        BY <1>1, Smallest
<1>3. m \in 1 .. n /\ m \notin good /\ m - 1 \in 0 .. n
    BY <1>2
<1>4. m - 1 \notin bad
    BY <1>2, <1>3
<1> QED
    BY <1>3, <1>4

-----------------------------------------------------------------------------
(* The loops of the code.  A recursive function is one that satisfies its  *)
(* definition if there is any such function; for a loop there is.          *)

\* A turn of each of them.
Turn(loop, data, x, i) ==
    CASE loop = "add" -> AddSegment(x)
      [] loop = "send" -> SendOnce(x)
      [] loop = "check" -> CheckAckOf(x, data[i])
      [] loop = "fast" -> CountDupAck(x, data[1][i], data[2])

Runs(loop, data, base, n, g) ==
    g = [i \in 0 .. n |-> IF i = 0 THEN base ELSE Turn(loop, data, g[i - 1], i)]

LEMMA RunSteps ==
    ASSUME NEW loop, NEW data, NEW base, NEW n \in Nat, NEW g, Runs(loop, data, base, n, g)
    PROVE  /\ g[0] = base
           /\ \A i \in 1 .. n : g[i] = Turn(loop, data, g[i - 1], i)
<1> DEFINE f == [i \in 0 .. n |-> IF i = 0 THEN base ELSE Turn(loop, data, g[i - 1], i)]
<1>1. g = f
    BY Zenon DEF Runs
<1>2. f[0] = base /\ \A i \in 1 .. n : f[i] = Turn(loop, data, g[i - 1], i)
    OBVIOUS
<1> HIDE DEF f
<1> QED
    BY <1>1, <1>2, Zenon

LEMMA RunExists ==
    ASSUME NEW loop, NEW data, NEW base, NEW n \in Nat
    PROVE  \E g : Runs(loop, data, base, n, g)
<1> DEFINE good == {k \in 0 .. n : \E g : Runs(loop, data, base, k, g)}
<1>1. 0 \in good
    <2> DEFINE g == [i \in 0 .. 0 |-> base]
    <2>1. g = [i \in 0 .. 0 |-> IF i = 0 THEN base ELSE Turn(loop, data, g[i - 1], i)]
        OBVIOUS
    <2>2. Runs(loop, data, base, 0, g)
        BY <2>1, Zenon DEF Runs
    <2> QED
        BY <2>2
<1>2. ASSUME NEW m \in 1 .. n, m - 1 \in good
      PROVE  m \in good
    <2>1. PICK g : Runs(loop, data, base, m - 1, g)
        BY <1>2
    <2>2. m - 1 \in Nat
        OBVIOUS
    <2>3. /\ g[0] = base
          /\ \A i \in 1 .. m - 1 : g[i] = Turn(loop, data, g[i - 1], i)
        BY <2>1, <2>2, RunSteps
    <2> DEFINE h == [i \in 0 .. m |-> IF i = m THEN Turn(loop, data, g[m - 1], m) ELSE g[i]]
    <2>4. ASSUME NEW i \in 0 .. m
          PROVE  h[i] = IF i = 0 THEN base ELSE Turn(loop, data, h[i - 1], i)
        <3>1. CASE i = 0
            BY <3>1, <2>3
        <3>2. CASE i # 0
            <4>1. i \in 1 .. m /\ i - 1 \in 0 .. m /\ i - 1 # m
                BY <3>2
            <4>2. h[i - 1] = g[i - 1]
                BY <4>1
            <4>3. h[i] = Turn(loop, data, g[i - 1], i)
                BY <4>1, <2>3
            <4> HIDE DEF h
            <4> QED
                BY <4>2, <4>3, <3>2
        <3> QED
            BY <3>1, <3>2
    <2>5. h = [i \in 0 .. m |-> h[i]]
        OBVIOUS
    <2> HIDE DEF h
    <2>6. h = [i \in 0 .. m |-> IF i = 0 THEN base ELSE Turn(loop, data, h[i - 1], i)]
        BY <2>4, <2>5
    <2>7. Runs(loop, data, base, m, h)
        BY <2>6, Zenon DEF Runs
    <2> QED
        BY <2>7
<1>3. \A i \in 0 .. n : i \in good
    <2> HIDE DEF good
    <2> QED
        BY <1>1, <1>2, Induction
<1>4. n \in good
    BY <1>3
<1> QED
    BY <1>4

-----------------------------------------------------------------------------
(* Queues *)

\* What is left of a sequence without its entry i.
LEMMA WithoutEntry ==
    ASSUME NEW S, NEW s \in Seq(S), NEW i \in 1 .. Len(s)
    PROVE  /\ RemoveAt(s, i) \in Seq(S) /\ Len(RemoveAt(s, i)) = Len(s) - 1
           /\ \A j \in 1 .. Len(s) - 1 : RemoveAt(s, i)[j] = IF j < i THEN s[j] ELSE s[j + 1]
<1> DEFINE low == SubSeq(s, 1, i - 1)
<1> DEFINE high == SubSeq(s, i + 1, Len(s))
<1>1. Len(s) \in Nat /\ i \in Int /\ i - 1 \in Int /\ i + 1 \in Int /\ \A j \in 1 .. Len(s) : s[j] \in S
    BY LenProperties, ElementOfSeq
<1>2. /\ low \in Seq(S) /\ Len(low) = i - 1
      /\ \A j \in 1 .. i - 1 : low[j] = s[j]
    <2>1. \A j \in 1 .. i - 1 : s[j] \in S
        BY <1>1
    <2>2. /\ low \in Seq(S) /\ Len(low) = IF 1 <= i - 1 THEN i - 1 - 1 + 1 ELSE 0
          /\ \A j \in 1 .. i - 1 - 1 + 1 : low[j] = s[1 + j - 1]
        BY <1>1, <2>1, SubSeqProperties
    <2> QED
        BY <1>1, <2>2
<1>3. /\ high \in Seq(S) /\ Len(high) = Len(s) - i
      /\ \A j \in 1 .. Len(s) - i : high[j] = s[i + j]
    <2>1. \A j \in i + 1 .. Len(s) : s[j] \in S
        BY <1>1
    <2>2. /\ high \in Seq(S) /\ Len(high) = IF i + 1 <= Len(s) THEN Len(s) - (i + 1) + 1 ELSE 0
          /\ \A j \in 1 .. Len(s) - (i + 1) + 1 : high[j] = s[(i + 1) + j - 1]
        BY <1>1, <2>1, SubSeqProperties
    <2>3. \A j \in 1 .. Len(s) - i : j \in 1 .. Len(s) - (i + 1) + 1 /\ (i + 1) + j - 1 = i + j
        BY <1>1
    <2> QED
        BY <1>1, <2>2, <2>3
<1> HIDE DEF low, high
<1>4. /\ low \o high \in Seq(S)
      /\ Len(low \o high) = Len(low) + Len(high)
      /\ \A j \in 1 .. Len(low) + Len(high) : (low \o high)[j] =
            IF j <= Len(low) THEN low[j] ELSE high[j - Len(low)]
    BY <1>2, <1>3, ConcatProperties
<1>5. RemoveAt(s, i) = low \o high
    BY DEF RemoveAt, low, high
<1>6. ASSUME NEW j \in 1 .. Len(s) - 1
      PROVE  (low \o high)[j] = IF j < i THEN s[j] ELSE s[j + 1]
    <2>1. j \in 1 .. Len(low) + Len(high)
        BY <1>1, <1>2, <1>3
    <2>2. CASE j < i
        <3>1. j \in 1 .. i - 1 /\ j <= Len(low)
            BY <2>2, <1>1, <1>2
        <3> QED
            BY <3>1, <2>1, <2>2, <1>2, <1>4
    <2>3. CASE ~(j < i)
        <3>1. j - (i - 1) \in 1 .. Len(s) - i /\ i + (j - (i - 1)) = j + 1 /\ ~(j <= i - 1)
            BY <2>3, <1>1
        <3>2. (low \o high)[j] = high[j - (i - 1)]
            BY <3>1, <2>1, <1>2, <1>4
        <3> QED
            BY <3>1, <3>2, <2>3, <1>3
    <2> QED
        BY <2>2, <2>3
<1>7. Len(low) + Len(high) = Len(s) - 1
    BY <1>1, <1>2, <1>3
<1> QED
    <2>1. low \o high \in Seq(S) /\ Len(low \o high) = Len(s) - 1
        BY <1>4, <1>7, Zenon
    <2>2. \A j \in 1 .. Len(s) - 1 : (low \o high)[j] = IF j < i THEN s[j] ELSE s[j + 1]
        BY <1>6
    <2> QED
        BY <2>1, <2>2, <1>5, Zenon

\* The first entry that is x is found.
LEMMA FirstFound ==
    ASSUME NEW S, NEW s \in Seq(S), NEW x, x \in ToSet(s)
    PROVE  \E i \in 1 .. Len(s) : s[i] = x /\ RemoveFirst(s, x) = RemoveAt(s, i)
<1> DEFINE found == {i \in 1 .. Len(s) : s[i] = x}
<1>1. Len(s) \in Nat /\ DOMAIN s = 1 .. Len(s)
    BY LenProperties
<1>2. \E i \in 1 .. Len(s) : s[i] = x
    BY <1>1 DEF ToSet
<1>3. found \in SUBSET (0 .. Len(s)) /\ found # {}
    BY <1>1, <1>2
<1>4. \E m \in found : \A j \in found : m <= j
    <2> HIDE DEF found
    <2> QED
        BY <1>1, <1>3, Smallest
<1>5. Min(found) \in found
    <2> HIDE DEF found
    <2> QED
        BY <1>4 DEF Min
<1>6. SelectInSeq(s, LAMBDA v : v = x) = Min(found)
    BY <1>3 DEF SelectInSeq
<1>7. RemoveFirst(s, x) = RemoveAt(s, Min(found))
    BY <1>2, <1>6 DEF RemoveFirst
<1> QED
    BY <1>5, <1>7

\* A queue without one of its entries, or without what it has not got.
LEMMA Removed ==
    ASSUME NEW S, NEW s \in Seq(S), NEW x, Distinct(s)
    PROVE  /\ RemoveFirst(s, x) \in Seq(S)
           /\ Distinct(RemoveFirst(s, x))
           /\ ToSet(RemoveFirst(s, x)) = ToSet(s) \ {x}
           /\ x \notin ToSet(s) => RemoveFirst(s, x) = s
           /\ s # << >> /\ x = Head(s) => RemoveFirst(s, x) = Tail(s)
<1>0. Len(s) \in Nat /\ DOMAIN s = 1 .. Len(s)
    BY LenProperties
<1>1. CASE x \notin ToSet(s)
    <2>1. ~ \E i \in 1 .. Len(s) : s[i] = x
        BY <1>0, <1>1 DEF ToSet
    <2>2. RemoveFirst(s, x) = s
        BY <2>1 DEF RemoveFirst
    <2>3. s # << >> => Head(s) = s[1] /\ 1 \in 1 .. Len(s)
        BY <1>0
    <2> QED
        BY <1>1, <2>1, <2>2, <2>3
<1>2. CASE x \in ToSet(s)
    <2>1. PICK i \in 1 .. Len(s) : s[i] = x /\ RemoveFirst(s, x) = RemoveAt(s, i)
        BY <1>2, FirstFound
    <2> DEFINE r == RemoveFirst(s, x)
    <2>2. /\ r \in Seq(S) /\ Len(r) = Len(s) - 1
          /\ \A j \in 1 .. Len(s) - 1 : r[j] = IF j < i THEN s[j] ELSE s[j + 1]
        BY <2>1, WithoutEntry
    <2> HIDE DEF r
    <2>3. DOMAIN r = 1 .. Len(s) - 1
        BY <2>2, LenProperties
    <2>4. ASSUME NEW j \in 1 .. Len(s) - 1, NEW k \in 1 .. Len(s) - 1, r[j] = r[k]
          PROVE  j = k
        <3> DEFINE at(l) == IF l < i THEN l ELSE l + 1
        <3>1. at(j) \in 1 .. Len(s) /\ at(k) \in 1 .. Len(s) /\ (at(j) = at(k) => j = k)
            BY <1>0
        <3>2. r[j] = s[at(j)] /\ r[k] = s[at(k)]
            BY <2>2
        <3> HIDE DEF at
        <3> QED
            BY <2>4, <3>1, <3>2 DEF Distinct
    <2>5. Distinct(r)
        BY <2>2, <2>4 DEF Distinct
    <2>6. ToSet(r) = ToSet(s) \ {x}
        <3>1. ASSUME NEW j \in 1 .. Len(s) - 1
              PROVE  r[j] \in ToSet(s) \ {x}
            <4> DEFINE at == IF j < i THEN j ELSE j + 1
            <4>1. at \in 1 .. Len(s) /\ at # i
                BY <1>0
            <4>2. r[j] = s[at]
                BY <2>2
            <4> HIDE DEF at
            <4>3. s[at] # x
                BY <4>1, <2>1 DEF Distinct
            <4> QED
                BY <1>0, <4>1, <4>2, <4>3 DEF ToSet
        <3>2. ASSUME NEW y \in ToSet(s), y # x
              PROVE  \E j \in 1 .. Len(s) - 1 : r[j] = y
            <4>1. PICK k \in 1 .. Len(s) : s[k] = y
                BY <1>0 DEF ToSet
            <4>2. k # i
                BY <4>1, <3>2, <2>1
            <4>3. CASE k < i
                <5>1. k \in 1 .. Len(s) - 1
                    BY <1>0, <4>3
                <5> QED
                    BY <5>1, <4>1, <4>3, <2>2
            <4>4. CASE k > i
                <5>1. k - 1 \in 1 .. Len(s) - 1 /\ ~(k - 1 < i) /\ k - 1 + 1 = k
                    BY <1>0, <4>4
                <5>2. r[k - 1] = s[k - 1 + 1]
                    BY <5>1, <2>2
                <5> QED
                    BY <5>1, <5>2, <4>1
            <4> QED
                BY <4>2, <4>3, <4>4
        <3> QED
            BY <2>3, <3>1, <3>2 DEF ToSet
    <2>7. ASSUME s # << >>, x = Head(s)
          PROVE  r = Tail(s)
        <3>1. x = s[1] /\ 1 \in 1 .. Len(s)
            BY <1>0, <2>7
        <3>2. i = 1
            BY <3>1, <2>1 DEF Distinct
        <3>3. /\ Tail(s) \in Seq(S) /\ Len(Tail(s)) = Len(s) - 1
              /\ \A j \in 1 .. Len(Tail(s)) : Tail(s)[j] = s[j + 1]
            BY <2>7, HeadTailProperties
        <3>4. \A j \in 1 .. Len(r) : r[j] = Tail(s)[j]
            BY <2>2, <3>2, <3>3
        <3> QED
            BY <2>2, <3>3, <3>4, SeqEqual
    <2> QED
        BY <1>2, <2>2, <2>5, <2>6, <2>7 DEF r
<1> QED
    BY <1>1, <1>2

\* A queue with one more entry.
LEMMA Queued1 ==
    ASSUME NEW S, NEW s \in Seq(S), NEW x \in S, Distinct(s), x \notin ToSet(s)
    PROVE  /\ Append(s, x) \in Seq(S)
           /\ Distinct(Append(s, x))
           /\ ToSet(Append(s, x)) = ToSet(s) \cup {x}
<1>1. /\ Append(s, x) \in Seq(S) /\ Len(Append(s, x)) = Len(s) + 1
      /\ \A i \in 1 .. Len(s) : Append(s, x)[i] = s[i]
      /\ Append(s, x)[Len(s) + 1] = x
    BY AppendProperties
<1>2. /\ Len(s) \in Nat /\ DOMAIN s = 1 .. Len(s)
      /\ DOMAIN Append(s, x) = 1 .. Len(s) + 1
    BY <1>1, LenProperties
<1>3. \A i \in 1 .. Len(s) : s[i] # x
    BY <1>2 DEF ToSet
<1>4. Distinct(Append(s, x))
    <2> SUFFICES ASSUME NEW i \in 1 .. Len(s) + 1, NEW j \in 1 .. Len(s) + 1,
                        Append(s, x)[i] = Append(s, x)[j]
                 PROVE  i = j
        BY <1>1 DEF Distinct
    <2>1. i \in 1 .. Len(s) \/ i = Len(s) + 1
        BY <1>2
    <2>2. j \in 1 .. Len(s) \/ j = Len(s) + 1
        BY <1>2
    <2> QED
        BY <1>1, <1>3, <2>1, <2>2 DEF Distinct
<1>5. ToSet(Append(s, x)) = ToSet(s) \cup {x}
    <2>1. 1 .. Len(s) + 1 = (1 .. Len(s)) \cup {Len(s) + 1}
        BY <1>2
    <2>2. {Append(s, x)[i] : i \in 1 .. Len(s) + 1} = {s[i] : i \in 1 .. Len(s)} \cup {x}
        BY <1>1, <2>1
    <2> QED
        BY <2>2, <1>2 DEF ToSet
<1> QED
    BY <1>1, <1>4, <1>5

-----------------------------------------------------------------------------
(* Segments *)

LEMMA SegmentParts ==
    ASSUME NEW s \in SegmentType
    PROVE  /\ s.ulSequenceNumber \in SeqNumber /\ Start(s) \in Nat
           /\ s.lDataLength \in Nat /\ s.lDataLength > 0 /\ s.lDataLength <= MSS
           /\ Upto(s) \in Nat /\ Upto(s) = Start(s) + s.lDataLength /\ Start(s) < Upto(s)
           /\ s.lStreamPos \in Index
           /\ s.bOutstanding \in BOOLEAN /\ s.bAcked \in BOOLEAN
           /\ s.ucTransmitCount \in Nat /\ s.ucTransmitCount <= MaxTransmitCount
           /\ s.ucDupAckCount \in Nat /\ s.ucDupAckCount <= DuplicateAcks + 1
<1>1. /\ s.ulSequenceNumber \in SeqNumber /\ s.lDataLength \in 1 .. MSS /\ s.lStreamPos \in Index
      /\ s.bOutstanding \in BOOLEAN /\ s.bAcked \in BOOLEAN
      /\ s.ucTransmitCount \in 0 .. MaxTransmitCount /\ s.ucDupAckCount \in 0 .. DuplicateAcks + 1
    BY DEF SegmentType
<1>2. s.lDataLength \in Nat /\ s.lDataLength > 0 /\ s.lDataLength <= MSS
    BY <1>1, Constants
<1>3. Start(s) \in Nat
    BY <1>1, PositionValue, Constants DEF Start, SeqNumber
<1>4. /\ s.ucTransmitCount \in Nat /\ s.ucTransmitCount <= MaxTransmitCount
      /\ s.ucDupAckCount \in Nat /\ s.ucDupAckCount <= DuplicateAcks + 1
    BY <1>1, TxAssumption
<1> QED
    BY <1>1, <1>2, <1>3, <1>4 DEF Upto

\* The number behind a segment.
LEMMA EndOf ==
    ASSUME NEW s \in SegmentType, Upto(s) <= MaxBytes
    PROVE  End(s) \in SeqNumber /\ Position(End(s)) = Upto(s)
<1>1. PICK q \in SeqNumber, l \in Nat : q = s.ulSequenceNumber /\ l = s.lDataLength
    BY SegmentParts
<1>2. Upto(s) = Position(q) + l /\ End(s) = SeqAdd(q, l)
    BY <1>1 DEF Upto, Start, End
<1>3. Position(q) + l <= MaxBytes
    BY <1>2
<1> QED
    BY <1>2, <1>3, PositionAdd

LEMMA SegmentEntry ==
    ASSUME NEW segs \in Seq(SegmentType), NEW i \in 1 .. Len(segs)
    PROVE  /\ segs[i] \in SegmentType
           /\ segs[i].ulSequenceNumber \in SeqNumber /\ Start(segs[i]) \in Nat
           /\ segs[i].lDataLength \in Nat /\ segs[i].lDataLength > 0 /\ segs[i].lDataLength <= MSS
           /\ Upto(segs[i]) \in Nat /\ Upto(segs[i]) = Start(segs[i]) + segs[i].lDataLength
           /\ Start(segs[i]) < Upto(segs[i])
           /\ segs[i].lStreamPos \in Index
           /\ segs[i].bOutstanding \in BOOLEAN /\ segs[i].bAcked \in BOOLEAN
<1>1. segs[i] \in SegmentType
    BY ElementOfSeq
<1> QED
    BY <1>1, SegmentParts

\* No two segments have the same number.
LEMMA Apart ==
    ASSUME NEW segs \in Seq(SegmentType), NEW a, NEW n, Tiled(segs, a, n),
           NEW i \in 1 .. Len(segs), NEW j \in 1 .. Len(segs)
    PROVE  /\ i < j => Start(segs[i]) < Start(segs[j])
           /\ Start(segs[i]) = Start(segs[j]) => i = j
           /\ segs[i].ulSequenceNumber = segs[j].ulSequenceNumber => i = j
<1>0. Len(segs) \in Nat
    BY LenProperties
<1>1. ASSUME NEW k \in 1 .. Len(segs), NEW l \in 1 .. Len(segs), k < l
      PROVE  Start(segs[k]) < Start(segs[l])
    <2>1. Upto(segs[k]) <= Start(segs[l])
        BY <1>1 DEF Tiled
    <2>2. Start(segs[k]) \in Nat /\ Start(segs[l]) \in Nat /\ Upto(segs[k]) \in Nat /\ Start(segs[k]) < Upto(segs[k])
        BY SegmentEntry
    <2> QED
        BY <2>1, <2>2
<1>2. Start(segs[i]) \in Nat /\ Start(segs[j]) \in Nat
    BY SegmentEntry
<1>3. Start(segs[i]) = Start(segs[j]) => i = j
    <2>1. i < j => Start(segs[i]) < Start(segs[j])
        BY <1>1
    <2>2. j < i => Start(segs[j]) < Start(segs[i])
        BY <1>1
    <2> QED
        BY <1>0, <1>2, <2>1, <2>2
<1> QED
    BY <1>1, <1>3 DEF Start

\* A change that leaves each segment where it was.
SameLayout(segs, new) ==
    /\ Len(new) = Len(segs)
    /\ \A i \in 1 .. Len(segs) :
          /\ new[i].ulSequenceNumber = segs[i].ulSequenceNumber
          /\ new[i].lDataLength = segs[i].lDataLength
          /\ new[i].lStreamPos = segs[i].lStreamPos

LEMMA LayoutKept ==
    ASSUME NEW segs \in Seq(SegmentType), NEW new \in Seq(SegmentType), SameLayout(segs, new), NEW a, NEW n
    PROVE  /\ Tiled(segs, a, n) => Tiled(new, a, n)
           /\ \A tail : Placed(segs, tail, a) => Placed(new, tail, a)
           /\ \A head : head # NoSegment /\ HeadFits(segs, head) /\ ~new[Len(new)].bOutstanding => HeadFits(new, head)
           /\ \A i \in 1 .. Len(segs) : Start(new[i]) = Start(segs[i]) /\ Upto(new[i]) = Upto(segs[i])
<1>0. Len(segs) \in Nat /\ Len(new) = Len(segs)
    BY LenProperties DEF SameLayout
<1>1. \A i \in 1 .. Len(segs) : Start(new[i]) = Start(segs[i]) /\ Upto(new[i]) = Upto(segs[i])
    BY DEF SameLayout, Start, Upto
<1>2. Tiled(segs, a, n) => Tiled(new, a, n)
    <2>1. Len(segs) # 0 => 1 \in 1 .. Len(segs) /\ Len(segs) \in 1 .. Len(segs)
        BY <1>0
    <2> HIDE DEF Start, Upto
    <2> QED
        BY <1>0, <1>1, <2>1 DEF Tiled
<1>3. \A tail : Placed(segs, tail, a) => Placed(new, tail, a)
    BY <1>0, <1>1 DEF Placed, SameLayout
<1>4. \A head : head # NoSegment /\ HeadFits(segs, head) /\ ~new[Len(new)].bOutstanding => HeadFits(new, head)
    <2>1. Len(segs) # 0 => Len(segs) \in 1 .. Len(segs)
        BY <1>0
    <2> QED
        BY <1>0, <2>1 DEF HeadFits, SameLayout
<1> QED
    BY <1>1, <1>2, <1>3, <1>4

-----------------------------------------------------------------------------
(* Windows *)

LEMMA WindowFields ==
    ASSUME NEW w \in WindowType
    PROVE  /\ w.ulCurrentSequenceNumber \in SeqNumber /\ Cur(w) \in Nat
           /\ w.ulHighestSequenceNumber \in SeqNumber /\ High(w) \in Nat
           /\ w.ulNextTxSequenceNumber \in SeqNumber /\ Nxt(w) \in Nat
           /\ w.xTxSegments \in Seq(SegmentType) /\ Len(w.xTxSegments) \in Nat
           /\ DOMAIN w.xTxSegments = 1 .. Len(w.xTxSegments)
           /\ w.xPriorityQueue \in Seq(SeqNumber) /\ w.xWaitQueue \in Seq(SeqNumber)
           /\ w.xTxQueue \in Seq(SeqNumber) /\ Len(w.xTxQueue) \in Nat
           /\ w.pxHeadSegment \in SeqNumber \cup {NoSegment}
           /\ w.ulTxWindowLength \in Nat /\ w.bSendFullSize \in BOOLEAN
<1>1. /\ w.ulCurrentSequenceNumber \in SeqNumber /\ w.ulHighestSequenceNumber \in SeqNumber
      /\ w.ulNextTxSequenceNumber \in SeqNumber /\ w.xTxSegments \in Seq(SegmentType)
      /\ w.xPriorityQueue \in Seq(SeqNumber) /\ w.xWaitQueue \in Seq(SeqNumber)
      /\ w.xTxQueue \in Seq(SeqNumber) /\ w.pxHeadSegment \in SeqNumber \cup {NoSegment}
      /\ w.ulTxWindowLength \in Nat /\ w.bSendFullSize \in BOOLEAN
    BY DEF WindowType
<1>2. Cur(w) \in SeqNumber /\ High(w) \in SeqNumber /\ Nxt(w) \in SeqNumber
    BY <1>1, PositionValue DEF Cur, High, Nxt
<1>3. \A x \in SeqNumber : x \in Nat
    BY Constants DEF SeqNumber
<1>4. /\ Len(w.xTxSegments) \in Nat /\ DOMAIN w.xTxSegments = 1 .. Len(w.xTxSegments)
      /\ Len(w.xTxQueue) \in Nat
    BY <1>1, LenProperties
<1> QED
    BY <1>1, <1>2, <1>3, <1>4

\* A segment is found by its number.
LEMMA SegmentFound ==
    ASSUME NEW w, WindowOK(w), NEW i \in 1 .. Len(w.xTxSegments)
    PROVE  Segment(w, w.xTxSegments[i].ulSequenceNumber) = w.xTxSegments[i]
<1> DEFINE segs == w.xTxSegments
<1>1. segs \in Seq(SegmentType) /\ Tiled(segs, Cur(w), Nxt(w)) /\ DOMAIN segs = 1 .. Len(segs)
    BY WindowFields DEF WindowOK
<1>2. \A s \in ToSet(segs) : s.ulSequenceNumber = segs[i].ulSequenceNumber => s = segs[i]
    <2>1. ASSUME NEW j \in 1 .. Len(segs), segs[j].ulSequenceNumber = segs[i].ulSequenceNumber
          PROVE  j = i
        <3>1. i \in 1 .. Len(segs)
            OBVIOUS
        <3> HIDE DEF segs
        <3> QED
            BY <3>1, <2>1, <1>1, Apart
    <2> QED
        BY <1>1, <2>1 DEF ToSet
<1>3. segs[i] \in ToSet(segs)
    BY <1>1 DEF ToSet
<1> QED
    BY <1>2, <1>3 DEF Segment

\* A segment was sent if it lies below the highest number sent.
LEMMA SentBelowHighest ==
    ASSUME NEW segs \in Seq(SegmentType), NEW queue \in Seq(SeqNumber), NEW a \in Nat, NEW h \in Nat, NEW n \in Nat,
           Tiled(segs, a, n), Unsent(segs, queue, h, n), NEW i \in 1 .. Len(segs)
    PROVE  /\ segs[i].bOutstanding => Upto(segs[i]) <= h
           /\ ~segs[i].bOutstanding => h <= Start(segs[i])
           /\ a <= Start(segs[i]) /\ Upto(segs[i]) <= n
<1>1. Len(segs) \in Nat /\ Len(queue) \in Nat /\ Len(queue) <= Len(segs)
    BY LenProperties DEF Unsent
<1>2. Start(segs[i]) \in Nat /\ Upto(segs[i]) \in Nat /\ Start(segs[i]) < Upto(segs[i])
    BY SegmentEntry
<1>3. a <= Start(segs[i]) /\ Upto(segs[i]) <= n
    BY DEF Tiled
<1>4. PICK first \in Nat : first = Len(segs) - Len(queue) + 1
    BY <1>1
<1>5. segs[i].bOutstanding <=> i < first
    BY <1>1, <1>4 DEF Unsent
<1>6. CASE Len(queue) = 0
    <2>1. h = n /\ i < first
        BY <1>1, <1>4, <1>6 DEF Unsent
    <2> QED
        BY <2>1, <1>3, <1>5
<1>7. CASE Len(queue) # 0
    <2>1. first \in 1 .. Len(segs) /\ Start(segs[first]) = h
        BY <1>1, <1>4, <1>7 DEF Unsent
    <2>2. i < first => Upto(segs[i]) <= Start(segs[first])
        BY <2>1 DEF Tiled
    <2>3. first < i => Start(segs[first]) < Start(segs[i])
        BY <2>1, Apart
    <2>4. i < first \/ i = first \/ first < i
        BY <2>1
    <2> HIDE DEF Start, Upto
    <2> QED
        BY <1>2, <1>3, <1>5, <2>1, <2>2, <2>3, <2>4
<1> QED
    BY <1>6, <1>7

LEMMA SentBelow ==
    ASSUME NEW w, WindowOK(w), NEW i \in 1 .. Len(w.xTxSegments)
    PROVE  /\ w.xTxSegments[i].bOutstanding => Upto(w.xTxSegments[i]) <= High(w)
           /\ ~w.xTxSegments[i].bOutstanding => High(w) <= Start(w.xTxSegments[i])
           /\ Cur(w) <= Start(w.xTxSegments[i]) /\ Upto(w.xTxSegments[i]) <= Nxt(w)
BY SentBelowHighest, WindowFields DEF WindowOK

\* What the transmit queue has, and what the other two have.
LEMMA TxQueueEntry ==
    ASSUME NEW w, WindowOK(w)
    PROVE  /\ Distinct(w.xTxQueue)
           /\ \A x \in ToSet(w.xTxQueue) : \E i \in 1 .. Len(w.xTxSegments) :
                 x = w.xTxSegments[i].ulSequenceNumber /\ ~w.xTxSegments[i].bOutstanding
           /\ \A i \in 1 .. Len(w.xTxSegments) : w.xTxSegments[i].bOutstanding =>
                 w.xTxSegments[i].ulSequenceNumber \notin ToSet(w.xTxQueue)
<1> DEFINE segs == w.xTxSegments
<1> DEFINE queue == w.xTxQueue
<1>1. /\ segs \in Seq(SegmentType) /\ Len(segs) \in Nat /\ queue \in Seq(SeqNumber) /\ Len(queue) \in Nat
      /\ DOMAIN queue = 1 .. Len(queue)
      /\ Tiled(segs, Cur(w), Nxt(w)) /\ Unsent(segs, queue, High(w), Nxt(w))
    BY WindowFields, LenProperties DEF WindowOK
<1> HIDE DEF segs, queue
<1>b. Len(queue) <= Len(segs)
    BY <1>1 DEF Unsent
<1>a. PICK sent \in Nat : sent = Len(segs) - Len(queue)
    BY <1>1, <1>b
<1>2. ASSUME NEW j \in 1 .. Len(queue)
      PROVE  /\ sent + j \in 1 .. Len(segs) /\ queue[j] = segs[sent + j].ulSequenceNumber
             /\ ~segs[sent + j].bOutstanding
    <2>1. sent + j \in 1 .. Len(segs) /\ ~(sent + j <= sent)
        BY <1>1, <1>a
    <2>2. segs[sent + j].bOutstanding <=> sent + j <= sent
        BY <1>1, <1>a, <2>1 DEF Unsent
    <2>3. queue[j] = segs[sent + j].ulSequenceNumber
        BY <1>1, <1>a DEF Unsent
    <2> QED
        BY <2>1, <2>2, <2>3
<1>3. \A i, j \in 1 .. Len(segs) : segs[i].ulSequenceNumber = segs[j].ulSequenceNumber => i = j
    <2> SUFFICES ASSUME NEW i \in 1 .. Len(segs), NEW j \in 1 .. Len(segs)
                 PROVE  segs[i].ulSequenceNumber = segs[j].ulSequenceNumber => i = j
        OBVIOUS
    <2> HIDE DEF segs
    <2> QED
        BY <1>1, Apart
<1>4. Distinct(queue)
    <2> SUFFICES ASSUME NEW i \in 1 .. Len(queue), NEW j \in 1 .. Len(queue), queue[i] = queue[j]
                 PROVE  i = j
        BY DEF Distinct
    <2>1. sent + i = sent + j
        BY <1>2, <1>3
    <2> QED
        BY <2>1, <1>1, <1>a
<1>5. \A x \in ToSet(queue) : \E i \in 1 .. Len(segs) : x = segs[i].ulSequenceNumber /\ ~segs[i].bOutstanding
    BY <1>1, <1>2 DEF ToSet
<1>6. \A i \in 1 .. Len(segs) : segs[i].bOutstanding => segs[i].ulSequenceNumber \notin ToSet(queue)
    BY <1>3, <1>5
<1> QED
    BY <1>4, <1>5, <1>6 DEF segs, queue

LEMMA FlyingEntry ==
    ASSUME NEW w, WindowOK(w)
    PROVE  /\ \A x \in ToSet(w.xPriorityQueue) \cup ToSet(w.xWaitQueue) : \E i \in 1 .. Len(w.xTxSegments) :
                 x = w.xTxSegments[i].ulSequenceNumber /\ w.xTxSegments[i].bOutstanding /\ ~w.xTxSegments[i].bAcked
           /\ \A i \in 1 .. Len(w.xTxSegments) :
                 w.xTxSegments[i].ulSequenceNumber \in ToSet(w.xPriorityQueue) \cup ToSet(w.xWaitQueue)
                    <=> w.xTxSegments[i].bOutstanding /\ ~w.xTxSegments[i].bAcked
           /\ ToSet(w.xPriorityQueue) \cup ToSet(w.xWaitQueue) \subseteq SeqNumber
<1> DEFINE segs == w.xTxSegments
<1>1. /\ segs \in Seq(SegmentType) /\ Tiled(segs, Cur(w), Nxt(w))
      /\ InFlight(segs, w.xPriorityQueue, w.xWaitQueue)
    BY WindowFields DEF WindowOK
<1>2. ToSet(w.xPriorityQueue) \cup ToSet(w.xWaitQueue) = Flying(segs)
    BY <1>1 DEF InFlight
<1>3. \A i, j \in 1 .. Len(segs) : segs[i].ulSequenceNumber = segs[j].ulSequenceNumber => i = j
    <2> SUFFICES ASSUME NEW i \in 1 .. Len(segs), NEW j \in 1 .. Len(segs)
                 PROVE  segs[i].ulSequenceNumber = segs[j].ulSequenceNumber => i = j
        OBVIOUS
    <2> HIDE DEF segs
    <2> QED
        BY <1>1, Apart
<1>4. \A i \in 1 .. Len(segs) : segs[i].ulSequenceNumber \in SeqNumber
    <2> SUFFICES ASSUME NEW i \in 1 .. Len(segs) PROVE segs[i].ulSequenceNumber \in SeqNumber
        OBVIOUS
    <2> HIDE DEF segs
    <2> QED
        BY <1>1, SegmentEntry
<1> HIDE DEF segs
<1>5. \A x \in Flying(segs) : \E i \in 1 .. Len(segs) :
         x = segs[i].ulSequenceNumber /\ segs[i].bOutstanding /\ ~segs[i].bAcked
    BY DEF Flying
<1>6. \A i \in 1 .. Len(segs) : segs[i].bOutstanding /\ ~segs[i].bAcked => segs[i].ulSequenceNumber \in Flying(segs)
    BY DEF Flying
<1>7. \A i \in 1 .. Len(segs) : segs[i].ulSequenceNumber \in Flying(segs) => segs[i].bOutstanding /\ ~segs[i].bAcked
    BY <1>3, <1>5
<1> QED
    BY <1>2, <1>4, <1>5, <1>6, <1>7 DEF segs

-----------------------------------------------------------------------------
(* A segment is sent *)

\* What is sent, or cut into segments, takes nothing back: the window does not
\* move, and nothing but what was acknowledged counts as acknowledged.
Keeps(w, new) ==
    /\ Cur(new) = Cur(w) /\ High(w) <= High(new)
    /\ Len(w.xTxSegments) <= Len(new.xTxSegments)
    /\ \A i \in 1 .. Len(new.xTxSegments) : new.xTxSegments[i].bAcked =>
          /\ i <= Len(w.xTxSegments) /\ w.xTxSegments[i].bAcked
          /\ Start(new.xTxSegments[i]) = Start(w.xTxSegments[i])
          /\ Upto(new.xTxSegments[i]) = Upto(w.xTxSegments[i])

\* One segment gets other flags and counts.
LEMMA OneChanged ==
    ASSUME NEW segs \in Seq(SegmentType), NEW a, NEW n, Tiled(segs, a, n),
           NEW k \in 1 .. Len(segs), NEW new \in Seq(SegmentType), Len(new) = Len(segs),
           new[k].ulSequenceNumber = segs[k].ulSequenceNumber, new[k].lDataLength = segs[k].lDataLength,
           new[k].lStreamPos = segs[k].lStreamPos, \A i \in 1 .. Len(segs) : i # k => new[i] = segs[i]
    PROVE  /\ SameLayout(segs, new)
           /\ new[k].bOutstanding /\ ~new[k].bAcked => Flying(new) = Flying(segs) \cup {segs[k].ulSequenceNumber}
           /\ ~(new[k].bOutstanding /\ ~new[k].bAcked) => Flying(new) = Flying(segs) \ {segs[k].ulSequenceNumber}
<1> DEFINE s == new[k]
<1>1. /\ new \in Seq(SegmentType) /\ Len(new) = Len(segs)
      /\ new[k] = s /\ \A i \in 1 .. Len(segs) : i # k => new[i] = segs[i]
      /\ s.ulSequenceNumber = segs[k].ulSequenceNumber
    OBVIOUS
<1>2. SameLayout(segs, new)
    BY DEF SameLayout
<1> HIDE DEF s
<1>3. \A i \in 1 .. Len(segs) : segs[i].ulSequenceNumber = segs[k].ulSequenceNumber => i = k
    <2> SUFFICES ASSUME NEW i \in 1 .. Len(segs)
                 PROVE  segs[i].ulSequenceNumber = segs[k].ulSequenceNumber => i = k
        OBVIOUS
    <2> QED
        BY Apart
<1>4. ASSUME NEW x
      PROVE  x \in Flying(new) <=> \/ x = s.ulSequenceNumber /\ s.bOutstanding /\ ~s.bAcked
                                   \/ x # s.ulSequenceNumber /\ x \in Flying(segs)
    <2>1. x \in Flying(new) <=> \E i \in 1 .. Len(segs) :
             x = new[i].ulSequenceNumber /\ new[i].bOutstanding /\ ~new[i].bAcked
        BY <1>1 DEF Flying
    <2>2. x \in Flying(segs) <=> \E i \in 1 .. Len(segs) :
             x = segs[i].ulSequenceNumber /\ segs[i].bOutstanding /\ ~segs[i].bAcked
        BY DEF Flying
    <2> QED
        BY <2>1, <2>2, <1>1, <1>3
<1>5. s.bOutstanding /\ ~s.bAcked => Flying(new) = Flying(segs) \cup {s.ulSequenceNumber}
    BY <1>4
<1>6. ~(s.bOutstanding /\ ~s.bAcked) => Flying(new) = Flying(segs) \ {s.ulSequenceNumber}
    BY <1>4
<1> QED
    BY <1>1, <1>2, <1>5, <1>6

\* A function of a segment's number changes that segment.
LEMMA OneMatches ==
    ASSUME NEW segs \in Seq(SegmentType), NEW a, NEW n, Tiled(segs, a, n), NEW k \in 1 .. Len(segs), NEW s
    PROVE  [i \in DOMAIN segs |-> IF segs[i].ulSequenceNumber = segs[k].ulSequenceNumber THEN s ELSE segs[i]]
              = [segs EXCEPT ![k] = s]
<1>1. DOMAIN segs = 1 .. Len(segs) /\ segs = [i \in 1 .. Len(segs) |-> segs[i]]
    BY LenProperties
<1>2. \A i \in 1 .. Len(segs) : segs[i].ulSequenceNumber = segs[k].ulSequenceNumber <=> i = k
    <2> SUFFICES ASSUME NEW i \in 1 .. Len(segs)
                 PROVE  segs[i].ulSequenceNumber = segs[k].ulSequenceNumber <=> i = k
        OBVIOUS
    <2> QED
        BY Apart
<1> QED
    BY <1>1, <1>2

LEMMA UnlinkFields ==
    ASSUME NEW w \in WindowType, NEW x, Distinct(w.xPriorityQueue), Distinct(w.xWaitQueue), Distinct(w.xTxQueue)
    PROVE  /\ Unlink(w, x) \in WindowType
           /\ Unlink(w, x).ulCurrentSequenceNumber = w.ulCurrentSequenceNumber
           /\ Unlink(w, x).ulHighestSequenceNumber = w.ulHighestSequenceNumber
           /\ Unlink(w, x).ulNextTxSequenceNumber = w.ulNextTxSequenceNumber
           /\ Unlink(w, x).xTxSegments = w.xTxSegments
           /\ Unlink(w, x).xPriorityQueue = RemoveFirst(w.xPriorityQueue, x)
           /\ Unlink(w, x).xWaitQueue = RemoveFirst(w.xWaitQueue, x)
           /\ Unlink(w, x).xTxQueue = RemoveFirst(w.xTxQueue, x)
           /\ Unlink(w, x).pxHeadSegment = w.pxHeadSegment
           /\ Unlink(w, x).ulTxWindowLength = w.ulTxWindowLength
           /\ Unlink(w, x).bSendFullSize = w.bSendFullSize
<1>1. /\ RemoveFirst(w.xPriorityQueue, x) \in Seq(SeqNumber) /\ RemoveFirst(w.xWaitQueue, x) \in Seq(SeqNumber)
      /\ RemoveFirst(w.xTxQueue, x) \in Seq(SeqNumber)
    BY WindowFields, Removed
<1>2. Unlink(w, x) \in WindowType
    BY <1>1 DEF Unlink, WindowType
<1> QED
    BY <1>2 DEF Unlink, WindowType

\* The segment that TxGet() leaves.
SentSegment(s, late) ==
    [s EXCEPT !.bOutstanding = TRUE, !.ucTransmitCount = Least(@ + 1, MaxTransmitCount),
              !.ucDupAckCount = IF late THEN 0 ELSE @]

LEMMA SentSegmentParts ==
    ASSUME NEW s \in SegmentType, NEW late \in BOOLEAN
    PROVE  /\ SentSegment(s, late) \in SegmentType
           /\ SentSegment(s, late).ulSequenceNumber = s.ulSequenceNumber
           /\ SentSegment(s, late).lDataLength = s.lDataLength
           /\ SentSegment(s, late).lStreamPos = s.lStreamPos
           /\ SentSegment(s, late).bOutstanding = TRUE /\ SentSegment(s, late).bAcked = s.bAcked
<1>1. Least(s.ucTransmitCount + 1, MaxTransmitCount) \in 0 .. MaxTransmitCount
    BY SegmentParts, TxAssumption DEF Least
<1>2. (IF late THEN 0 ELSE s.ucDupAckCount) \in 0 .. DuplicateAcks + 1
    BY SegmentParts, TxAssumption
<1> QED
    BY <1>1, <1>2 DEF SentSegment, SegmentType

\* Is a segment sent for the first time, or because its time is up?
Fresh(w, s) == w.xPriorityQueue = << >> /\ ~s.bOutstanding
Late(w, s) == w.xPriorityQueue = << >> /\ s.bOutstanding

LEMMA TxGetFields ==
    ASSUME NEW w, WindowOK(w), NEW k \in 1 .. Len(w.xTxSegments), NEW s, s = w.xTxSegments[k],
           NEW seq, seq = s.ulSequenceNumber, End(s) \in SeqNumber, seq \notin ToSet(RemoveFirst(w.xWaitQueue, seq)),
           NEW v, v = TxGet(w, seq)
    PROVE  /\ v \in WindowType
           /\ v.ulCurrentSequenceNumber = w.ulCurrentSequenceNumber
           /\ v.ulHighestSequenceNumber = IF Fresh(w, s) THEN End(s) ELSE w.ulHighestSequenceNumber
           /\ v.ulNextTxSequenceNumber = w.ulNextTxSequenceNumber
           /\ v.xTxSegments = [w.xTxSegments EXCEPT ![k] = SentSegment(s, Late(w, s))]
           /\ v.xPriorityQueue = RemoveFirst(w.xPriorityQueue, seq)
           /\ v.xWaitQueue = Append(RemoveFirst(w.xWaitQueue, seq), seq)
           /\ v.xTxQueue = RemoveFirst(w.xTxQueue, seq)
           /\ v.pxHeadSegment = IF Fresh(w, s) /\ w.pxHeadSegment = seq THEN NoSegment ELSE w.pxHeadSegment
<1> DEFINE sent == Update(w, seq, LAMBDA t :
                    [t EXCEPT !.bOutstanding = TRUE,
                              !.ucTransmitCount = Least(@ + 1, MaxTransmitCount),
                              !.ucDupAckCount = IF Late(w, s) THEN 0 ELSE @])
<1> DEFINE new == [w.xTxSegments EXCEPT ![k] = SentSegment(s, Late(w, s))]
<1>1. /\ w \in WindowType /\ w.xTxSegments \in Seq(SegmentType)
      /\ Tiled(w.xTxSegments, Cur(w), Nxt(w))
      /\ Distinct(w.xPriorityQueue) /\ Distinct(w.xWaitQueue) /\ Distinct(w.xTxQueue)
    BY WindowFields, TxQueueEntry DEF WindowOK, InFlight
<1>2. Segment(w, seq) = s
    BY SegmentFound
<1>3. s \in SegmentType /\ Late(w, s) \in BOOLEAN
    BY <1>1, ElementOfSeq DEF Late
<1>4. sent = [w EXCEPT !.xTxSegments = new]
    <2>1. new = [i \in DOMAIN w.xTxSegments |-> IF w.xTxSegments[i].ulSequenceNumber = seq
                                                THEN SentSegment(s, Late(w, s)) ELSE w.xTxSegments[i]]
        <3>1. PICK z : z = SentSegment(s, Late(w, s))
            OBVIOUS
        <3>2. [i \in DOMAIN w.xTxSegments |-> IF w.xTxSegments[i].ulSequenceNumber = w.xTxSegments[k].ulSequenceNumber
                                              THEN z ELSE w.xTxSegments[i]] = [w.xTxSegments EXCEPT ![k] = z]
            BY <1>1, OneMatches
        <3> QED
            BY <3>1, <3>2
    <2>2. \A i \in DOMAIN w.xTxSegments : w.xTxSegments[i].ulSequenceNumber = seq => w.xTxSegments[i] = s
        <3> SUFFICES ASSUME NEW i \in 1 .. Len(w.xTxSegments)
                     PROVE  w.xTxSegments[i].ulSequenceNumber = seq => w.xTxSegments[i] = s
            BY <1>1, LenProperties
        <3> QED
            BY <1>1, Apart
    <2>3. [i \in DOMAIN w.xTxSegments |-> IF w.xTxSegments[i].ulSequenceNumber = seq
                                          THEN SentSegment(w.xTxSegments[i], Late(w, s)) ELSE w.xTxSegments[i]] = new
        BY <2>1, <2>2
    <2> QED
        BY <2>3 DEF Update, SentSegment
<1>5. new \in Seq(SegmentType)
    <2>1. PICK z \in SegmentType : z = SentSegment(s, Late(w, s))
        BY <1>3, SentSegmentParts
    <2> QED
        BY <1>1, <2>1, ExceptSeq
<1>6. v = [Waiting(sent, seq) EXCEPT
            !.pxHeadSegment = IF Fresh(w, s) /\ @ = seq THEN NoSegment ELSE @,
            !.ulHighestSequenceNumber = IF Fresh(w, s) THEN End(s) ELSE @,
            !.ulTxWindowLength =
                IF s.ucTransmitCount = MaxTransmitCount - 1 THEN Least(@, 2 * MSS) ELSE @]
    BY <1>2 DEF TxGet, Fresh, Late
<1> HIDE DEF sent, new
<1>7. /\ sent \in WindowType /\ sent.ulCurrentSequenceNumber = w.ulCurrentSequenceNumber
      /\ sent.ulHighestSequenceNumber = w.ulHighestSequenceNumber
      /\ sent.ulNextTxSequenceNumber = w.ulNextTxSequenceNumber /\ sent.xTxSegments = new
      /\ sent.xPriorityQueue = w.xPriorityQueue /\ sent.xWaitQueue = w.xWaitQueue
      /\ sent.xTxQueue = w.xTxQueue /\ sent.pxHeadSegment = w.pxHeadSegment
      /\ sent.ulTxWindowLength = w.ulTxWindowLength /\ sent.bSendFullSize = w.bSendFullSize
    BY <1>1, <1>4, <1>5 DEF WindowType
<1> DEFINE u == Unlink(sent, seq)
<1>8. /\ u \in WindowType /\ u.ulCurrentSequenceNumber = w.ulCurrentSequenceNumber
      /\ u.ulHighestSequenceNumber = w.ulHighestSequenceNumber
      /\ u.ulNextTxSequenceNumber = w.ulNextTxSequenceNumber /\ u.xTxSegments = new
      /\ u.xPriorityQueue = RemoveFirst(w.xPriorityQueue, seq)
      /\ u.xWaitQueue = RemoveFirst(w.xWaitQueue, seq)
      /\ u.xTxQueue = RemoveFirst(w.xTxQueue, seq) /\ u.pxHeadSegment = w.pxHeadSegment
      /\ u.ulTxWindowLength = w.ulTxWindowLength
    BY <1>1, <1>7, UnlinkFields
<1>9. Waiting(sent, seq) = [u EXCEPT !.xWaitQueue = Append(@, seq)]
    BY DEF Waiting
<1> HIDE DEF u
<1>10. Append(u.xWaitQueue, seq) \in Seq(SeqNumber)
    <2>1. seq \in SeqNumber
        BY <1>3, SegmentParts
    <2> QED
        BY <1>8, <2>1, WindowFields, AppendProperties
<1>11. (IF s.ucTransmitCount = MaxTransmitCount - 1 THEN Least(u.ulTxWindowLength, 2 * MSS)
        ELSE u.ulTxWindowLength) \in Nat
    BY <1>8, WindowFields, Constants DEF Least
<1>12. v = [u EXCEPT !.xWaitQueue = Append(@, seq),
            !.pxHeadSegment = IF Fresh(w, s) /\ @ = seq THEN NoSegment ELSE @,
            !.ulHighestSequenceNumber = IF Fresh(w, s) THEN End(s) ELSE @,
            !.ulTxWindowLength =
                IF s.ucTransmitCount = MaxTransmitCount - 1 THEN Least(@, 2 * MSS) ELSE @]
    BY <1>6, <1>8, <1>9 DEF WindowType
<1>13. v \in WindowType
    BY <1>8, <1>10, <1>11, <1>12 DEF WindowType
<1> QED
    BY <1>8, <1>12, <1>13 DEF WindowType, new

\* The first of the segments that were not sent becomes one that was.
LEMMA UnsentNext ==
    ASSUME NEW segs \in Seq(SegmentType), NEW new \in Seq(SegmentType), NEW queue \in Seq(SeqNumber),
           NEW a, NEW n, NEW h, Tiled(segs, a, n), Unsent(segs, queue, h, n), queue # << >>,
           NEW k \in 1 .. Len(segs), segs[k].ulSequenceNumber = Head(queue), SameLayout(segs, new),
           new[k].bOutstanding, \A i \in 1 .. Len(segs) : i # k => new[i] = segs[i]
    PROVE  Unsent(new, Tail(queue), Upto(segs[k]), n)
<1>1. /\ Len(segs) \in Nat /\ Len(queue) \in Nat /\ Len(queue) > 0 /\ Len(queue) <= Len(segs)
      /\ Len(new) = Len(segs) /\ Head(queue) = queue[1]
    BY LenProperties, EmptySeq DEF Unsent, SameLayout
<1>0. Len(segs) - Len(queue) + 1 \in Nat /\ 1 \in 1 .. Len(queue)
    BY <1>1
<1>2. PICK first \in Nat : first = Len(segs) - Len(queue) + 1
    BY <1>0
<1>3. first \in 1 .. Len(segs)
    BY <1>1, <1>2
<1>4. queue[1] = segs[first].ulSequenceNumber
    BY <1>0, <1>2 DEF Unsent
<1>5. k = first
    BY <1>1, <1>3, <1>4, Apart
<1>6. /\ Tail(queue) \in Seq(SeqNumber) /\ Len(Tail(queue)) = Len(queue) - 1
      /\ \A j \in 1 .. Len(Tail(queue)) : Tail(queue)[j] = queue[j + 1]
    BY HeadTailProperties
<1>7. ASSUME NEW j \in 1 .. Len(Tail(queue))
      PROVE  Tail(queue)[j] = new[Len(new) - Len(Tail(queue)) + j].ulSequenceNumber
    <2>1. j + 1 \in 1 .. Len(queue) /\ Len(segs) - Len(queue) + (j + 1) \in 1 .. Len(segs)
          /\ Len(new) - Len(Tail(queue)) + j = Len(segs) - Len(queue) + (j + 1)
        BY <1>1, <1>6
    <2>2. queue[j + 1] = segs[Len(segs) - Len(queue) + (j + 1)].ulSequenceNumber
        BY <2>1 DEF Unsent
    <2> QED
        BY <2>1, <2>2, <1>6 DEF SameLayout
<1>8. ASSUME NEW i \in 1 .. Len(new)
      PROVE  /\ new[i].bOutstanding <=> i <= Len(new) - Len(Tail(queue))
             /\ new[i].bAcked => new[i].bOutstanding
    <2>1. i \in 1 .. Len(segs) /\ Len(new) - Len(Tail(queue)) = first
        BY <1>1, <1>2, <1>6
    <2>2. /\ segs[i].bOutstanding <=> i <= Len(segs) - Len(queue)
          /\ segs[i].bAcked => segs[i].bOutstanding
        BY <2>1 DEF Unsent
    <2>3. CASE i = k
        BY <2>1, <2>3, <1>3, <1>5
    <2>4. CASE i # k
        <3>1. i <= Len(segs) - Len(queue) <=> i <= first
            BY <2>1, <2>4, <1>1, <1>2, <1>5
        <3>2. new[i] = segs[i]
            BY <2>1, <2>4
        <3> QED
            BY <3>1, <3>2, <2>1, <2>2
    <2> QED
        BY <2>3, <2>4
<1>9. Len(Tail(queue)) = 0 => Upto(segs[k]) = n
    <2>1. Len(Tail(queue)) = 0 => k = Len(segs)
        <3>1. Len(Tail(queue)) = 0 => Len(queue) = 1
            <4>1. Len(Tail(queue)) \in Nat
                BY <1>6, LenProperties
            <4> QED
                <5>1. Len(Tail(queue)) = 0 => Len(queue) - 1 = 0
                    BY <1>6, Zenon
                <5> QED
                    BY <5>1, <1>1
        <3>2. Len(queue) = 1 => first = Len(segs)
            BY <1>1, <1>2
        <3> QED
            BY <3>1, <3>2, <1>5
    <2> QED
        BY <2>1, <1>1 DEF Tiled
<1>10. ASSUME Len(Tail(queue)) # 0
       PROVE  Start(new[Len(new) - Len(Tail(queue)) + 1]) = Upto(segs[k])
    <2>1. k + 1 \in 1 .. Len(segs) /\ Len(new) - Len(Tail(queue)) + 1 = k + 1
        BY <1>10, <1>1, <1>2, <1>3, <1>5, <1>6
    <2>2. Start(segs[k + 1]) = Upto(segs[k])
        BY <2>1 DEF Tiled
    <2>3. Start(new[k + 1]) = Start(segs[k + 1])
        BY <2>1 DEF SameLayout, Start
    <2> QED
        BY <2>1, <2>2, <2>3
<1>11. Len(Tail(queue)) <= Len(new)
    BY <1>1, <1>6
<1> QED
    BY <1>7, <1>8, <1>9, <1>10, <1>11 DEF Unsent

\* A change of flags and counts that leaves the segments' being outstanding.
LEMMA UnsentKept ==
    ASSUME NEW segs \in Seq(SegmentType), NEW new \in Seq(SegmentType), NEW queue \in Seq(SeqNumber),
           NEW h, NEW n, Unsent(segs, queue, h, n), SameLayout(segs, new),
           \A i \in 1 .. Len(segs) : (new[i].bOutstanding <=> segs[i].bOutstanding)
                                     /\ (new[i].bAcked => new[i].bOutstanding)
    PROVE  Unsent(new, queue, h, n)
<1>1. Len(segs) \in Nat /\ Len(queue) \in Nat /\ Len(queue) <= Len(segs) /\ Len(new) = Len(segs)
    BY LenProperties DEF Unsent, SameLayout
<1>2. ASSUME NEW j \in 1 .. Len(queue)
      PROVE  queue[j] = new[Len(new) - Len(queue) + j].ulSequenceNumber
    <2>1. Len(segs) - Len(queue) + j \in 1 .. Len(segs)
        BY <1>1
    <2>2. queue[j] = segs[Len(segs) - Len(queue) + j].ulSequenceNumber
        BY DEF Unsent
    <2> QED
        BY <1>1, <2>1, <2>2 DEF SameLayout
<1>3. \A i \in 1 .. Len(new) : /\ new[i].bOutstanding <=> i <= Len(new) - Len(queue)
                               /\ new[i].bAcked => new[i].bOutstanding
    BY <1>1 DEF Unsent
<1>4. ASSUME Len(queue) # 0
      PROVE  Start(new[Len(new) - Len(queue) + 1]) = h
    <2>1. Len(segs) - Len(queue) + 1 \in 1 .. Len(segs)
        BY <1>1, <1>4
    <2>2. Start(segs[Len(segs) - Len(queue) + 1]) = h
        BY <1>4 DEF Unsent
    <2> QED
        BY <1>1, <2>1, <2>2 DEF SameLayout, Start
<1>5. Len(queue) = 0 => h = n
    BY DEF Unsent
<1> QED
    BY <1>1, <1>2, <1>3, <1>4, <1>5 DEF Unsent

LEMMA TxGetOK ==
    ASSUME NEW w, WindowOK(w), NEW k \in 1 .. Len(w.xTxSegments), NEW s, s = w.xTxSegments[k],
           NEW seq, seq = s.ulSequenceNumber,
           \/ seq \in ToSet(w.xPriorityQueue)
           \/ w.xPriorityQueue = << >> /\ seq \in ToSet(w.xWaitQueue)
           \/ w.xPriorityQueue = << >> /\ w.xTxQueue # << >> /\ seq = Head(w.xTxQueue),
           NEW v, v = TxGet(w, seq)
    PROVE  /\ WindowOK(v) /\ Keeps(w, v) /\ Nxt(v) = Nxt(w)
           /\ SameLayout(w.xTxSegments, v.xTxSegments)
           /\ High(v) = IF s.bOutstanding THEN High(w) ELSE Upto(s)
<1> DEFINE segs == w.xTxSegments
<1>1. /\ w \in WindowType /\ segs \in Seq(SegmentType) /\ Tiled(segs, Cur(w), Nxt(w))
      /\ Unsent(segs, w.xTxQueue, High(w), Nxt(w))
      /\ InFlight(segs, w.xPriorityQueue, w.xWaitQueue) /\ HeadFits(segs, w.pxHeadSegment)
      /\ Distinct(w.xPriorityQueue) /\ Distinct(w.xWaitQueue) /\ Distinct(w.xTxQueue)
      /\ Cur(w) <= High(w) /\ High(w) <= Nxt(w) /\ Nxt(w) <= MaxBytes
    BY WindowFields, TxQueueEntry DEF WindowOK, InFlight
<1>2. /\ Cur(w) \in Nat /\ High(w) \in Nat /\ Nxt(w) \in Nat /\ Len(segs) \in Nat
      /\ w.xPriorityQueue \in Seq(SeqNumber) /\ w.xWaitQueue \in Seq(SeqNumber) /\ w.xTxQueue \in Seq(SeqNumber)
    BY <1>1, WindowFields
<1>3. /\ s \in SegmentType /\ seq \in SeqNumber /\ Start(s) \in Nat /\ s.lDataLength \in Nat
      /\ Upto(s) = Start(s) + s.lDataLength /\ Start(s) < Upto(s) /\ Upto(s) \in Nat
      /\ s.bOutstanding \in BOOLEAN /\ s.bAcked \in BOOLEAN
    BY <1>1, SegmentEntry
<1>4. /\ s.bOutstanding => Upto(s) <= High(w)
      /\ ~s.bOutstanding => High(w) <= Start(s)
      /\ Cur(w) <= Start(s) /\ Upto(s) <= Nxt(w)
    BY SentBelow
<1>5. End(s) \in SeqNumber /\ Position(End(s)) = Upto(s)
    <2>1. Upto(s) <= MaxBytes
        BY <1>1, <1>2, <1>3, <1>4, Constants
    <2> QED
        BY <2>1, <1>3, EndOf
<1>6. /\ s.bOutstanding <=> seq \in ToSet(w.xPriorityQueue) \cup ToSet(w.xWaitQueue)
      /\ ~s.bAcked
      /\ ~s.bOutstanding => w.xPriorityQueue = << >> /\ w.xTxQueue # << >> /\ seq = Head(w.xTxQueue)
      /\ s.bOutstanding => seq \notin ToSet(w.xTxQueue)
    <2>1. seq \in ToSet(w.xPriorityQueue) \cup ToSet(w.xWaitQueue) <=> s.bOutstanding /\ ~s.bAcked
        BY FlyingEntry
    <2>2. s.bOutstanding => seq \notin ToSet(w.xTxQueue)
        BY TxQueueEntry
    <2>3. s.bAcked => s.bOutstanding
        BY <1>1 DEF Unsent
    <2>4. w.xTxQueue # << >> => Head(w.xTxQueue) \in ToSet(w.xTxQueue)
        BY <1>2, LenProperties, EmptySeq DEF ToSet
    <2> QED
        BY <2>1, <2>2, <2>3, <2>4
<1>7. /\ RemoveFirst(w.xWaitQueue, seq) \in Seq(SeqNumber)
      /\ Distinct(RemoveFirst(w.xWaitQueue, seq))
      /\ ToSet(RemoveFirst(w.xWaitQueue, seq)) = ToSet(w.xWaitQueue) \ {seq}
      /\ Distinct(RemoveFirst(w.xPriorityQueue, seq))
      /\ ToSet(RemoveFirst(w.xPriorityQueue, seq)) = ToSet(w.xPriorityQueue) \ {seq}
      /\ seq \notin ToSet(w.xTxQueue) => RemoveFirst(w.xTxQueue, seq) = w.xTxQueue
      /\ w.xTxQueue # << >> /\ seq = Head(w.xTxQueue) => RemoveFirst(w.xTxQueue, seq) = Tail(w.xTxQueue)
    BY <1>1, <1>2, Removed
<1>8. PICK z \in SegmentType : z = SentSegment(s, Late(w, s))
    <2>1. Late(w, s) \in BOOLEAN
        BY <1>3 DEF Late
    <2> QED
        BY <2>1, <1>3, SentSegmentParts
<1>9. /\ z.ulSequenceNumber = s.ulSequenceNumber /\ z.lDataLength = s.lDataLength
      /\ z.lStreamPos = s.lStreamPos /\ z.bOutstanding = TRUE /\ z.bAcked = s.bAcked
    <2>1. Late(w, s) \in BOOLEAN
        BY <1>3 DEF Late
    <2>2. s \in SegmentType
        BY <1>3
    <2> QED
        BY <2>1, <2>2, <1>8, SentSegmentParts
<1> DEFINE new == [segs EXCEPT ![k] = z]
<1>10. Fresh(w, s) <=> ~s.bOutstanding
    BY <1>6 DEF Fresh
<1>11. /\ v \in WindowType
       /\ v.ulCurrentSequenceNumber = w.ulCurrentSequenceNumber
       /\ v.ulHighestSequenceNumber = IF s.bOutstanding THEN w.ulHighestSequenceNumber ELSE End(s)
       /\ v.ulNextTxSequenceNumber = w.ulNextTxSequenceNumber
       /\ v.xTxSegments = new
       /\ v.xPriorityQueue = RemoveFirst(w.xPriorityQueue, seq)
       /\ v.xWaitQueue = Append(RemoveFirst(w.xWaitQueue, seq), seq)
       /\ v.xTxQueue = RemoveFirst(w.xTxQueue, seq)
       /\ v.pxHeadSegment = IF ~s.bOutstanding /\ w.pxHeadSegment = seq THEN NoSegment ELSE w.pxHeadSegment
    <2>1. seq \notin ToSet(RemoveFirst(w.xWaitQueue, seq))
        BY <1>7
    <2> QED
        BY <2>1, <1>5, <1>8, <1>10, TxGetFields
<1>12. /\ new \in Seq(SegmentType) /\ Len(new) = Len(segs) /\ SameLayout(segs, new)
       /\ new[k] = z /\ \A i \in 1 .. Len(segs) : i # k => new[i] = segs[i]
       /\ Flying(new) = Flying(segs) \cup {seq}
    <2>1. k \in 1 .. Len(segs) /\ segs[k] = s
        OBVIOUS
    <2> HIDE DEF segs
    <2>2. /\ new \in Seq(SegmentType) /\ Len(new) = Len(segs)
          /\ new[k] = z /\ \A i \in 1 .. Len(segs) : i # k => new[i] = segs[i]
        BY <2>1, <1>1, ExceptSeq
    <2> HIDE DEF new
    <2>3. /\ new[k].ulSequenceNumber = segs[k].ulSequenceNumber /\ new[k].lDataLength = segs[k].lDataLength
          /\ new[k].lStreamPos = segs[k].lStreamPos /\ new[k].bOutstanding /\ ~new[k].bAcked
        BY <2>1, <2>2, <1>6, <1>9
    <2>4. SameLayout(segs, new) /\ Flying(new) = Flying(segs) \cup {segs[k].ulSequenceNumber}
        BY <2>1, <2>2, <2>3, <1>1, OneChanged
    <2> QED
        BY <2>1, <2>2, <2>4
<1>13. /\ Cur(v) = Cur(w) /\ Nxt(v) = Nxt(w) /\ High(v) = IF s.bOutstanding THEN High(w) ELSE Upto(s)
    BY <1>5, <1>11 DEF Cur, Nxt, High
<1>14. k \in 1 .. Len(segs) /\ segs[k] = s
    OBVIOUS
<1> HIDE DEF new, segs
<1>15. /\ Tiled(new, Cur(w), Nxt(w))
       /\ \A i \in 1 .. Len(segs) : Start(new[i]) = Start(segs[i]) /\ Upto(new[i]) = Upto(segs[i])
    BY <1>1, <1>12, LayoutKept
<1>16. Unsent(new, v.xTxQueue, High(v), Nxt(w))
    <2>1. CASE s.bOutstanding
        <3>1. \A i \in 1 .. Len(segs) : /\ new[i].bOutstanding <=> segs[i].bOutstanding
                                        /\ new[i].bAcked => new[i].bOutstanding
            BY <2>1, <1>1, <1>6, <1>9, <1>12, <1>14 DEF Unsent
        <3>2. Unsent(new, w.xTxQueue, High(w), Nxt(w))
            BY <3>1, <1>1, <1>2, <1>12, UnsentKept
        <3> QED
            BY <2>1, <3>2, <1>6, <1>7, <1>11, <1>13
    <2>2. CASE ~s.bOutstanding
        <3>1. Unsent(new, Tail(w.xTxQueue), Upto(segs[k]), Nxt(w))
            BY <2>2, <1>1, <1>2, <1>6, <1>9, <1>12, <1>14, UnsentNext
        <3> QED
            BY <2>2, <3>1, <1>6, <1>7, <1>11, <1>13, <1>14
    <2> QED
        BY <2>1, <2>2, <1>3
<1>17. InFlight(new, v.xPriorityQueue, v.xWaitQueue)
    <2>1. /\ Distinct(v.xWaitQueue) /\ ToSet(v.xWaitQueue) = (ToSet(w.xWaitQueue) \ {seq}) \cup {seq}
        BY <1>3, <1>7, <1>11, Queued1
    <2>2. Distinct(v.xPriorityQueue) /\ ToSet(v.xPriorityQueue) = ToSet(w.xPriorityQueue) \ {seq}
        BY <1>7, <1>11
    <2> QED
        BY <2>1, <2>2, <1>1, <1>12 DEF InFlight
<1>18. HeadFits(new, v.pxHeadSegment)
    <2> SUFFICES ASSUME v.pxHeadSegment # NoSegment
                 PROVE  /\ Len(new) # 0 /\ v.pxHeadSegment = new[Len(new)].ulSequenceNumber
                        /\ ~new[Len(new)].bOutstanding
        BY DEF HeadFits
    <2>1. v.pxHeadSegment = w.pxHeadSegment /\ w.pxHeadSegment # NoSegment
          /\ ~(~s.bOutstanding /\ w.pxHeadSegment = seq)
        BY <1>11
    <2>2. Len(segs) # 0 /\ w.pxHeadSegment = segs[Len(segs)].ulSequenceNumber /\ ~segs[Len(segs)].bOutstanding
        BY <2>1, <1>1 DEF HeadFits
    <2>3. Len(segs) # k
        BY <2>1, <2>2, <1>14
    <2>4. Len(segs) \in 1 .. Len(segs)
        BY <2>2, <1>2
    <2> QED
        BY <2>1, <2>2, <2>3, <2>4, <1>12
<1>19. High(w) <= High(v) /\ High(v) <= Nxt(v)
    BY <1>1, <1>2, <1>3, <1>4, <1>13
<1>20. WindowOK(v)
    <2>1. Cur(v) <= High(v)
        BY <1>1, <1>2, <1>3, <1>4, <1>13
    <2>2. Tiled(v.xTxSegments, Cur(v), Nxt(v)) /\ Unsent(v.xTxSegments, v.xTxQueue, High(v), Nxt(v))
          /\ InFlight(v.xTxSegments, v.xPriorityQueue, v.xWaitQueue) /\ HeadFits(v.xTxSegments, v.pxHeadSegment)
        BY <1>11, <1>13, <1>15, <1>16, <1>17, <1>18, Zenon
    <2>3. Nxt(v) <= MaxBytes
        BY <1>1, <1>13
    <2> QED
        BY <2>1, <2>2, <2>3, <1>11, <1>19 DEF WindowOK
<1>21. Keeps(w, v)
    <2>1. \A i \in 1 .. Len(new) : new[i].bAcked =>
             i <= Len(segs) /\ segs[i].bAcked /\ Start(new[i]) = Start(segs[i]) /\ Upto(new[i]) = Upto(segs[i])
        BY <1>2, <1>9, <1>12, <1>14, <1>15
    <2> QED
        BY <2>1, <1>2, <1>11, <1>12, <1>13, <1>19 DEF Keeps, segs
<1> QED
    BY <1>11, <1>12, <1>13, <1>20, <1>21 DEF segs

-----------------------------------------------------------------------------
(* What a handler works on *)

ContextType ==
    [window : WindowType, stream : StreamType, windowSize : Int, free : Nat,
     packets : SUBSET Packets, due : Int, sent : BOOLEAN]

ContextOK(c, got) ==
    /\ c \in ContextType
    /\ WindowOK(c.window) /\ Matches(c.window, c.stream)
    /\ PoolOK(c.free, c.window.xTxSegments)
    /\ \A packet \in c.packets : PacketOK(packet, High(c.window))
    /\ PeerHas(c.window, got)

\* What sending, or preparing to, may do.
Sends(c, d) ==
    /\ Keeps(c.window, d.window) /\ d.windowSize = c.windowSize
    /\ \A e \in Int : Bounded(c.window, c.windowSize, e) => Bounded(d.window, d.windowSize, e)

LEMMA KeepsOnward ==
    ASSUME NEW u, NEW v, NEW w, WindowOK(u), WindowOK(v), WindowOK(w), Keeps(u, v), Keeps(v, w)
    PROVE  Keeps(u, w)
<1>1. /\ Cur(u) \in Nat /\ High(u) \in Nat /\ High(v) \in Nat /\ High(w) \in Nat
      /\ Len(u.xTxSegments) \in Nat /\ Len(v.xTxSegments) \in Nat /\ Len(w.xTxSegments) \in Nat
    BY WindowFields DEF WindowOK
<1>2. Cur(w) = Cur(u) /\ High(u) <= High(w) /\ Len(u.xTxSegments) <= Len(w.xTxSegments)
    BY <1>1 DEF Keeps
<1>3. ASSUME NEW i \in 1 .. Len(w.xTxSegments), w.xTxSegments[i].bAcked
      PROVE  /\ i <= Len(u.xTxSegments) /\ u.xTxSegments[i].bAcked
             /\ Start(w.xTxSegments[i]) = Start(u.xTxSegments[i])
             /\ Upto(w.xTxSegments[i]) = Upto(u.xTxSegments[i])
    <2>1. /\ i <= Len(v.xTxSegments) /\ v.xTxSegments[i].bAcked
          /\ Start(w.xTxSegments[i]) = Start(v.xTxSegments[i])
          /\ Upto(w.xTxSegments[i]) = Upto(v.xTxSegments[i])
        BY <1>3 DEF Keeps
    <2>2. i \in 1 .. Len(v.xTxSegments)
        BY <1>1, <2>1
    <2>3. /\ i <= Len(u.xTxSegments) /\ u.xTxSegments[i].bAcked
          /\ Start(v.xTxSegments[i]) = Start(u.xTxSegments[i])
          /\ Upto(v.xTxSegments[i]) = Upto(u.xTxSegments[i])
        BY <2>1, <2>2 DEF Keeps
    <2> QED
        BY <2>1, <2>3
<1> QED
    BY <1>2, <1>3 DEF Keeps

LEMMA KeepsItself ==
    ASSUME NEW w, WindowOK(w)
    PROVE  Keeps(w, w)
<1>1. High(w) \in Nat /\ Len(w.xTxSegments) \in Nat
    BY WindowFields DEF WindowOK
<1> QED
    BY <1>1 DEF Keeps

\* The peer still has what it has to.
LEMMA KeepsPeerHas ==
    ASSUME NEW w, NEW v, WindowOK(w), WindowOK(v), Keeps(w, v), NEW got, PeerHas(w, got)
    PROVE  PeerHas(v, got)
<1>1. /\ High(w) \in Nat /\ High(v) \in Nat /\ High(w) <= High(v) /\ Cur(v) = Cur(w)
      /\ Len(w.xTxSegments) \in Nat /\ Len(v.xTxSegments) \in Nat
    BY WindowFields DEF WindowOK, Keeps
<1>2. got \subseteq 0 .. High(v) - 1
    <2>1. 0 .. High(w) - 1 \subseteq 0 .. High(v) - 1
        BY <1>1
    <2> QED
        BY <2>1 DEF PeerHas
<1>3. ASSUME NEW i \in 1 .. Len(v.xTxSegments), v.xTxSegments[i].bAcked
      PROVE  Start(v.xTxSegments[i]) .. Upto(v.xTxSegments[i]) - 1 \subseteq got
    <2>1. /\ i <= Len(w.xTxSegments) /\ w.xTxSegments[i].bAcked
          /\ Start(v.xTxSegments[i]) = Start(w.xTxSegments[i])
          /\ Upto(v.xTxSegments[i]) = Upto(w.xTxSegments[i])
        BY <1>3 DEF Keeps
    <2>2. i \in 1 .. Len(w.xTxSegments)
        BY <1>1, <2>1
    <2>3. Start(w.xTxSegments[i]) .. Upto(w.xTxSegments[i]) - 1 \subseteq got
        BY <2>1, <2>2 DEF PeerHas
    <2> QED
        BY <2>1, <2>3
<1> QED
    BY <1>1, <1>2, <1>3 DEF PeerHas

\* ... and what was clear of the acknowledged segments is.
LEMMA KeepsClear ==
    ASSUME NEW w, NEW v, WindowOK(w), WindowOK(v), Keeps(w, v), NEW x, Clear(w.xTxSegments, x)
    PROVE  Clear(v.xTxSegments, x)
<1>1. Len(w.xTxSegments) \in Nat /\ Len(v.xTxSegments) \in Nat
    BY WindowFields DEF WindowOK
<1> SUFFICES ASSUME NEW i \in 1 .. Len(v.xTxSegments), v.xTxSegments[i].bAcked, Start(v.xTxSegments[i]) < x
             PROVE  Upto(v.xTxSegments[i]) <= x
    BY DEF Clear
<1>2. /\ i <= Len(w.xTxSegments) /\ w.xTxSegments[i].bAcked
      /\ Start(v.xTxSegments[i]) = Start(w.xTxSegments[i])
      /\ Upto(v.xTxSegments[i]) = Upto(w.xTxSegments[i])
    BY DEF Keeps
<1>3. i \in 1 .. Len(w.xTxSegments)
    BY <1>1, <1>2
<1> QED
    BY <1>2, <1>3 DEF Clear

LEMMA SendsOnward ==
    ASSUME NEW got, NEW b, NEW c, NEW d, ContextOK(b, got), ContextOK(c, got), ContextOK(d, got),
           Sends(b, c), Sends(c, d)
    PROVE  Sends(b, d)
<1>1. Keeps(b.window, d.window)
    BY KeepsOnward DEF Sends, ContextOK
<1> QED
    BY <1>1 DEF Sends

LEMMA SendsItself ==
    ASSUME NEW got, NEW c, ContextOK(c, got), NEW d, d.window = c.window, d.windowSize = c.windowSize
    PROVE  Sends(c, d)
BY KeepsItself DEF Sends, ContextOK

\* Which segment is the first that was not sent.
LEMMA FirstUnsent ==
    ASSUME NEW w, WindowOK(w), w.xTxQueue # << >>
    PROVE  \E k \in 1 .. Len(w.xTxSegments) :
              /\ w.xTxSegments[k].ulSequenceNumber = Head(w.xTxQueue)
              /\ ~w.xTxSegments[k].bOutstanding /\ Start(w.xTxSegments[k]) = High(w)
<1>1. PICK segs, queue : segs = w.xTxSegments /\ queue = w.xTxQueue
    OBVIOUS
<1>2. /\ segs \in Seq(SegmentType) /\ queue \in Seq(SeqNumber) /\ Len(segs) \in Nat /\ Len(queue) \in Nat
      /\ Unsent(segs, queue, High(w), Nxt(w)) /\ queue # << >>
    BY <1>1, WindowFields DEF WindowOK
<1>3. Len(queue) > 0 /\ Head(queue) = queue[1] /\ 1 \in 1 .. Len(queue)
    BY <1>2, EmptySeq
<1>4. Len(queue) <= Len(segs)
    BY <1>2 DEF Unsent
<1>5. Len(segs) - Len(queue) + 1 \in 1 .. Len(segs) /\ ~(Len(segs) - Len(queue) + 1 <= Len(segs) - Len(queue))
    BY <1>2, <1>3, <1>4
<1>6. PICK k \in 1 .. Len(segs) : k = Len(segs) - Len(queue) + 1
    BY <1>5
<1>7. queue[1] = segs[k].ulSequenceNumber /\ Start(segs[k]) = High(w)
    BY <1>2, <1>3, <1>6 DEF Unsent
<1>8. ~segs[k].bOutstanding
    BY <1>2, <1>5, <1>6 DEF Unsent
<1> QED
    BY <1>1, <1>3, <1>7, <1>8

\* A segment that prvTCPWindowTxHasSpace() lets pass stays below what the peer
\* allows, as long as the numbers do not wrap.
LEMMA SpaceIsKept ==
    ASSUME NEW w, WindowOK(w), NEW windowSize \in Int, HasSpace(w, windowSize),
           NEW k \in 1 .. Len(w.xTxSegments), w.xTxSegments[k].ulSequenceNumber = Head(w.xTxQueue),
           Start(w.xTxSegments[k]) = High(w),
           NEW e \in Int, Bounded(w, windowSize, e), InitialSeq + Upto(w.xTxSegments[k]) < SeqRange
    PROVE  Upto(w.xTxSegments[k]) <= e
<1>1. PICK s : s = w.xTxSegments[k]
    OBVIOUS
<1>2. /\ s.lDataLength \in Nat /\ s.lDataLength > 0 /\ Upto(s) = High(w) + s.lDataLength /\ High(w) \in Nat
      /\ Cur(w) \in Nat /\ Cur(w) <= High(w)
      /\ w.ulCurrentSequenceNumber \in SeqNumber /\ w.ulHighestSequenceNumber \in SeqNumber
    BY <1>1, SegmentEntry, WindowFields DEF WindowOK
<1>3. Segment(w, Head(w.xTxQueue)) = s
    BY <1>1, SegmentFound
<1>4. InitialSeq + High(w) < SeqRange /\ InitialSeq + Cur(w) < SeqRange
    BY <1>1, <1>2, Constants
<1>5. ASSUME NEW q \in SeqNumber, InitialSeq + Position(q) < SeqRange
      PROVE  q = InitialSeq + Position(q)
    <2>1. Position(q) = IF q >= InitialSeq THEN q - InitialSeq ELSE q - InitialSeq + SeqRange
        BY PositionValue
    <2> QED
        BY <2>1, <1>5, Constants DEF SeqNumber
<1>6. /\ w.ulHighestSequenceNumber = InitialSeq + High(w)
      /\ w.ulCurrentSequenceNumber = InitialSeq + Cur(w)
    BY <1>2, <1>4, <1>5 DEF High, Cur
<1>7. PICK out \in Nat : out = High(w) - Cur(w)
    BY <1>2
<1>8. /\ w.ulHighestSequenceNumber >= w.ulCurrentSequenceNumber
      /\ w.ulHighestSequenceNumber - w.ulCurrentSequenceNumber = out
    BY <1>2, <1>6, <1>7, Constants
<1>9. windowSize - Least(windowSize, out) >= s.lDataLength
    BY <1>3, <1>8 DEF HasSpace
<1>10. windowSize - out >= s.lDataLength
    BY <1>2, <1>9 DEF Least
<1>11. Cur(w) + windowSize <= e
    BY DEF Bounded
<1> QED
    BY <1>1, <1>2, <1>7, <1>10, <1>11

\* prvTCPPrepareSend() finds the bytes of the segment where lStreamPos says.
LEMMA DataIsStream ==
    ASSUME NEW w, WindowOK(w), NEW stream, Matches(w, stream), NEW k \in 1 .. Len(w.xTxSegments)
    PROVE  Data(stream, w.xTxSegments[k]) =
               [i \in 1 .. w.xTxSegments[k].lDataLength |-> Start(w.xTxSegments[k]) + i - 1]
<1>1. PICK s : s = w.xTxSegments[k]
    OBVIOUS
<1>2. /\ s.lDataLength \in Nat /\ s.lDataLength > 0 /\ Upto(s) = Start(s) + s.lDataLength /\ Start(s) \in Nat
      /\ Cur(w) \in Nat /\ Nxt(w) \in Nat /\ Cur(w) <= Start(s) /\ Upto(s) <= Nxt(w)
    BY <1>1, SegmentEntry, SentBelow, WindowFields DEF WindowOK
<1>3. PICK d \in Nat : d = Start(s) - Cur(w)
    BY <1>2
<1>4. PICK size : size = Distance(stream.tail, stream.head)
    OBVIOUS
<1>5. /\ stream.tail \in Index /\ stream.head \in Index /\ stream.mid \in Index
      /\ Distance(stream.tail, stream.mid) = Nxt(w) - Cur(w)
      /\ Distance(stream.tail, stream.mid) <= size
    BY <1>4 DEF Matches, StreamHolds, StreamType
<1>6. size \in 0 .. LENGTH - 1 /\ d + s.lDataLength <= size /\ LENGTH \in Nat
    <2>1. size \in 0 .. LENGTH - 1 /\ LENGTH \in Nat
        BY <1>4, <1>5, DistanceIn, Constants
    <2>2. Nxt(w) - Cur(w) <= size
        BY <1>5
    <2> QED
        BY <2>1, <2>2, <1>2, <1>3
<1>7. s.lStreamPos = Wrap(stream.tail + d)
    BY <1>1, <1>3 DEF Matches, Placed
<1>8. d \in 0 .. LENGTH - 1
    BY <1>2, <1>6
<1>9. Distance(stream.tail, s.lStreamPos) = d
    BY <1>5, <1>7, <1>8, DistanceOnward
<1>10. Least(Beyond(size, d), s.lDataLength) = s.lDataLength
    BY <1>2, <1>6 DEF Least, Beyond
<1>11. ASSUME NEW i \in 1 .. s.lDataLength
       PROVE  stream.array[Wrap(Wrap(stream.tail + d) + i - 1)] = Start(s) + i - 1
    <2>1. PICK e \in Nat : e = i - 1 /\ e < s.lDataLength
        BY <1>2
    <2>2. Wrap(Wrap(stream.tail + d) + e) = Wrap(stream.tail + (d + e))
        BY <2>1, <1>2, <1>5, <1>6, WrapTwice
    <2>3. d + e \in 0 .. LENGTH - 1 /\ d + e < size
        BY <2>1, <1>2, <1>6
    <2>4. stream.array[Wrap(stream.tail + (d + e))] = Cur(w) + (d + e)
        BY <2>3, <1>4 DEF Matches, StreamHolds
    <2>5. Wrap(stream.tail + d) + i - 1 = Wrap(stream.tail + d) + e
        BY <2>1, <1>5, <1>8, DistanceOnward DEF Index
    <2>6. Cur(w) + (d + e) = Start(s) + i - 1
        BY <2>1, <1>2, <1>3
    <2> QED
        BY <2>2, <2>4, <2>5, <2>6
<1>12. Data(stream, s) = [i \in 1 .. s.lDataLength |->
           IF i <= s.lDataLength THEN stream.array[Wrap(Wrap(stream.tail + d) + i - 1)] ELSE Garbage]
    BY <1>4, <1>9, <1>10 DEF Data
<1>13. \A i \in 1 .. s.lDataLength : i <= s.lDataLength
    BY <1>2
<1>14. Data(stream, s) = [i \in 1 .. s.lDataLength |-> Start(s) + i - 1]
    BY <1>11, <1>12, <1>13
<1> QED
    BY <1>1, <1>14

LEMMA PositionsInPackets ==
    ASSUME NEW packet, NEW h \in Nat, NEW g \in Nat, PacketOK(packet, h), h <= g
    PROVE  PacketOK(packet, g) /\ packet \in Packets
<1>1. PICK p \in 0 .. MaxBytes, n \in 1 .. MSS : p + n <= h /\ packet = Packet(p, n)
    BY DEF PacketOK
<1>2. p + n <= g
    BY <1>1, Constants
<1> QED
    BY <1>1, <1>2 DEF PacketOK, Packets

\* What ulTCPWindowTxGet() chooses.
LEMMA Chosen ==
    ASSUME NEW w, WindowOK(w), NEW windowSize \in Int, NEW due \in Int,
           NEW seq, seq = NextToSend(w, windowSize, due), seq # NoSegment
    PROVE  \E k \in 1 .. Len(w.xTxSegments) :
              /\ seq = w.xTxSegments[k].ulSequenceNumber
              /\ \/ seq \in ToSet(w.xPriorityQueue)
                 \/ w.xPriorityQueue = << >> /\ seq \in ToSet(w.xWaitQueue)
                 \/ w.xPriorityQueue = << >> /\ w.xTxQueue # << >> /\ seq = Head(w.xTxQueue)
              /\ ~w.xTxSegments[k].bOutstanding =>
                    HasSpace(w, windowSize) /\ Start(w.xTxSegments[k]) = High(w) /\ seq = Head(w.xTxQueue)
<1>1. /\ w.xPriorityQueue \in Seq(SeqNumber) /\ w.xWaitQueue \in Seq(SeqNumber) /\ w.xTxQueue \in Seq(SeqNumber)
    BY WindowFields DEF WindowOK
<1>2. ASSUME NEW q \in Seq(SeqNumber), q # << >>
      PROVE  Head(q) \in ToSet(q)
    <2>1. Head(q) = q[1] /\ 1 \in 1 .. Len(q) /\ DOMAIN q = 1 .. Len(q)
        BY <1>2, EmptySeq, LenProperties
    <2> QED
        BY <2>1 DEF ToSet
<1>3. CASE w.xPriorityQueue # << >>
    <2>1. seq = Head(w.xPriorityQueue)
        BY <1>3 DEF NextToSend
    <2>2. seq \in ToSet(w.xPriorityQueue)
        BY <2>1, <1>1, <1>2, <1>3
    <2> QED
        BY <2>2, FlyingEntry
<1>4. CASE w.xPriorityQueue = << >> /\ due > 0 /\ w.xWaitQueue # << >>
    <2>1. seq = Head(w.xWaitQueue)
        BY <1>4 DEF NextToSend
    <2>2. seq \in ToSet(w.xWaitQueue)
        BY <2>1, <1>1, <1>2, <1>4
    <2> QED
        BY <2>2, <1>4, FlyingEntry
<1>5. CASE w.xPriorityQueue = << >> /\ ~(due > 0 /\ w.xWaitQueue # << >>)
    <2>1. MaySendNew(w, windowSize) /\ seq = Head(w.xTxQueue)
        BY <1>5 DEF NextToSend
    <2>2. w.xTxQueue # << >> /\ HasSpace(w, windowSize)
        BY <2>1 DEF MaySendNew
    <2> QED
        BY <2>1, <2>2, <1>5, FirstUnsent
<1> QED
    BY <1>3, <1>4, <1>5

LEMMA PrepareSendOK ==
    ASSUME NEW got, NEW c, ContextOK(c, got), NEW d, d = PrepareSend(c)
    PROVE  ContextOK(d, got) /\ Sends(c, d)
<1>1. PICK w : w = c.window
    OBVIOUS
<1>2. /\ c \in ContextType /\ WindowOK(w) /\ Matches(w, c.stream) /\ PoolOK(c.free, w.xTxSegments)
      /\ \A packet \in c.packets : PacketOK(packet, High(w))
      /\ PeerHas(w, got) /\ c.windowSize \in Int /\ c.due \in Int /\ c.packets \subseteq Packets
    BY <1>1 DEF ContextOK, ContextType
<1>3. PICK seq : seq = NextToSend(w, c.windowSize, c.due)
    OBVIOUS
<1>4. CASE seq = NoSegment
    <2>1. d = [c EXCEPT !.sent = FALSE]
        BY <1>1, <1>3, <1>4 DEF PrepareSend
    <2>2. /\ d \in ContextType /\ d.window = c.window /\ d.stream = c.stream /\ d.windowSize = c.windowSize
          /\ d.free = c.free /\ d.packets = c.packets
        BY <2>1, <1>2 DEF ContextType
    <2>3. ContextOK(d, got)
        BY <2>2, <1>1, <1>2 DEF ContextOK
    <2> QED
        BY <2>2, <2>3, SendsItself
<1>5. CASE seq # NoSegment
    <2>1. PICK k \in 1 .. Len(w.xTxSegments) :
              /\ seq = w.xTxSegments[k].ulSequenceNumber
              /\ \/ seq \in ToSet(w.xPriorityQueue)
                 \/ w.xPriorityQueue = << >> /\ seq \in ToSet(w.xWaitQueue)
                 \/ w.xPriorityQueue = << >> /\ w.xTxQueue # << >> /\ seq = Head(w.xTxQueue)
              /\ ~w.xTxSegments[k].bOutstanding =>
                    HasSpace(w, c.windowSize) /\ Start(w.xTxSegments[k]) = High(w) /\ seq = Head(w.xTxQueue)
        BY <1>2, <1>3, <1>5, Chosen
    <2>2. PICK s : s = w.xTxSegments[k]
        OBVIOUS
    <2>3. PICK v : v = TxGet(w, seq)
        OBVIOUS
    <2>4. /\ WindowOK(v) /\ Keeps(w, v) /\ Nxt(v) = Nxt(w)
          /\ SameLayout(w.xTxSegments, v.xTxSegments)
          /\ High(v) = IF s.bOutstanding THEN High(w) ELSE Upto(s)
        BY <2>1, <2>2, <2>3, <1>2, TxGetOK
    <2>5. /\ w.xTxSegments \in Seq(SegmentType) /\ v.xTxSegments \in Seq(SegmentType)
          /\ High(w) \in Nat /\ High(v) \in Nat /\ Cur(v) = Cur(w) /\ High(w) <= High(v)
          /\ High(v) <= Nxt(v) /\ Nxt(v) <= MaxBytes /\ Nxt(v) \in Nat
          /\ Len(v.xTxSegments) = Len(w.xTxSegments)
        BY <2>4, <1>2, WindowFields DEF WindowOK, Keeps, SameLayout
    <2>6. /\ s \in SegmentType /\ s.ulSequenceNumber \in SeqNumber /\ s.lDataLength \in 1 .. MSS
          /\ Start(s) \in Nat /\ Upto(s) = Start(s) + s.lDataLength /\ Upto(s) <= High(v)
        <3>1. /\ s \in SegmentType /\ s.ulSequenceNumber \in SeqNumber
              /\ s.lDataLength \in Nat /\ s.lDataLength > 0 /\ s.lDataLength <= MSS
              /\ Start(s) \in Nat /\ Upto(s) \in Nat /\ Upto(s) = Start(s) + s.lDataLength
            BY <2>2, <2>5, SegmentEntry
        <3>2. s.bOutstanding => Upto(s) <= High(w)
            BY <2>2, <1>2, SentBelow
        <3>3. Upto(s) <= High(v)
            BY <2>4, <2>5, <3>1, <3>2
        <3> QED
            BY <3>1, <3>3, Constants
    <2>7. PICK packet : packet = [seq |-> seq, data |-> Data(c.stream, s)]
        OBVIOUS
    <2>8. PacketOK(packet, High(v)) /\ packet \in Packets
        <3>1. Start(s) \in 0 .. MaxBytes /\ Start(s) + s.lDataLength <= High(v)
            BY <2>5, <2>6, Constants
        <3>2. Number(Start(s)) = seq
            <4>1. Number(Start(s)) \in SeqNumber /\ Position(Number(Start(s))) = Start(s)
                BY <3>1, PositionOfNumber
            <4>2. seq \in SeqNumber /\ Position(seq) = Start(s)
                BY <2>1, <2>2, <2>6 DEF Start
            <4> QED
                BY <4>1, <4>2, PositionOne
        <3>3. Data(c.stream, s) = [i \in 1 .. s.lDataLength |-> Start(s) + i - 1]
            BY <2>2, <1>2, DataIsStream
        <3>4. packet = Packet(Start(s), s.lDataLength)
            BY <3>2, <3>3, <2>7 DEF Packet
        <3>5. PacketOK(packet, High(v))
            BY <3>1, <3>4, <2>6 DEF PacketOK
        <3> QED
            BY <3>5, <2>5, PositionsInPackets
    <2>9. Segment(w, seq) = s
        BY <2>1, <2>2, <1>2, SegmentFound
    <2>10. d = [c EXCEPT !.window = v, !.packets = @ \cup {packet},
                         !.due = IF w.xPriorityQueue = << >> /\ c.due > 0 /\ w.xWaitQueue # << >> THEN @ - 1 ELSE @,
                         !.sent = TRUE]
        BY <1>1, <1>3, <1>5, <2>3, <2>7, <2>9 DEF PrepareSend
    <2>11. /\ d \in ContextType /\ d.window = v /\ d.stream = c.stream /\ d.windowSize = c.windowSize
           /\ d.free = c.free /\ d.packets = c.packets \cup {packet}
        <3>1. v \in WindowType /\ c.packets \cup {packet} \in SUBSET Packets
            BY <2>4, <2>8, <1>2 DEF WindowOK
        <3>2. (IF w.xPriorityQueue = << >> /\ c.due > 0 /\ w.xWaitQueue # << >> THEN c.due - 1 ELSE c.due) \in Int
            BY <1>2
        <3> QED
            BY <3>1, <3>2, <2>10, <1>2 DEF ContextType
    <2>12. Matches(v, c.stream)
        <3>1. Placed(v.xTxSegments, c.stream.tail, Cur(v))
            BY <2>4, <2>5, <1>2, LayoutKept DEF Matches
        <3> QED
            BY <3>1, <2>4, <2>5, <1>2 DEF Matches
    <2>13. \A p \in d.packets : PacketOK(p, High(v))
        BY <2>5, <2>8, <2>11, <1>2, PositionsInPackets
    <2>14. PoolOK(d.free, v.xTxSegments)
        BY <2>5, <2>11, <1>2 DEF PoolOK
    <2>15. PeerHas(v, got)
        BY <2>4, <1>2, KeepsPeerHas
    <2>16. ContextOK(d, got)
        BY <2>4, <2>11, <2>12, <2>13, <2>14, <2>15 DEF ContextOK
    <2>17. ASSUME NEW e \in Int, Bounded(w, c.windowSize, e)
           PROVE  Bounded(v, c.windowSize, e)
        <3>1. Cur(v) + c.windowSize <= e
            BY <2>5, <2>17 DEF Bounded
        <3>2. ASSUME InitialSeq + High(v) < SeqRange
              PROVE  High(v) <= e
            <4>1. CASE s.bOutstanding
                BY <2>4, <2>17, <3>2, <4>1 DEF Bounded
            <4>2. CASE ~s.bOutstanding
                <5>1. HasSpace(w, c.windowSize) /\ Start(s) = High(w) /\ s.ulSequenceNumber = Head(w.xTxQueue)
                    BY <2>1, <2>2, <4>2
                <5>2. InitialSeq + Upto(s) < SeqRange
                    BY <2>4, <3>2, <4>2
                <5>3. Upto(s) <= e
                    BY <5>1, <5>2, <2>2, <2>17, <1>2, SpaceIsKept
                <5> QED
                    BY <5>3, <2>4, <4>2
            <4> QED
                BY <4>1, <4>2, <2>6 DEF SegmentType
        <3> QED
            BY <3>1, <3>2 DEF Bounded
    <2> QED
        BY <2>4, <2>11, <2>16, <2>17, <1>1 DEF Sends
<1> QED
    BY <1>4, <1>5

LEMMA SendOnceOK ==
    ASSUME NEW got, NEW c, ContextOK(c, got), NEW d, d = SendOnce(c)
    PROVE  ContextOK(d, got) /\ Sends(c, d)
BY PrepareSendOK, SendsItself DEF SendOnce

LEMMA SendRepeatedOK ==
    ASSUME NEW got, NEW c, ContextOK(c, got), NEW d, d = SendRepeated(c)
    PROVE  ContextOK(d, got) /\ Sends(c, d)
<1> DEFINE N == SendRepeatedCount
<1> DEFINE base == [c EXCEPT !.sent = TRUE]
<1> DEFINE loop == CHOOSE g : g = [n \in 0 .. N |-> IF n = 0 THEN base ELSE SendOnce(g[n - 1])]
<1>1. N \in Nat
    BY TxAssumption
<1>2. d = loop[N]
    BY Zenon DEF SendRepeated
<1>3. PICK f : Runs("send", N, base, N, f)
    <2> HIDE DEF base, N
    <2> QED
        BY <1>1, RunExists
<1>4. \A n, x : Turn("send", N, x, n) = SendOnce(x)
    BY DEF Turn
<1>5. f = [n \in 0 .. N |-> IF n = 0 THEN base ELSE SendOnce(f[n - 1])]
    <2>1. f = [n \in 0 .. N |-> IF n = 0 THEN base ELSE Turn("send", N, f[n - 1], n)]
        BY <1>3, Zenon DEF Runs
    <2> HIDE DEF base, N
    <2> QED
        BY <2>1, <1>4
<1>6. loop = [n \in 0 .. N |-> IF n = 0 THEN base ELSE SendOnce(loop[n - 1])]
    BY <1>5, Zenon
<1>7. Runs("send", N, base, N, loop)
    <2> HIDE DEF base, N, loop
    <2>1. loop = [n \in 0 .. N |-> IF n = 0 THEN base ELSE Turn("send", N, loop[n - 1], n)]
        BY <1>4, <1>6
    <2> QED
        BY <2>1, Zenon DEF Runs
<1>8. /\ loop[0] = base
      /\ \A i \in 1 .. N : loop[i] = SendOnce(loop[i - 1])
    <2> HIDE DEF base, N, loop
    <2>1. loop[0] = base /\ \A i \in 1 .. N : loop[i] = Turn("send", N, loop[i - 1], i)
        BY <1>1, <1>7, RunSteps
    <2> QED
        BY <2>1, <1>4
<1>9. ContextOK(base, got) /\ Sends(c, base)
    <2>1. /\ base \in ContextType /\ base.window = c.window /\ base.stream = c.stream
          /\ base.windowSize = c.windowSize /\ base.free = c.free /\ base.packets = c.packets
        BY DEF ContextOK, ContextType
    <2> HIDE DEF base
    <2>2. ContextOK(base, got)
        BY <2>1 DEF ContextOK
    <2> QED
        BY <2>1, <2>2, SendsItself
<1> DEFINE good == {n \in 0 .. N : ContextOK(loop[n], got) /\ Sends(c, loop[n])}
<1> HIDE DEF base, loop
<1>10. 0 \in good
    BY <1>1, <1>8, <1>9
<1>11. ASSUME NEW i \in 1 .. N, i - 1 \in good
       PROVE  i \in good
    <2>1. ContextOK(loop[i - 1], got) /\ Sends(c, loop[i - 1]) /\ loop[i] = SendOnce(loop[i - 1])
        BY <1>8, <1>11
    <2>2. ContextOK(loop[i], got) /\ Sends(loop[i - 1], loop[i])
        BY <2>1, SendOnceOK
    <2>3. Sends(c, loop[i])
        BY <2>1, <2>2, SendsOnward
    <2> QED
        BY <2>2, <2>3, <1>1
<1>12. \A i \in 0 .. N : i \in good
    <2> HIDE DEF good, N
    <2> QED
        BY <1>1, <1>10, <1>11, Induction
<1> QED
    BY <1>1, <1>2, <1>12

-----------------------------------------------------------------------------
(* Bytes are cut into segments *)

LEMMA FlyingSame ==
    ASSUME NEW segs, NEW new, Len(new) = Len(segs),
           \A i \in 1 .. Len(segs) : /\ new[i].ulSequenceNumber = segs[i].ulSequenceNumber
                                     /\ new[i].bOutstanding = segs[i].bOutstanding
                                     /\ new[i].bAcked = segs[i].bAcked
    PROVE  Flying(new) = Flying(segs)
BY DEF Flying

\* The last segment takes n bytes more.
LEMMA LastLonger ==
    ASSUME NEW segs \in Seq(SegmentType), NEW a \in Nat, NEW e \in Nat, Tiled(segs, a, e), Len(segs) # 0,
           NEW n \in Nat, NEW z \in SegmentType,
           z.ulSequenceNumber = segs[Len(segs)].ulSequenceNumber,
           z.lDataLength = segs[Len(segs)].lDataLength + n,
           NEW new \in Seq(SegmentType), Len(new) = Len(segs), new[Len(segs)] = z,
           \A i \in 1 .. Len(segs) : i # Len(segs) => new[i] = segs[i]
    PROVE  Tiled(new, a, e + n)
<1>1. PICK L \in Nat : L = Len(segs)
    BY LenProperties
<1>2. L \in 1 .. Len(segs) /\ L # 0
    BY <1>1
<1>3. \A i \in 1 .. L : /\ Start(segs[i]) \in Nat /\ Upto(segs[i]) \in Nat
                        /\ Upto(segs[i]) = Start(segs[i]) + segs[i].lDataLength
                        /\ segs[i].lDataLength \in Nat
    <2> SUFFICES ASSUME NEW i \in 1 .. L
                 PROVE  /\ Start(segs[i]) \in Nat /\ Upto(segs[i]) \in Nat
                        /\ Upto(segs[i]) = Start(segs[i]) + segs[i].lDataLength
                        /\ segs[i].lDataLength \in Nat
        OBVIOUS
    <2> QED
        BY <1>1, SegmentEntry
<1>4. /\ \A i \in 1 .. L : Start(new[i]) = Start(segs[i])
      /\ \A i \in 1 .. L : i # L => Upto(new[i]) = Upto(segs[i])
    BY <1>1 DEF Start, Upto
<1>5. Upto(segs[L]) = e /\ Start(segs[1]) = a
    BY <1>1, <1>2 DEF Tiled
<1>6. Upto(new[L]) = e + n
    <2>1. Upto(new[L]) = Start(segs[L]) + (segs[L].lDataLength + n)
        BY <1>1, <1>2, <1>4 DEF Upto
    <2>2. Start(segs[L]) + segs[L].lDataLength = e /\ Start(segs[L]) \in Nat /\ segs[L].lDataLength \in Nat
        BY <1>1, <1>2, <1>3, <1>5
    <2> QED
        BY <2>1, <2>2
<1>7. \A i \in 1 .. L : a <= Start(segs[i]) /\ Upto(segs[i]) <= e
    BY <1>1 DEF Tiled
<1>8. \A i \in 1 .. L : a <= Start(new[i]) /\ Upto(new[i]) <= e + n
    <2> SUFFICES ASSUME NEW i \in 1 .. L PROVE a <= Start(new[i]) /\ Upto(new[i]) <= e + n
        OBVIOUS
    <2>1. a <= Start(new[i])
        BY <1>4, <1>7
    <2>2. CASE i = L
        BY <2>1, <2>2, <1>6
    <2>3. CASE i # L
        BY <2>1, <2>3, <1>3, <1>4, <1>7
    <2> QED
        BY <2>2, <2>3
<1>9. \A i, j \in 1 .. L : i < j => Upto(new[i]) <= Start(new[j])
    BY <1>1, <1>4 DEF Tiled
<1>10. \A i, j \in 1 .. L : j = i + 1 => Start(new[j]) = Upto(new[i])
    BY <1>1, <1>4 DEF Tiled
<1>11. Start(new[1]) = a
    BY <1>2, <1>4, <1>5
<1> QED
    BY <1>1, <1>2, <1>6, <1>8, <1>9, <1>10, <1>11 DEF Tiled

\* The last segment, if the window still fills it.
LEMMA FrontRoomValue ==
    ASSUME NEW w, WindowOK(w)
    PROVE  /\ FrontRoom(w) \in Nat
           /\ w.pxHeadSegment = NoSegment => FrontRoom(w) = 0
           /\ w.pxHeadSegment # NoSegment =>
                 /\ Len(w.xTxSegments) \in 1 .. Len(w.xTxSegments)
                 /\ w.pxHeadSegment = w.xTxSegments[Len(w.xTxSegments)].ulSequenceNumber
                 /\ ~w.xTxSegments[Len(w.xTxSegments)].bOutstanding
                 /\ FrontRoom(w) = MSS - w.xTxSegments[Len(w.xTxSegments)].lDataLength
<1>1. CASE w.pxHeadSegment = NoSegment
    BY <1>1 DEF FrontRoom
<1>2. CASE w.pxHeadSegment # NoSegment
    <2>1. PICK L \in Nat : L = Len(w.xTxSegments)
        BY WindowFields DEF WindowOK
    <2>2. /\ L # 0 /\ w.pxHeadSegment = w.xTxSegments[L].ulSequenceNumber /\ ~w.xTxSegments[L].bOutstanding
        BY <2>1, <1>2 DEF WindowOK, HeadFits
    <2>3. L \in 1 .. Len(w.xTxSegments)
        BY <2>1, <2>2
    <2>4. Segment(w, w.pxHeadSegment) = w.xTxSegments[L]
        BY <2>2, <2>3, SegmentFound
    <2>5. /\ w.xTxSegments[L].lDataLength \in Nat /\ w.xTxSegments[L].lDataLength > 0
          /\ w.xTxSegments[L].lDataLength <= MSS
        BY <2>3, SegmentEntry, WindowFields DEF WindowOK
    <2>6. FrontRoom(w) = MSS - w.xTxSegments[L].lDataLength
        BY <1>2, <2>2, <2>4, <2>5 DEF FrontRoom
    <2> QED
        BY <1>2, <2>1, <2>2, <2>3, <2>5, <2>6, Constants
<1> QED
    BY <1>1, <1>2

\* What cutting bytes into segments does to a window.
Adds(w, v, n) ==
    /\ WindowOK(v) /\ Keeps(w, v) /\ High(v) = High(w) /\ Nxt(v) = Nxt(w) + n

LEMMA FillFrontOK ==
    ASSUME NEW w, WindowOK(w), NEW n \in Nat, n <= FrontRoom(w), Nxt(w) + n <= MaxBytes,
           NEW v, v = FillFront(w, n)
    PROVE  /\ Adds(w, v, n) /\ Len(v.xTxSegments) = Len(w.xTxSegments)
           /\ \A tail, a : Placed(w.xTxSegments, tail, a) => Placed(v.xTxSegments, tail, a)
<1>1. CASE n = 0
    <2>1. v = w /\ Nxt(w) \in Nat
        BY <1>1, WindowFields DEF FillFront, WindowOK
    <2> QED
        BY <2>1, <1>1, KeepsItself DEF Adds
<1>2. CASE n # 0
    <2>1. PICK segs, L : segs = w.xTxSegments /\ L = Len(segs)
        OBVIOUS
    <2>2. /\ w \in WindowType /\ segs \in Seq(SegmentType) /\ L \in Nat /\ DOMAIN segs = 1 .. L
          /\ Cur(w) \in Nat /\ High(w) \in Nat /\ Nxt(w) \in Nat /\ w.ulNextTxSequenceNumber \in SeqNumber
          /\ w.xTxQueue \in Seq(SeqNumber) /\ Len(w.xTxQueue) \in Nat
          /\ Cur(w) <= High(w) /\ High(w) <= Nxt(w) /\ Tiled(segs, Cur(w), Nxt(w))
          /\ Unsent(segs, w.xTxQueue, High(w), Nxt(w)) /\ InFlight(segs, w.xPriorityQueue, w.xWaitQueue)
          /\ w.pxHeadSegment \in SeqNumber \cup {NoSegment}
        BY <2>1, WindowFields DEF WindowOK
    <2>3. /\ w.pxHeadSegment # NoSegment /\ L \in 1 .. Len(segs) /\ ~segs[L].bOutstanding
          /\ w.pxHeadSegment = segs[L].ulSequenceNumber /\ n <= MSS - segs[L].lDataLength
        BY <1>2, <2>1, FrontRoomValue
    <2>4. PICK s : s = segs[L]
        OBVIOUS
    <2>5. s \in SegmentType /\ s.lDataLength \in Nat /\ s.lDataLength > 0
        BY <2>2, <2>3, <2>4, SegmentEntry
    <2>6. PICK z : z = [s EXCEPT !.lDataLength = @ + n]
        OBVIOUS
    <2>7. /\ z \in SegmentType /\ z.ulSequenceNumber = s.ulSequenceNumber
          /\ z.lDataLength = s.lDataLength + n /\ z.lStreamPos = s.lStreamPos
          /\ z.bOutstanding = s.bOutstanding /\ z.bAcked = s.bAcked
        <3>1. s.lDataLength + n \in 1 .. MSS
            BY <2>3, <2>4, <2>5, Constants
        <3> QED
            BY <3>1, <2>5, <2>6 DEF SegmentType
    <2>8. PICK new : new = [segs EXCEPT ![L] = z]
        OBVIOUS
    <2>9. /\ new \in Seq(SegmentType) /\ Len(new) = Len(segs)
          /\ new[L] = z /\ \A i \in 1 .. Len(segs) : i # L => new[i] = segs[i]
        BY <2>2, <2>3, <2>7, <2>8, ExceptSeq
    <2>10. [i \in DOMAIN segs |-> IF segs[i].ulSequenceNumber = w.pxHeadSegment
                                  THEN [segs[i] EXCEPT !.lDataLength = @ + n] ELSE segs[i]] = new
        <3>1. [i \in DOMAIN segs |-> IF segs[i].ulSequenceNumber = segs[L].ulSequenceNumber
                                     THEN z ELSE segs[i]] = [segs EXCEPT ![L] = z]
            BY <2>2, <2>3, OneMatches
        <3>2. \A i \in DOMAIN segs : segs[i].ulSequenceNumber = w.pxHeadSegment => segs[i] = s
            <4> SUFFICES ASSUME NEW i \in 1 .. Len(segs)
                         PROVE  segs[i].ulSequenceNumber = segs[L].ulSequenceNumber => segs[i] = s
                BY <2>1, <2>2, <2>3
            <4> QED
                BY <2>2, <2>3, <2>4, Apart
        <3> QED
            BY <3>1, <3>2, <2>3, <2>6, <2>8
    <2>11. v = [w EXCEPT !.xTxSegments = new, !.ulNextTxSequenceNumber = SeqAdd(@, n),
                         !.pxHeadSegment = IF n = FrontRoom(w) THEN NoSegment ELSE @]
        BY <1>2, <2>1, <2>2, <2>10 DEF FillFront, Update, WindowType
    <2>12. SeqAdd(w.ulNextTxSequenceNumber, n) \in SeqNumber
           /\ Position(SeqAdd(w.ulNextTxSequenceNumber, n)) = Nxt(w) + n
        BY <2>2, PositionAdd DEF Nxt
    <2>13. /\ v \in WindowType /\ v.xTxSegments = new /\ Cur(v) = Cur(w) /\ High(v) = High(w) /\ Nxt(v) = Nxt(w) + n
           /\ v.pxHeadSegment \in {w.pxHeadSegment, NoSegment} /\ v.xTxQueue = w.xTxQueue
           /\ v.xPriorityQueue = w.xPriorityQueue /\ v.xWaitQueue = w.xWaitQueue
        <3>1. /\ v \in WindowType /\ v.xTxSegments = new
              /\ v.ulCurrentSequenceNumber = w.ulCurrentSequenceNumber
              /\ v.ulHighestSequenceNumber = w.ulHighestSequenceNumber
              /\ v.ulNextTxSequenceNumber = SeqAdd(w.ulNextTxSequenceNumber, n)
              /\ v.pxHeadSegment \in {w.pxHeadSegment, NoSegment} /\ v.xTxQueue = w.xTxQueue
              /\ v.xPriorityQueue = w.xPriorityQueue /\ v.xWaitQueue = w.xWaitQueue
            BY <2>2, <2>9, <2>11, <2>12 DEF WindowType
        <3> QED
            BY <3>1, <2>12 DEF Cur, High, Nxt
    <2>14. \A i \in 1 .. Len(segs) : /\ new[i].ulSequenceNumber = segs[i].ulSequenceNumber
                                     /\ new[i].bOutstanding = segs[i].bOutstanding
                                     /\ new[i].bAcked = segs[i].bAcked
                                     /\ new[i].lStreamPos = segs[i].lStreamPos
                                     /\ Start(new[i]) = Start(segs[i])
        BY <2>4, <2>7, <2>9 DEF Start
    <2>15. Tiled(new, Cur(w), Nxt(w) + n)
        <3>1. /\ segs \in Seq(SegmentType) /\ Cur(w) \in Nat /\ Nxt(w) \in Nat /\ Tiled(segs, Cur(w), Nxt(w))
              /\ Len(segs) # 0 /\ n \in Nat
            BY <2>1, <2>2, <2>3
        <3>2. /\ z \in SegmentType /\ z.ulSequenceNumber = segs[Len(segs)].ulSequenceNumber
              /\ z.lDataLength = segs[Len(segs)].lDataLength + n
              /\ new \in Seq(SegmentType) /\ Len(new) = Len(segs) /\ new[Len(segs)] = z
              /\ \A i \in 1 .. Len(segs) : i # Len(segs) => new[i] = segs[i]
            <4>1. L = Len(segs) /\ s = segs[L]
                BY <2>1, <2>4
            <4> QED
                BY <4>1, <2>7, <2>9, Zenon
        <3> QED
            BY <3>1, <3>2, LastLonger
    <2>16. Unsent(new, w.xTxQueue, High(w), Nxt(w) + n)
        <3>1. /\ Len(w.xTxQueue) <= Len(segs)
              /\ \A j \in 1 .. Len(w.xTxQueue) : w.xTxQueue[j] = segs[Len(segs) - Len(w.xTxQueue) + j].ulSequenceNumber
              /\ \A i \in 1 .. Len(segs) : segs[i].bOutstanding <=> i <= Len(segs) - Len(w.xTxQueue)
              /\ \A i \in 1 .. Len(segs) : segs[i].bAcked => segs[i].bOutstanding
              /\ Len(w.xTxQueue) # 0 => Start(segs[Len(segs) - Len(w.xTxQueue) + 1]) = High(w)
            BY <2>2 DEF Unsent
        <3>2. Len(w.xTxQueue) # 0
            BY <3>1, <2>1, <2>2, <2>3
        <3>a. PICK m \in Nat : m = Len(w.xTxQueue)
            BY <2>2
        <3>b. m <= L /\ m # 0 /\ L \in Nat /\ L = Len(segs)
            BY <3>a, <3>1, <3>2, <2>1, <2>2
        <3>3. \A j \in 1 .. Len(w.xTxQueue) : Len(segs) - Len(w.xTxQueue) + j \in 1 .. Len(segs)
            <4>1. \A j \in 1 .. m : L - m + j \in 1 .. L
                BY <3>b
            <4> QED
                BY <4>1, <3>a, <3>b
        <3>4. Len(segs) - Len(w.xTxQueue) + 1 \in 1 .. Len(segs)
            <4>1. 1 \in 1 .. Len(w.xTxQueue)
                BY <3>a, <3>b
            <4> QED
                BY <4>1, <3>3
        <3> QED
            BY <3>1, <3>2, <3>3, <3>4, <2>9, <2>14 DEF Unsent
    <2>17. InFlight(new, v.xPriorityQueue, v.xWaitQueue)
        <3>1. Flying(new) = Flying(segs)
            BY <2>9, <2>14, FlyingSame
        <3> QED
            BY <3>1, <2>2, <2>13 DEF InFlight
    <2>18. HeadFits(new, v.pxHeadSegment)
        BY <2>1, <2>2, <2>3, <2>9, <2>13, <2>14 DEF HeadFits
    <2>19. WindowOK(v)
        <3>1. Cur(v) <= High(v) /\ High(v) <= Nxt(v) /\ Nxt(v) <= MaxBytes
            BY <2>2, <2>13
        <3>2. Tiled(v.xTxSegments, Cur(v), Nxt(v)) /\ Unsent(v.xTxSegments, v.xTxQueue, High(v), Nxt(v))
              /\ InFlight(v.xTxSegments, v.xPriorityQueue, v.xWaitQueue) /\ HeadFits(v.xTxSegments, v.pxHeadSegment)
            BY <2>13, <2>15, <2>16, <2>17, <2>18, Zenon
        <3> QED
            BY <3>1, <3>2, <2>13 DEF WindowOK
    <2>20. Keeps(w, v)
        <3>1. ASSUME NEW i \in 1 .. Len(new), new[i].bAcked
              PROVE  /\ i <= Len(segs) /\ segs[i].bAcked /\ Start(new[i]) = Start(segs[i])
                     /\ Upto(new[i]) = Upto(segs[i])
            <4>1. i \in 1 .. Len(segs) /\ segs[i].bAcked /\ i <= Len(segs)
                BY <3>1, <2>1, <2>2, <2>9, <2>14
            <4>2. i # L
                BY <4>1, <2>2, <2>3 DEF Unsent
            <4> QED
                BY <4>1, <4>2, <2>9
        <3> QED
            BY <3>1, <2>1, <2>2, <2>9, <2>13 DEF Keeps
    <2>21. \A tail, a : Placed(segs, tail, a) => Placed(new, tail, a)
        BY <2>9, <2>14 DEF Placed
    <2> QED
        BY <2>1, <2>9, <2>13, <2>19, <2>20, <2>21 DEF Adds
<1> QED
    BY <1>1, <1>2

\* A new last segment.
LEMMA OneMore ==
    ASSUME NEW segs \in Seq(SegmentType), NEW a \in Nat, NEW e \in Nat, Tiled(segs, a, e), a <= e,
           NEW z \in SegmentType, Start(z) = e, ~z.bOutstanding, ~z.bAcked,
           NEW new \in Seq(SegmentType), Len(new) = Len(segs) + 1, new[Len(segs) + 1] = z,
           \A i \in 1 .. Len(segs) : new[i] = segs[i]
    PROVE  Tiled(new, a, Upto(z)) /\ Flying(new) = Flying(segs)
<1>1. PICK L \in Nat : L = Len(segs)
    BY LenProperties
<1>2. /\ Upto(z) \in Nat /\ e < Upto(z) /\ L + 1 \in 1 .. L + 1
      /\ \A i \in 1 .. L + 1 : i \in 1 .. L \/ i = L + 1
    BY <1>1, SegmentParts
<1>3. \A i \in 1 .. L : a <= Start(segs[i]) /\ Upto(segs[i]) <= e
    BY <1>1 DEF Tiled
<1>4. \A i \in 1 .. L : Upto(segs[i]) \in Nat
    <2> SUFFICES ASSUME NEW i \in 1 .. L PROVE Upto(segs[i]) \in Nat
        OBVIOUS
    <2> QED
        BY <1>1, SegmentEntry
<1>5. \A i \in 1 .. L + 1 : a <= Start(new[i]) /\ Upto(new[i]) <= Upto(z)
    <2>1. \A i \in 1 .. L : a <= Start(new[i]) /\ Upto(new[i]) <= Upto(z)
        BY <1>1, <1>2, <1>3, <1>4
    <2>2. a <= Start(new[L + 1]) /\ Upto(new[L + 1]) <= Upto(z)
        BY <1>1, <1>2
    <2> QED
        BY <2>1, <2>2, <1>2
<1>6. ASSUME NEW i \in 1 .. L + 1, NEW j \in 1 .. L + 1, i < j
      PROVE  Upto(new[i]) <= Start(new[j])
    <2>1. i \in 1 .. L
        BY <1>1, <1>6
    <2>2. CASE j \in 1 .. L
        BY <2>1, <2>2, <1>1, <1>6 DEF Tiled
    <2>3. CASE j = L + 1
        BY <2>1, <2>3, <1>1, <1>3
    <2> QED
        BY <2>2, <2>3, <1>2
<1>7. ASSUME NEW i \in 1 .. L + 1, NEW j \in 1 .. L + 1, j = i + 1
      PROVE  Start(new[j]) = Upto(new[i])
    <2>1. i \in 1 .. L
        BY <1>1, <1>7
    <2>2. CASE j \in 1 .. L
        BY <2>1, <2>2, <1>1, <1>7 DEF Tiled
    <2>3. CASE j = L + 1
        <3>1. i = L /\ L # 0
            BY <2>1, <2>3, <1>1, <1>7
        <3>2. Upto(segs[L]) = e
            BY <3>1, <1>1 DEF Tiled
        <3> QED
            BY <3>1, <3>2, <2>1, <2>3, <1>1
    <2> QED
        BY <2>2, <2>3, <1>2
<1>8. Start(new[1]) = a
    <2>1. CASE L = 0
        BY <2>1, <1>1 DEF Tiled
    <2>2. CASE L # 0
        <3>1. 1 \in 1 .. L /\ Start(segs[1]) = a
            BY <2>2, <1>1 DEF Tiled
        <3> QED
            BY <3>1, <1>1
    <2> QED
        BY <2>1, <2>2
<1>9. Tiled(new, a, Upto(z))
    BY <1>1, <1>2, <1>5, <1>6, <1>7, <1>8 DEF Tiled
<1>10. ASSUME NEW x
       PROVE  x \in Flying(new) <=> x \in Flying(segs)
    <2>1. x \in Flying(new) <=> \E i \in 1 .. L + 1 :
             x = new[i].ulSequenceNumber /\ new[i].bOutstanding /\ ~new[i].bAcked
        BY <1>1 DEF Flying
    <2>2. x \in Flying(segs) <=> \E i \in 1 .. L :
             x = segs[i].ulSequenceNumber /\ segs[i].bOutstanding /\ ~segs[i].bAcked
        BY <1>1 DEF Flying
    <2>3. \A i \in 1 .. L : i \in 1 .. L + 1 /\ new[i] = segs[i]
        BY <1>1
    <2>4. ~new[L + 1].bOutstanding
        BY <1>1
    <2> QED
        BY <2>1, <2>2, <2>3, <2>4, <1>2
<1> QED
    BY <1>9, <1>10

LEMMA NewSegmentOK ==
    ASSUME NEW w, WindowOK(w), NEW n \in 1 .. MSS, Nxt(w) + n <= MaxBytes, NEW position \in Index,
           NEW v, v = NewSegment(w, n, position)
    PROVE  /\ Adds(w, v, n) /\ Len(v.xTxSegments) = Len(w.xTxSegments) + 1
           /\ \A tail, a : Placed(w.xTxSegments, tail, a) /\ position = Wrap(tail + (Nxt(w) - a))
                 => Placed(v.xTxSegments, tail, a)
<1>1. PICK segs, queue : segs = w.xTxSegments /\ queue = w.xTxQueue
    OBVIOUS
<1>2. /\ w \in WindowType /\ segs \in Seq(SegmentType) /\ queue \in Seq(SeqNumber)
      /\ Cur(w) \in Nat /\ High(w) \in Nat /\ Nxt(w) \in Nat /\ w.ulNextTxSequenceNumber \in SeqNumber
      /\ Cur(w) <= High(w) /\ High(w) <= Nxt(w) /\ Tiled(segs, Cur(w), Nxt(w))
      /\ Unsent(segs, queue, High(w), Nxt(w)) /\ InFlight(segs, w.xPriorityQueue, w.xWaitQueue)
    BY <1>1, WindowFields DEF WindowOK
<1>3. PICK L \in Nat, M \in Nat : L = Len(segs) /\ M = Len(queue)
    BY <1>2, LenProperties
<1>4. PICK seq \in SeqNumber : seq = w.ulNextTxSequenceNumber
    BY <1>2
<1>5. PICK z : z = [ulSequenceNumber |-> seq, lDataLength |-> n,
                    lStreamPos |-> position, bOutstanding |-> FALSE,
                    ucTransmitCount |-> 0, ucDupAckCount |-> 0, bAcked |-> FALSE]
    OBVIOUS
<1>6. /\ z \in SegmentType /\ z.ulSequenceNumber = seq /\ z.lDataLength = n /\ z.lStreamPos = position
      /\ z.bOutstanding = FALSE /\ z.bAcked = FALSE /\ Start(z) = Nxt(w) /\ Upto(z) = Nxt(w) + n
    <2>1. 0 \in 0 .. MaxTransmitCount /\ 0 \in 0 .. DuplicateAcks + 1
        BY TxAssumption
    <2>2. /\ z \in SegmentType /\ z.ulSequenceNumber = seq /\ z.lDataLength = n /\ z.lStreamPos = position
          /\ z.bOutstanding = FALSE /\ z.bAcked = FALSE
        BY <1>5, <2>1 DEF SegmentType
    <2> QED
        BY <2>2, <1>4 DEF Start, Upto, Nxt
<1>7. PICK new : new = Append(segs, z)
    OBVIOUS
<1>8. /\ new \in Seq(SegmentType) /\ Len(new) = L + 1 /\ new[L + 1] = z
      /\ \A i \in 1 .. L : new[i] = segs[i]
    BY <1>2, <1>3, <1>6, <1>7, AppendProperties
<1>9. PICK longer : longer = Append(queue, seq)
    OBVIOUS
<1>10. /\ longer \in Seq(SeqNumber) /\ Len(longer) = M + 1 /\ longer[M + 1] = seq
       /\ \A i \in 1 .. M : longer[i] = queue[i]
    BY <1>2, <1>3, <1>9, AppendProperties
<1>11. v = [w EXCEPT !.xTxSegments = new, !.xTxQueue = longer, !.ulNextTxSequenceNumber = SeqAdd(@, n),
                     !.pxHeadSegment = IF n < MSS THEN seq ELSE NoSegment]
    BY <1>1, <1>2, <1>4, <1>5, <1>7, <1>9 DEF NewSegment, WindowType
<1>12. n \in Nat /\ SeqAdd(w.ulNextTxSequenceNumber, n) \in SeqNumber
       /\ Position(SeqAdd(w.ulNextTxSequenceNumber, n)) = Nxt(w) + n
    BY <1>2, PositionAdd, Constants DEF Nxt
<1>13. /\ v \in WindowType /\ v.xTxSegments = new /\ Cur(v) = Cur(w) /\ High(v) = High(w) /\ Nxt(v) = Nxt(w) + n
       /\ v.pxHeadSegment \in {seq, NoSegment} /\ v.xTxQueue = longer
       /\ v.xPriorityQueue = w.xPriorityQueue /\ v.xWaitQueue = w.xWaitQueue
    <2>1. /\ v \in WindowType /\ v.xTxSegments = new
          /\ v.ulCurrentSequenceNumber = w.ulCurrentSequenceNumber
          /\ v.ulHighestSequenceNumber = w.ulHighestSequenceNumber
          /\ v.ulNextTxSequenceNumber = SeqAdd(w.ulNextTxSequenceNumber, n)
          /\ v.pxHeadSegment \in {seq, NoSegment} /\ v.xTxQueue = longer
          /\ v.xPriorityQueue = w.xPriorityQueue /\ v.xWaitQueue = w.xWaitQueue
        BY <1>2, <1>8, <1>10, <1>11, <1>12 DEF WindowType
    <2> QED
        BY <2>1, <1>12 DEF Cur, High, Nxt
<1>14. Tiled(new, Cur(w), Nxt(w) + n) /\ Flying(new) = Flying(segs)
    <2>1. Cur(w) <= Nxt(w)
        BY <1>2
    <2> QED
        BY <2>1, <1>2, <1>3, <1>6, <1>8, OneMore
<1>15. Unsent(new, longer, High(w), Nxt(w) + n)
    <2>1. /\ M <= L
          /\ \A j \in 1 .. M : queue[j] = segs[L - M + j].ulSequenceNumber
          /\ \A i \in 1 .. L : segs[i].bOutstanding <=> i <= L - M
          /\ \A i \in 1 .. L : segs[i].bAcked => segs[i].bOutstanding
          /\ M # 0 => Start(segs[L - M + 1]) = High(w)
          /\ M = 0 => High(w) = Nxt(w)
        BY <1>2, <1>3 DEF Unsent
    <2>2. L + 1 - (M + 1) = L - M /\ L - M \in Nat /\ L - M <= L
        BY <2>1
    <2>3. ASSUME NEW j \in 1 .. M + 1
          PROVE  longer[j] = new[L - M + j].ulSequenceNumber
        <3>1. CASE j \in 1 .. M
            <4>1. L - M + j \in 1 .. L
                BY <3>1, <2>1
            <4> QED
                BY <3>1, <4>1, <2>1, <1>8, <1>10
        <3>2. CASE j = M + 1
            <4>1. L - M + j = L + 1
                BY <3>2
            <4> QED
                BY <3>2, <4>1, <1>6, <1>8, <1>10
        <3> QED
            BY <3>1, <3>2
    <2>4. ASSUME NEW i \in 1 .. L + 1
          PROVE  (new[i].bOutstanding <=> i <= L - M) /\ (new[i].bAcked => new[i].bOutstanding)
        <3>1. CASE i \in 1 .. L
            BY <3>1, <2>1, <1>8
        <3>2. CASE i = L + 1
            BY <3>2, <2>1, <1>6, <1>8
        <3> QED
            BY <3>1, <3>2
    <2>5. Start(new[L - M + 1]) = High(w)
        <3>1. CASE M = 0
            <4>1. L - M + 1 = L + 1
                BY <3>1
            <4> QED
                BY <3>1, <4>1, <2>1, <1>6, <1>8
        <3>2. CASE M # 0
            <4>1. L - M + 1 \in 1 .. L
                BY <3>2, <2>1
            <4> QED
                BY <3>2, <4>1, <2>1, <1>8
        <3> QED
            BY <3>1, <3>2
    <2> QED
        BY <2>1, <2>2, <2>3, <2>4, <2>5, <1>8, <1>10 DEF Unsent
<1>16. HeadFits(new, v.pxHeadSegment)
    BY <1>6, <1>8, <1>13 DEF HeadFits
<1>17. WindowOK(v)
    <2>1. Cur(v) <= High(v) /\ High(v) <= Nxt(v) /\ Nxt(v) <= MaxBytes
        BY <1>2, <1>12, <1>13
    <2>2. InFlight(new, v.xPriorityQueue, v.xWaitQueue)
        BY <1>2, <1>13, <1>14 DEF InFlight
    <2>3. Tiled(v.xTxSegments, Cur(v), Nxt(v)) /\ Unsent(v.xTxSegments, v.xTxQueue, High(v), Nxt(v))
          /\ InFlight(v.xTxSegments, v.xPriorityQueue, v.xWaitQueue) /\ HeadFits(v.xTxSegments, v.pxHeadSegment)
        BY <2>2, <1>13, <1>14, <1>15, <1>16, Zenon
    <2> QED
        BY <2>1, <2>3, <1>13 DEF WindowOK
<1>18. Keeps(w, v)
    <2>1. \A i \in 1 .. L + 1 : new[i].bAcked => i <= L /\ new[i] = segs[i]
        <3>1. \A i \in 1 .. L + 1 : i \in 1 .. L \/ i = L + 1
            OBVIOUS
        <3> QED
            BY <3>1, <1>6, <1>8
    <2> QED
        BY <2>1, <1>1, <1>2, <1>3, <1>8, <1>13 DEF Keeps
<1>19. ASSUME NEW tail, NEW a, Placed(segs, tail, a), position = Wrap(tail + (Nxt(w) - a))
       PROVE  Placed(new, tail, a)
    <2>1. \A i \in 1 .. L + 1 : i \in 1 .. L \/ i = L + 1
        OBVIOUS
    <2>2. \A i \in 1 .. L : segs[i].lStreamPos = Wrap(tail + (Start(segs[i]) - a))
        BY <1>3, <1>19 DEF Placed
    <2>3. \A i \in 1 .. L + 1 : new[i].lStreamPos = Wrap(tail + (Start(new[i]) - a))
        BY <2>1, <2>2, <1>6, <1>8, <1>19
    <2> QED
        BY <2>3, <1>8 DEF Placed
<1> QED
    BY <1>1, <1>3, <1>8, <1>13, <1>17, <1>18, <1>19 DEF Adds

\* The loop of lTCPWindowTxAdd() for the window w, if the bytes up to position
\* `total' lie from the tail on and `pool' descriptors are free or w's.
AddOK(a, w, tail, total, pool) ==
    /\ a \in [window : WindowType, left : Nat, position : Index, free : Nat]
    /\ WindowOK(a.window) /\ Keeps(w, a.window) /\ High(a.window) = High(w)
    /\ Placed(a.window.xTxSegments, tail, Cur(w))
    /\ Nxt(w) <= Nxt(a.window) /\ Nxt(a.window) + a.left = total
    /\ a.position = Wrap(tail + (Nxt(a.window) - Cur(w)))
    /\ a.free + Len(a.window.xTxSegments) = pool

LEMMA AddSegmentOK ==
    ASSUME NEW w, WindowOK(w), NEW tail \in Index, NEW total \in Nat, total <= MaxBytes,
           total <= Cur(w) + LENGTH - 1, NEW pool \in Nat,
           NEW a, AddOK(a, w, tail, total, pool), NEW b, b = AddSegment(a)
    PROVE  AddOK(b, w, tail, total, pool)
<1>1. CASE a.left = 0 \/ a.free = 0
    BY <1>1 DEF AddSegment
<1>2. CASE ~(a.left = 0 \/ a.free = 0)
    <2>1. PICK u : u = a.window
        OBVIOUS
    <2>2. /\ a.left \in Nat /\ a.left # 0 /\ a.free \in Nat /\ a.free # 0 /\ a.position \in Index
          /\ WindowOK(u) /\ Keeps(w, u) /\ High(u) = High(w) /\ Placed(u.xTxSegments, tail, Cur(w))
          /\ Nxt(u) + a.left = total /\ a.position = Wrap(tail + (Nxt(u) - Cur(w)))
          /\ a.free + Len(u.xTxSegments) = pool /\ Nxt(w) <= Nxt(u)
        BY <2>1, <1>2 DEF AddOK
    <2>3. Nxt(u) \in Nat /\ Cur(w) \in Nat /\ Cur(u) = Cur(w) /\ Cur(u) <= Nxt(u) /\ Len(u.xTxSegments) \in Nat
        <3>1. /\ Nxt(u) \in Nat /\ Cur(w) \in Nat /\ Cur(u) = Cur(w) /\ Len(u.xTxSegments) \in Nat
              /\ Cur(u) \in Nat /\ High(u) \in Nat /\ Cur(u) <= High(u) /\ High(u) <= Nxt(u)
            BY <2>2, WindowFields DEF WindowOK, Keeps
        <3> QED
            BY <3>1
    <2>4. PICK n \in 1 .. MSS : n = Least(MSS, a.left)
        BY <2>2, Constants DEF Least
    <2>5. n \in Nat /\ n <= a.left /\ Nxt(u) + n <= MaxBytes
        BY <2>2, <2>3, <2>4, Constants DEF Least
    <2>6. PICK v : v = NewSegment(u, n, a.position)
        OBVIOUS
    <2>7. /\ Adds(u, v, n) /\ Len(v.xTxSegments) = Len(u.xTxSegments) + 1
          /\ Placed(v.xTxSegments, tail, Cur(w))
        BY <2>2, <2>5, <2>6, NewSegmentOK
    <2>8. b = [a EXCEPT !.window = v, !.left = @ - n, !.position = Wrap(@ + n), !.free = @ - 1]
        BY <1>2, <2>1, <2>4, <2>6 DEF AddSegment
    <2>9. PICK d \in Nat : d = Nxt(u) - Cur(w)
        BY <2>3
    <2>10. /\ Wrap(a.position + n) = Wrap(tail + (d + n)) /\ Wrap(a.position + n) \in Index
        <3>1. d + n < LENGTH
            BY <2>2, <2>3, <2>5, <2>9, Constants
        <3> QED
            BY <3>1, <2>2, <2>5, <2>9, WrapTwice
    <2>11. /\ b \in [window : WindowType, left : Nat, position : Index, free : Nat]
           /\ b.window = v /\ b.left = a.left - n /\ b.position = Wrap(tail + (d + n)) /\ b.free = a.free - 1
        <3>1. a.left - n \in Nat /\ a.free - 1 \in Nat /\ v \in WindowType
            BY <2>2, <2>5, <2>7 DEF Adds, WindowOK
        <3> QED
            BY <3>1, <2>8, <2>10 DEF AddOK
    <2>12. d + n = Nxt(v) - Cur(w) /\ Nxt(v) + (a.left - n) = total /\ Nxt(w) <= Nxt(v)
        <3>1. Nxt(w) \in Nat
            BY WindowFields DEF WindowOK
        <3>2. Nxt(v) = Nxt(u) + n
            BY <2>7 DEF Adds
        <3> QED
            BY <3>1, <2>2, <2>3, <2>5, <2>9, <3>2
    <2>13. Keeps(w, v) /\ WindowOK(v) /\ High(v) = High(w)
        BY <2>2, <2>7, KeepsOnward DEF Adds
    <2>14. (a.free - 1) + Len(v.xTxSegments) = pool
        <3>1. (a.free - 1) + Len(v.xTxSegments) = (a.free - 1) + (Len(u.xTxSegments) + 1)
            BY <2>7, Zenon
        <3>2. (a.free - 1) + (Len(u.xTxSegments) + 1) = a.free + Len(u.xTxSegments)
            BY <2>2, <2>3
        <3> QED
            BY <3>1, <3>2, <2>2, Zenon
    <2> QED
        BY <2>7, <2>11, <2>12, <2>13, <2>14 DEF AddOK
<1> QED
    BY <1>1, <1>2

LEMMA TxAddOK ==
    ASSUME NEW w, WindowOK(w), NEW tail \in Index, NEW length \in Nat, NEW free \in Nat, NEW position \in Index,
           Nxt(w) + length <= MaxBytes, Nxt(w) + length <= Cur(w) + LENGTH - 1,
           Placed(w.xTxSegments, tail, Cur(w)), position = Wrap(tail + (Nxt(w) - Cur(w))),
           NEW b, b = TxAdd(w, length, position, free)
    PROVE  AddOK(b, w, tail, Nxt(w) + length, free + Len(w.xTxSegments))
<1> DEFINE first == Least(length, FrontRoom(w))
<1> DEFINE base == [window |-> FillFront(w, first), left |-> length - first,
                    position |-> Wrap(position + first), free |-> free]
<1> DEFINE loop == CHOOSE g : g = [n \in 0 .. length |-> IF n = 0 THEN base ELSE AddSegment(g[n - 1])]
<1> DEFINE total == Nxt(w) + length
<1> DEFINE pool == free + Len(w.xTxSegments)
<1>0. /\ Nxt(w) \in Nat /\ Cur(w) \in Nat /\ Len(w.xTxSegments) \in Nat /\ Cur(w) <= Nxt(w)
      /\ total \in Nat /\ pool \in Nat /\ High(w) \in Nat
    <2>1. /\ Nxt(w) \in Nat /\ Cur(w) \in Nat /\ Len(w.xTxSegments) \in Nat /\ High(w) \in Nat
          /\ Cur(w) <= High(w) /\ High(w) <= Nxt(w)
        BY WindowFields DEF WindowOK
    <2> QED
        BY <2>1
<1>1. b = loop[length]
    BY Zenon DEF TxAdd
<1>2. PICK f : Runs("add", length, base, length, f)
    <2> HIDE DEF base
    <2> QED
        BY RunExists
<1>3. \A n, x : Turn("add", length, x, n) = AddSegment(x)
    BY DEF Turn
<1>4. f = [n \in 0 .. length |-> IF n = 0 THEN base ELSE AddSegment(f[n - 1])]
    <2>1. f = [n \in 0 .. length |-> IF n = 0 THEN base ELSE Turn("add", length, f[n - 1], n)]
        BY <1>2, Zenon DEF Runs
    <2> HIDE DEF base
    <2> QED
        BY <2>1, <1>3
<1>5. loop = [n \in 0 .. length |-> IF n = 0 THEN base ELSE AddSegment(loop[n - 1])]
    BY <1>4, Zenon
<1>6. /\ loop[0] = base
      /\ \A i \in 1 .. length : loop[i] = AddSegment(loop[i - 1])
    <2> HIDE DEF base, loop
    <2>1. loop = [n \in 0 .. length |-> IF n = 0 THEN base ELSE Turn("add", length, loop[n - 1], n)]
        BY <1>3, <1>5
    <2>2. Runs("add", length, base, length, loop)
        BY <2>1, Zenon DEF Runs
    <2>3. loop[0] = base /\ \A i \in 1 .. length : loop[i] = Turn("add", length, loop[i - 1], i)
        BY <2>2, RunSteps
    <2> QED
        BY <2>3, <1>3
<1>7. AddOK(base, w, tail, total, pool)
    <2>1. first \in Nat /\ first <= length /\ first <= FrontRoom(w)
        BY FrontRoomValue DEF Least
    <2>2. PICK v : v = FillFront(w, first)
        OBVIOUS
    <2> HIDE DEF first
    <2>3. /\ Adds(w, v, first) /\ Len(v.xTxSegments) = Len(w.xTxSegments)
          /\ Placed(v.xTxSegments, tail, Cur(w))
        <3>1. Nxt(w) + first <= MaxBytes
            BY <1>0, <2>1, Constants
        <3> QED
            BY <3>1, <2>1, <2>2, FillFrontOK
    <2>4. PICK d \in Nat : d = Nxt(w) - Cur(w)
        BY <1>0
    <2>5. Wrap(position + first) = Wrap(tail + (d + first)) /\ Wrap(position + first) \in Index
        <3>1. d + first < LENGTH
            BY <1>0, <2>1, <2>4, Constants
        <3> QED
            BY <3>1, <2>1, <2>4, WrapTwice
    <2>6. /\ base \in [window : WindowType, left : Nat, position : Index, free : Nat]
          /\ base.window = v /\ base.left = length - first /\ base.position = Wrap(tail + (d + first))
          /\ base.free = free
        <3>1. length - first \in Nat /\ v \in WindowType
            BY <2>1, <2>3 DEF Adds, WindowOK
        <3> QED
            BY <3>1, <2>2, <2>5
    <2> HIDE DEF base
    <2>7. d + first = Nxt(v) - Cur(w) /\ Nxt(v) + (length - first) = total /\ Nxt(w) <= Nxt(v)
        BY <1>0, <2>1, <2>3, <2>4 DEF Adds
    <2>8. WindowOK(v) /\ Keeps(w, v) /\ High(v) = High(w)
        BY <2>3 DEF Adds
    <2>9. free + Len(v.xTxSegments) = pool
        BY <2>3
    <2> HIDE DEF total, pool
    <2> QED
        BY <2>3, <2>6, <2>7, <2>8, <2>9 DEF AddOK
<1> DEFINE good == {n \in 0 .. length : AddOK(loop[n], w, tail, total, pool)}
<1>8. total <= MaxBytes /\ total <= Cur(w) + LENGTH - 1
    OBVIOUS
<1> HIDE DEF base, loop, total, pool
<1>9. 0 \in good
    BY <1>6, <1>7
<1>10. ASSUME NEW i \in 1 .. length, i - 1 \in good
       PROVE  i \in good
    <2>1. AddOK(loop[i - 1], w, tail, total, pool) /\ loop[i] = AddSegment(loop[i - 1])
        BY <1>6, <1>10
    <2>2. AddOK(loop[i], w, tail, total, pool)
        BY <2>1, <1>0, <1>8, AddSegmentOK
    <2> QED
        BY <2>2
<1>11. \A i \in 0 .. length : i \in good
    <2> HIDE DEF good
    <2> QED
        BY <1>9, <1>10, Induction
<1> QED
    BY <1>1, <1>11 DEF total, pool

LEMMA AddTxDataOK ==
    ASSUME NEW got, NEW c, ContextOK(c, got), NEW d, d = AddTxData(c)
    PROVE  ContextOK(d, got) /\ Sends(c, d)
<1>1. PICK w, stream : w = c.window /\ stream = c.stream
    OBVIOUS
<1>2. /\ c \in ContextType /\ WindowOK(w) /\ Matches(w, stream) /\ PoolOK(c.free, w.xTxSegments)
      /\ \A packet \in c.packets : PacketOK(packet, High(w))
      /\ PeerHas(w, got) /\ c.free \in Nat
    BY <1>1 DEF ContextOK, ContextType
<1>3. /\ stream \in StreamType /\ stream.tail \in Index /\ stream.head \in Index /\ stream.mid \in Index
      /\ Placed(w.xTxSegments, stream.tail, Cur(w))
      /\ Distance(stream.tail, stream.mid) = Nxt(w) - Cur(w)
      /\ Distance(stream.tail, stream.mid) <= Distance(stream.tail, stream.head)
      /\ Cur(w) + Distance(stream.tail, stream.head) <= MaxBytes
    BY <1>2 DEF Matches, StreamHolds, StreamType
<1>4. /\ Nxt(w) \in Nat /\ Cur(w) \in Nat /\ Len(w.xTxSegments) \in Nat /\ Cur(w) <= Nxt(w) /\ High(w) \in Nat
    <2>1. /\ Nxt(w) \in Nat /\ Cur(w) \in Nat /\ Len(w.xTxSegments) \in Nat /\ High(w) \in Nat
          /\ Cur(w) <= High(w) /\ High(w) <= Nxt(w)
        BY <1>2, WindowFields DEF WindowOK
    <2> QED
        BY <2>1
<1>5. PICK size \in 0 .. LENGTH - 1 : size = Distance(stream.tail, stream.head)
    BY <1>3, DistanceIn
<1>6. PICK ready \in Nat : ready = Nxt(w) - Cur(w)
    BY <1>4
<1>7. PICK length \in Nat : length = size - ready
    <2>1. ready <= size
        BY <1>3, <1>5, <1>6
    <2> QED
        BY <2>1, <1>5, <1>6, Constants
<1>8. Distance(stream.mid, stream.head) = length
    BY <1>3, <1>5, <1>6, <1>7, DistanceRest
<1>9. stream.mid = Wrap(stream.tail + ready)
    BY <1>3, <1>6, DistanceIn
<1>10. PICK b : b = TxAdd(w, length, stream.mid, c.free)
    OBVIOUS
<1>11. AddOK(b, w, stream.tail, Nxt(w) + length, c.free + Len(w.xTxSegments))
    <2>1. Nxt(w) + length <= MaxBytes /\ Nxt(w) + length <= Cur(w) + LENGTH - 1
        <3>1. Nxt(w) = Cur(w) + ready /\ ready + length = size
            BY <1>4, <1>5, <1>6, <1>7
        <3>2. Nxt(w) + length = Cur(w) + size /\ Cur(w) + size <= MaxBytes
            BY <3>1, <1>3, <1>4, <1>5
        <3> QED
            BY <3>2, <1>4, <1>5, Constants
    <2> QED
        BY <2>1, <1>2, <1>3, <1>6, <1>9, <1>10, TxAddOK
<1>12. PICK v : v = b.window
    OBVIOUS
<1>13. /\ v \in WindowType /\ b.left \in Nat /\ b.free \in Nat /\ WindowOK(v) /\ Keeps(w, v) /\ High(v) = High(w)
       /\ Placed(v.xTxSegments, stream.tail, Cur(w)) /\ Nxt(v) + b.left = Nxt(w) + length
       /\ b.free + Len(v.xTxSegments) = c.free + Len(w.xTxSegments)
       /\ Cur(v) = Cur(w) /\ Nxt(v) \in Nat /\ Nxt(w) <= Nxt(v) /\ Len(v.xTxSegments) \in Nat
    <2>1. /\ v \in WindowType /\ b.left \in Nat /\ b.free \in Nat /\ WindowOK(v) /\ Keeps(w, v) /\ High(v) = High(w)
          /\ Placed(v.xTxSegments, stream.tail, Cur(w)) /\ Nxt(v) + b.left = Nxt(w) + length
          /\ b.free + Len(v.xTxSegments) = c.free + Len(w.xTxSegments) /\ Nxt(w) <= Nxt(v)
        BY <1>11, <1>12 DEF AddOK
    <2> QED
        BY <2>1, WindowFields DEF WindowOK, Keeps
<1>14. PICK taken \in Nat : taken = Nxt(v) - Nxt(w)
    <2>1. Nxt(v) \in Nat /\ Nxt(w) \in Nat /\ Nxt(w) <= Nxt(v)
        BY <1>4, <1>13
    <2>2. Nxt(v) - Nxt(w) \in Nat
        BY <2>1
    <2> QED
        BY <2>2
<1>15. taken <= length /\ length - b.left = taken /\ ready + taken <= size /\ ready + taken = Nxt(v) - Cur(w)
    <2>1. taken + b.left = length
        <3>1. /\ Nxt(v) \in Nat /\ Nxt(w) \in Nat /\ b.left \in Nat /\ Nxt(v) + b.left = Nxt(w) + length
              /\ taken = Nxt(v) - Nxt(w)
            BY <1>4, <1>13, <1>14
        <3> QED
            BY <3>1
    <2> QED
        <3>1. taken <= length /\ length - b.left = taken
            BY <2>1, <1>13
        <3>2. ready + taken <= size
            BY <3>1, <1>5, <1>6, <1>7
        <3>3. ready + taken = Nxt(v) - Cur(w)
            BY <1>4, <1>6, <1>13, <1>14
        <3> QED
            BY <3>1, <3>2, <3>3
<1>16. PICK mid : mid = MovedMid(stream, length - b.left)
    OBVIOUS
<1>17. mid \in Index /\ Distance(stream.tail, mid) = Nxt(v) - Cur(w)
    <2>1. mid = Wrap(stream.mid + taken)
        BY <1>8, <1>15, <1>16 DEF MovedMid, Least
    <2>2. Distance(stream.tail, stream.mid) + taken <= LENGTH - 1
        BY <1>3, <1>5, <1>6, <1>15, Constants
    <2>3. mid \in Index /\ Distance(stream.tail, mid) = Distance(stream.tail, stream.mid) + taken
        BY <2>1, <2>2, <1>3, DistanceGrows
    <2> QED
        BY <2>3, <1>3, <1>6, <1>15
<1>18. d = [c EXCEPT !.window = v, !.free = b.free, !.stream.mid = mid]
    BY <1>1, <1>8, <1>10, <1>12, <1>16 DEF AddTxData
<1>19. PICK moved : moved = [stream EXCEPT !.mid = mid]
    OBVIOUS
<1>20. /\ moved \in StreamType /\ moved.array = stream.array /\ moved.head = stream.head
       /\ moved.tail = stream.tail /\ moved.mid = mid
    BY <1>3, <1>17, <1>19 DEF StreamType
<1>21. /\ d \in ContextType /\ d.window = v /\ d.stream = moved /\ d.windowSize = c.windowSize
       /\ d.free = b.free /\ d.packets = c.packets
    BY <1>1, <1>2, <1>13, <1>18, <1>19, <1>20 DEF ContextType
<1>22. Matches(v, moved)
    <2>1. StreamHolds(moved, Cur(v))
        BY <1>2, <1>13, <1>20 DEF Matches, StreamHolds
    <2>2. Nxt(v) - Cur(w) <= size
        BY <1>15
    <2> QED
        BY <2>1, <2>2, <1>5, <1>13, <1>17, <1>20 DEF Matches
<1>23. PoolOK(d.free, v.xTxSegments)
    BY <1>2, <1>4, <1>13, <1>21 DEF PoolOK
<1>24. PeerHas(v, got)
    BY <1>2, <1>13, KeepsPeerHas
<1>25. ContextOK(d, got)
    BY <1>2, <1>13, <1>21, <1>22, <1>23, <1>24 DEF ContextOK
<1>26. \A e \in Int : Bounded(w, c.windowSize, e) => Bounded(v, c.windowSize, e)
    BY <1>13 DEF Bounded
<1> QED
    BY <1>1, <1>13, <1>21, <1>25, <1>26 DEF Sends

-----------------------------------------------------------------------------
(* Acknowledgements *)

\* Without its first segment the rest still lies in order.
LEMMA FirstGone ==
    ASSUME NEW segs \in Seq(SegmentType), NEW a \in Nat, NEW e \in Nat, Tiled(segs, a, e), segs # << >>,
           NEW new \in Seq(SegmentType), new = Tail(segs)
    PROVE  /\ 1 \in 1 .. Len(segs) /\ Len(new) = Len(segs) - 1
           /\ \A i \in 1 .. Len(new) : i + 1 \in 1 .. Len(segs) /\ new[i] = segs[i + 1]
           /\ Start(segs[1]) = a
           /\ Tiled(new, Upto(segs[1]), e) /\ Flying(new) = Flying(segs) \ {segs[1].ulSequenceNumber}
<1>1. PICK L \in Nat : L = Len(new)
    BY LenProperties
<1>2. /\ Len(segs) = L + 1 /\ 1 \in 1 .. L + 1
      /\ \A i \in 1 .. L : i + 1 \in 1 .. L + 1 /\ new[i] = segs[i + 1]
    <2>1. Len(segs) \in Nat /\ Len(new) = Len(segs) - 1 /\ \A i \in 1 .. Len(new) : new[i] = segs[i + 1]
        BY HeadTailProperties, LenProperties
    <2>2. Len(segs) = L + 1
        BY <2>1, <1>1
    <2> QED
        BY <2>1, <2>2, <1>1
<1>3. Start(segs[1]) = a
    BY <1>2 DEF Tiled
<1>4. \A i \in 1 .. L : Upto(segs[1]) <= Start(new[i]) /\ Upto(new[i]) <= e
    <2> SUFFICES ASSUME NEW i \in 1 .. L PROVE Upto(segs[1]) <= Start(new[i]) /\ Upto(new[i]) <= e
        OBVIOUS
    <2>1. i + 1 \in 1 .. Len(segs) /\ 1 \in 1 .. Len(segs) /\ 1 < i + 1 /\ new[i] = segs[i + 1]
        BY <1>2
    <2> QED
        BY <2>1 DEF Tiled
<1>5. ASSUME NEW i \in 1 .. L, NEW j \in 1 .. L
      PROVE  /\ i < j => Upto(new[i]) <= Start(new[j])
             /\ j = i + 1 => Start(new[j]) = Upto(new[i])
    <2>1. /\ i + 1 \in 1 .. Len(segs) /\ j + 1 \in 1 .. Len(segs) /\ (i < j => i + 1 < j + 1)
          /\ (j = i + 1 => j + 1 = (i + 1) + 1) /\ new[i] = segs[i + 1] /\ new[j] = segs[j + 1]
        BY <1>2
    <2> QED
        BY <2>1 DEF Tiled
<1>6. L = 0 => Upto(segs[1]) = e
    BY <1>2 DEF Tiled
<1>7. ASSUME L # 0
      PROVE  Start(new[1]) = Upto(segs[1]) /\ Upto(new[L]) = e
    <2>1. /\ 1 \in 1 .. L /\ L \in 1 .. L /\ new[1] = segs[1 + 1] /\ new[L] = segs[L + 1]
          /\ 1 + 1 \in 1 .. Len(segs) /\ 1 \in 1 .. Len(segs)
        BY <1>2, <1>7
    <2>2. Start(segs[1 + 1]) = Upto(segs[1])
        BY <2>1 DEF Tiled
    <2>3. Upto(segs[L + 1]) = e
        BY <1>2 DEF Tiled
    <2> QED
        BY <2>1, <2>2, <2>3
<1>8. Tiled(new, Upto(segs[1]), e)
    BY <1>1, <1>4, <1>5, <1>6, <1>7 DEF Tiled
<1>9. ASSUME NEW x
      PROVE  x \in Flying(new) <=> x \in Flying(segs) /\ x # segs[1].ulSequenceNumber
    <2>1. x \in Flying(new) <=> \E i \in 1 .. L :
             x = new[i].ulSequenceNumber /\ new[i].bOutstanding /\ ~new[i].bAcked
        BY <1>1 DEF Flying
    <2>2. x \in Flying(segs) <=> \E i \in 1 .. L + 1 :
             x = segs[i].ulSequenceNumber /\ segs[i].bOutstanding /\ ~segs[i].bAcked
        BY <1>2 DEF Flying
    <2>3. \A i \in 1 .. L : segs[i + 1].ulSequenceNumber # segs[1].ulSequenceNumber
        <3> SUFFICES ASSUME NEW i \in 1 .. L PROVE segs[i + 1].ulSequenceNumber # segs[1].ulSequenceNumber
            OBVIOUS
        <3>1. i + 1 \in 1 .. Len(segs) /\ 1 \in 1 .. Len(segs) /\ i + 1 # 1
            BY <1>2
        <3> QED
            BY <3>1, Apart
    <2>4. ASSUME x \in Flying(segs), x # segs[1].ulSequenceNumber
          PROVE  x \in Flying(new)
        <3>1. PICK j \in 1 .. L + 1 : x = segs[j].ulSequenceNumber /\ segs[j].bOutstanding /\ ~segs[j].bAcked
            BY <2>2, <2>4
        <3>2. j - 1 \in 1 .. L /\ j - 1 + 1 = j
            BY <3>1, <2>4
        <3>3. new[j - 1] = segs[j]
            BY <3>2, <1>2
        <3> QED
            BY <3>1, <3>2, <3>3, <2>1
    <2>5. x \in Flying(new) => x \in Flying(segs) /\ x # segs[1].ulSequenceNumber
        BY <2>1, <2>2, <2>3, <1>2
    <2> QED
        BY <2>4, <2>5
<1> QED
    BY <1>1, <1>2, <1>3, <1>8, <1>9

LEMMA FreeFirstOK ==
    ASSUME NEW w, WindowOK(w), w.xTxSegments # << >>, w.xTxSegments[1].bOutstanding, NEW v, v = FreeFirst(w)
    PROVE  /\ WindowOK(v) /\ v.xTxSegments = Tail(w.xTxSegments)
           /\ Cur(v) = Upto(w.xTxSegments[1]) /\ High(v) = High(w) /\ Nxt(v) = Nxt(w)
<1>1. PICK segs, queue : segs = w.xTxSegments /\ queue = w.xTxQueue
    OBVIOUS
<1>2. /\ w \in WindowType /\ segs \in Seq(SegmentType) /\ queue \in Seq(SeqNumber) /\ segs # << >>
      /\ Cur(w) \in Nat /\ High(w) \in Nat /\ Nxt(w) \in Nat /\ Nxt(w) <= MaxBytes
      /\ w.ulCurrentSequenceNumber \in SeqNumber
      /\ Tiled(segs, Cur(w), Nxt(w)) /\ HeadFits(segs, w.pxHeadSegment) /\ High(w) <= Nxt(w)
      /\ Unsent(segs, queue, High(w), Nxt(w)) /\ InFlight(segs, w.xPriorityQueue, w.xWaitQueue)
      /\ Distinct(w.xPriorityQueue) /\ Distinct(w.xWaitQueue) /\ Distinct(queue)
      /\ w.xPriorityQueue \in Seq(SeqNumber) /\ w.xWaitQueue \in Seq(SeqNumber)
    BY <1>1, WindowFields, TxQueueEntry DEF WindowOK, InFlight
<1>3. PICK s : s = segs[1]
    OBVIOUS
<1>4. PICK new \in Seq(SegmentType) : new = Tail(segs)
    BY <1>2, HeadTailProperties
<1>5. /\ 1 \in 1 .. Len(segs) /\ Len(new) = Len(segs) - 1
      /\ \A i \in 1 .. Len(new) : i + 1 \in 1 .. Len(segs) /\ new[i] = segs[i + 1]
      /\ Start(s) = Cur(w)
      /\ Tiled(new, Upto(s), Nxt(w)) /\ Flying(new) = Flying(segs) \ {s.ulSequenceNumber}
    BY <1>2, <1>3, <1>4, FirstGone
<1>6. /\ s \in SegmentType /\ s.bOutstanding /\ s.ulSequenceNumber \in SeqNumber /\ s.lDataLength \in Nat
      /\ Upto(s) = Start(s) + s.lDataLength /\ Upto(s) \in Nat
      /\ Upto(s) <= High(w) /\ s.ulSequenceNumber \notin ToSet(queue)
    BY <1>1, <1>2, <1>3, <1>5, SegmentEntry, SentBelow, TxQueueEntry
<1>7. PICK seq : seq = s.ulSequenceNumber
    OBVIOUS
<1>8. /\ RemoveFirst(w.xWaitQueue, seq) \in Seq(SeqNumber)
      /\ Distinct(RemoveFirst(w.xWaitQueue, seq))
      /\ ToSet(RemoveFirst(w.xWaitQueue, seq)) = ToSet(w.xWaitQueue) \ {seq}
      /\ Distinct(RemoveFirst(w.xPriorityQueue, seq))
      /\ ToSet(RemoveFirst(w.xPriorityQueue, seq)) = ToSet(w.xPriorityQueue) \ {seq}
      /\ RemoveFirst(queue, seq) = queue
    BY <1>2, <1>6, <1>7, Removed
<1>9. PICK u : u = Unlink(w, seq)
    OBVIOUS
<1>10. Head(segs) = s
    BY <1>2, <1>3
<1>11. v = [u EXCEPT !.xTxSegments = Tail(@), !.ulCurrentSequenceNumber = SeqAdd(@, s.lDataLength)]
    BY <1>1, <1>7, <1>9, <1>10 DEF FreeFirst
<1>12. SeqAdd(w.ulCurrentSequenceNumber, s.lDataLength) \in SeqNumber
       /\ Position(SeqAdd(w.ulCurrentSequenceNumber, s.lDataLength)) = Upto(s)
    <2>1. Position(w.ulCurrentSequenceNumber) + s.lDataLength <= MaxBytes
        BY <1>2, <1>5, <1>6, Constants DEF Cur
    <2> QED
        BY <2>1, <1>2, <1>5, <1>6, PositionAdd DEF Cur
<1>13. /\ v \in WindowType /\ v.xTxSegments = new /\ Cur(v) = Upto(s) /\ High(v) = High(w) /\ Nxt(v) = Nxt(w)
       /\ v.pxHeadSegment = w.pxHeadSegment /\ v.xTxQueue = queue
       /\ v.xPriorityQueue = RemoveFirst(w.xPriorityQueue, seq) /\ v.xWaitQueue = RemoveFirst(w.xWaitQueue, seq)
    <2>1. /\ u \in WindowType /\ u.xTxSegments = segs
          /\ u.ulCurrentSequenceNumber = w.ulCurrentSequenceNumber
          /\ u.ulHighestSequenceNumber = w.ulHighestSequenceNumber
          /\ u.ulNextTxSequenceNumber = w.ulNextTxSequenceNumber
          /\ u.pxHeadSegment = w.pxHeadSegment /\ u.xTxQueue = queue
          /\ u.xPriorityQueue = RemoveFirst(w.xPriorityQueue, seq) /\ u.xWaitQueue = RemoveFirst(w.xWaitQueue, seq)
        BY <1>1, <1>2, <1>8, <1>9, UnlinkFields
    <2>2. /\ v \in WindowType /\ v.xTxSegments = new
          /\ v.ulCurrentSequenceNumber = SeqAdd(w.ulCurrentSequenceNumber, s.lDataLength)
          /\ v.ulHighestSequenceNumber = w.ulHighestSequenceNumber
          /\ v.ulNextTxSequenceNumber = w.ulNextTxSequenceNumber
          /\ v.pxHeadSegment = w.pxHeadSegment /\ v.xTxQueue = queue
          /\ v.xPriorityQueue = RemoveFirst(w.xPriorityQueue, seq) /\ v.xWaitQueue = RemoveFirst(w.xWaitQueue, seq)
        BY <2>1, <1>4, <1>11, <1>12 DEF WindowType
    <2> QED
        BY <2>2, <1>12 DEF Cur, High, Nxt
<1>14. PICK L \in Nat, M \in Nat : L = Len(new) /\ M = Len(queue)
    BY <1>2, LenProperties
<1>15. Len(segs) = L + 1
    <2>1. Len(segs) \in Nat
        BY <1>2, LenProperties
    <2> QED
        BY <2>1, <1>5, <1>14
<1>16. Unsent(new, queue, High(w), Nxt(w))
    <2>1. /\ M <= L + 1
          /\ \A j \in 1 .. M : queue[j] = segs[L + 1 - M + j].ulSequenceNumber
          /\ \A i \in 1 .. L + 1 : segs[i].bOutstanding <=> i <= L + 1 - M
          /\ \A i \in 1 .. L + 1 : segs[i].bAcked => segs[i].bOutstanding
          /\ M # 0 => Start(segs[L + 1 - M + 1]) = High(w)
          /\ M = 0 => High(w) = Nxt(w)
        BY <1>2, <1>14, <1>15 DEF Unsent
    <2>2. M <= L
        <3>1. 1 \in 1 .. L + 1
            OBVIOUS
        <3>2. 1 <= L + 1 - M
            BY <3>1, <2>1, <1>3, <1>6
        <3> QED
            BY <3>2
    <2>3. ASSUME NEW j \in 1 .. M
          PROVE  queue[j] = new[L - M + j].ulSequenceNumber
        <3>1. L - M + j \in 1 .. L /\ L - M + j + 1 = L + 1 - M + j
            BY <2>2
        <3>2. new[L - M + j] = segs[L - M + j + 1]
            BY <3>1, <1>5, <1>14
        <3> QED
            BY <3>1, <3>2, <2>1
    <2>4. ASSUME NEW i \in 1 .. L
          PROVE  (new[i].bOutstanding <=> i <= L - M) /\ (new[i].bAcked => new[i].bOutstanding)
        <3>1. i + 1 \in 1 .. L + 1 /\ new[i] = segs[i + 1] /\ (i + 1 <= L + 1 - M <=> i <= L - M)
            BY <1>5, <1>14
        <3> QED
            BY <3>1, <2>1
    <2>5. ASSUME M # 0
          PROVE  Start(new[L - M + 1]) = High(w)
        <3>1. L - M + 1 \in 1 .. L /\ L - M + 1 + 1 = L + 1 - M + 1
            BY <2>2, <2>5
        <3>2. new[L - M + 1] = segs[L - M + 1 + 1]
            BY <3>1, <1>5, <1>14
        <3> QED
            BY <3>1, <3>2, <2>1, <2>5
    <2> QED
        BY <2>1, <2>2, <2>3, <2>4, <2>5, <1>14 DEF Unsent
<1>17. InFlight(new, v.xPriorityQueue, v.xWaitQueue)
    BY <1>2, <1>5, <1>7, <1>8, <1>13 DEF InFlight
<1>18. HeadFits(new, v.pxHeadSegment)
    <2> SUFFICES ASSUME w.pxHeadSegment # NoSegment
                 PROVE  L # 0 /\ w.pxHeadSegment = new[L].ulSequenceNumber /\ ~new[L].bOutstanding
        BY <1>13, <1>14 DEF HeadFits
    <2>1. w.pxHeadSegment = segs[L + 1].ulSequenceNumber /\ ~segs[L + 1].bOutstanding
        BY <1>2, <1>15 DEF HeadFits
    <2>2. L # 0
        BY <2>1, <1>3, <1>6
    <2>3. L \in 1 .. L /\ new[L] = segs[L + 1]
        BY <2>2, <1>5, <1>14
    <2> QED
        BY <2>1, <2>2, <2>3
<1>19. WindowOK(v)
    <2>1. Cur(v) <= High(v) /\ High(v) <= Nxt(v) /\ Nxt(v) <= MaxBytes
        BY <1>2, <1>6, <1>13
    <2>2. Tiled(v.xTxSegments, Cur(v), Nxt(v)) /\ Unsent(v.xTxSegments, v.xTxQueue, High(v), Nxt(v))
          /\ InFlight(v.xTxSegments, v.xPriorityQueue, v.xWaitQueue) /\ HeadFits(v.xTxSegments, v.pxHeadSegment)
        BY <1>5, <1>13, <1>16, <1>17, <1>18, Zenon
    <2> QED
        BY <2>1, <2>2, <1>13 DEF WindowOK
<1> QED
    BY <1>1, <1>3, <1>4, <1>13, <1>19

LEMMA MarkAckedOK ==
    ASSUME NEW w, WindowOK(w), NEW k \in 1 .. Len(w.xTxSegments), NEW s, s = w.xTxSegments[k], s.bOutstanding,
           NEW v, v = MarkAcked(w, s)
    PROVE  /\ WindowOK(v) /\ Cur(v) = Cur(w) /\ High(v) = High(w) /\ Nxt(v) = Nxt(w)
           /\ SameLayout(w.xTxSegments, v.xTxSegments) /\ v.xTxSegments[k].bAcked
           /\ \A i \in 1 .. Len(w.xTxSegments) : i # k => v.xTxSegments[i] = w.xTxSegments[i]
<1>1. PICK segs, queue : segs = w.xTxSegments /\ queue = w.xTxQueue
    OBVIOUS
<1>2. /\ w \in WindowType /\ segs \in Seq(SegmentType) /\ queue \in Seq(SeqNumber) /\ Len(segs) \in Nat
      /\ DOMAIN segs = 1 .. Len(segs)
      /\ Cur(w) <= High(w) /\ High(w) <= Nxt(w) /\ Nxt(w) <= MaxBytes
      /\ Tiled(segs, Cur(w), Nxt(w)) /\ HeadFits(segs, w.pxHeadSegment)
      /\ Unsent(segs, queue, High(w), Nxt(w)) /\ InFlight(segs, w.xPriorityQueue, w.xWaitQueue)
      /\ Distinct(w.xPriorityQueue) /\ Distinct(w.xWaitQueue) /\ Distinct(queue)
      /\ w.xPriorityQueue \in Seq(SeqNumber) /\ w.xWaitQueue \in Seq(SeqNumber)
    BY <1>1, WindowFields, TxQueueEntry DEF WindowOK, InFlight
<1>3. CASE s.bAcked
    BY <1>1, <1>3 DEF MarkAcked, SameLayout
<1>4. CASE ~s.bAcked
    <2>1. k \in 1 .. Len(segs) /\ s = segs[k]
        BY <1>1
    <2>2. PICK seq : seq = s.ulSequenceNumber
        OBVIOUS
    <2>3. s \in SegmentType /\ seq \in SeqNumber /\ seq \notin ToSet(queue)
        BY <2>1, <2>2, <1>1, <1>2, SegmentEntry, TxQueueEntry
    <2>4. PICK z : z = [s EXCEPT !.bAcked = TRUE]
        OBVIOUS
    <2>5. /\ z \in SegmentType /\ z.ulSequenceNumber = seq /\ z.lDataLength = s.lDataLength
          /\ z.lStreamPos = s.lStreamPos /\ z.bOutstanding = s.bOutstanding /\ z.bAcked = TRUE
        BY <2>2, <2>3, <2>4 DEF SegmentType
    <2>6. PICK new : new = [segs EXCEPT ![k] = z]
        OBVIOUS
    <2>7. /\ new \in Seq(SegmentType) /\ Len(new) = Len(segs)
          /\ new[k] = z /\ \A i \in 1 .. Len(segs) : i # k => new[i] = segs[i]
        BY <2>1, <2>5, <2>6, <1>2, ExceptSeq
    <2>8. SameLayout(segs, new) /\ Flying(new) = Flying(segs) \ {seq}
        <3>1. /\ new[k].ulSequenceNumber = segs[k].ulSequenceNumber /\ new[k].lDataLength = segs[k].lDataLength
              /\ new[k].lStreamPos = segs[k].lStreamPos /\ ~(new[k].bOutstanding /\ ~new[k].bAcked)
            BY <2>1, <2>2, <2>5, <2>7
        <3>2. SameLayout(segs, new) /\ Flying(new) = Flying(segs) \ {segs[k].ulSequenceNumber}
            <4>1. /\ segs \in Seq(SegmentType) /\ Tiled(segs, Cur(w), Nxt(w)) /\ k \in 1 .. Len(segs)
                  /\ new \in Seq(SegmentType) /\ Len(new) = Len(segs)
                  /\ \A i \in 1 .. Len(segs) : i # k => new[i] = segs[i]
                BY <2>1, <2>7, <1>2
            <4> QED
                BY <3>1, <4>1, OneChanged
        <3> QED
            BY <3>2, <2>1, <2>2
    <2>9. [i \in DOMAIN segs |-> IF segs[i].ulSequenceNumber = seq
                                 THEN [segs[i] EXCEPT !.bAcked = TRUE] ELSE segs[i]] = new
        <3>1. [i \in DOMAIN segs |-> IF segs[i].ulSequenceNumber = segs[k].ulSequenceNumber
                                     THEN z ELSE segs[i]] = [segs EXCEPT ![k] = z]
            BY <2>1, <1>2, OneMatches
        <3>2. \A i \in DOMAIN segs : segs[i].ulSequenceNumber = seq => segs[i] = s
            <4> SUFFICES ASSUME NEW i \in 1 .. Len(segs)
                         PROVE  segs[i].ulSequenceNumber = segs[k].ulSequenceNumber => segs[i] = s
                BY <2>1, <2>2, <1>2
            <4> QED
                BY <2>1, <1>2, Apart
        <3> QED
            BY <3>1, <3>2, <2>1, <2>2, <2>4, <2>6
    <2>10. PICK u : u = [w EXCEPT !.xTxSegments = new]
        OBVIOUS
    <2>11. v = Unlink(u, seq)
        BY <1>1, <1>4, <2>2, <2>9, <2>10 DEF MarkAcked, Update
    <2>12. /\ u \in WindowType /\ u.ulCurrentSequenceNumber = w.ulCurrentSequenceNumber
           /\ u.ulHighestSequenceNumber = w.ulHighestSequenceNumber
           /\ u.ulNextTxSequenceNumber = w.ulNextTxSequenceNumber /\ u.xTxSegments = new
           /\ u.xPriorityQueue = w.xPriorityQueue /\ u.xWaitQueue = w.xWaitQueue
           /\ u.xTxQueue = queue /\ u.pxHeadSegment = w.pxHeadSegment
        BY <1>1, <1>2, <2>7, <2>10 DEF WindowType
    <2>13. /\ Distinct(RemoveFirst(w.xWaitQueue, seq))
           /\ ToSet(RemoveFirst(w.xWaitQueue, seq)) = ToSet(w.xWaitQueue) \ {seq}
           /\ Distinct(RemoveFirst(w.xPriorityQueue, seq))
           /\ ToSet(RemoveFirst(w.xPriorityQueue, seq)) = ToSet(w.xPriorityQueue) \ {seq}
           /\ RemoveFirst(queue, seq) = queue
        BY <2>3, <1>2, Removed
    <2>14. /\ v \in WindowType /\ v.xTxSegments = new /\ Cur(v) = Cur(w) /\ High(v) = High(w) /\ Nxt(v) = Nxt(w)
           /\ v.xPriorityQueue = RemoveFirst(w.xPriorityQueue, seq) /\ v.xWaitQueue = RemoveFirst(w.xWaitQueue, seq)
           /\ v.xTxQueue = queue /\ v.pxHeadSegment = w.pxHeadSegment
        BY <2>11, <2>12, <2>13, <1>2, UnlinkFields DEF Cur, High, Nxt
    <2>15. Tiled(new, Cur(w), Nxt(w))
        BY <1>2, <2>7, <2>8, LayoutKept
    <2>16. Unsent(new, queue, High(w), Nxt(w))
        <3>1. \A i \in 1 .. Len(segs) : /\ new[i].bOutstanding <=> segs[i].bOutstanding
                                        /\ new[i].bAcked => new[i].bOutstanding
            BY <2>1, <2>5, <2>7, <1>2 DEF Unsent
        <3> QED
            BY <3>1, <1>2, <2>7, <2>8, UnsentKept
    <2>17. InFlight(new, v.xPriorityQueue, v.xWaitQueue)
        BY <1>2, <2>8, <2>13, <2>14 DEF InFlight
    <2>18. HeadFits(new, v.pxHeadSegment)
        <3> SUFFICES ASSUME w.pxHeadSegment # NoSegment
                     PROVE  Len(new) # 0 /\ w.pxHeadSegment = new[Len(new)].ulSequenceNumber
                            /\ ~new[Len(new)].bOutstanding
            BY <2>14 DEF HeadFits
        <3>1. Len(segs) # 0 /\ w.pxHeadSegment = segs[Len(segs)].ulSequenceNumber /\ ~segs[Len(segs)].bOutstanding
            BY <1>2 DEF HeadFits
        <3>2. s.bOutstanding
            BY <1>1
        <3>3. Len(segs) \in 1 .. Len(segs)
            BY <3>1, <1>2
        <3>4. Len(segs) # k
            BY <3>1, <3>2, <2>1, Zenon
        <3> QED
            BY <3>1, <3>3, <3>4, <2>7
    <2>19. WindowOK(v)
        <3>1. Tiled(v.xTxSegments, Cur(v), Nxt(v)) /\ Unsent(v.xTxSegments, v.xTxQueue, High(v), Nxt(v))
              /\ InFlight(v.xTxSegments, v.xPriorityQueue, v.xWaitQueue) /\ HeadFits(v.xTxSegments, v.pxHeadSegment)
            BY <2>14, <2>15, <2>16, <2>17, <2>18, Zenon
        <3>2. Cur(v) <= High(v) /\ High(v) <= Nxt(v) /\ Nxt(v) <= MaxBytes
            BY <1>2, <2>14
        <3> QED
            BY <3>1, <3>2, <2>14 DEF WindowOK
    <2> QED
        BY <1>1, <2>5, <2>7, <2>8, <2>14, <2>19
<1> QED
    BY <1>3, <1>4


\* What prvTCPWindowTxCheckAck() leaves of the window w after its segments up to i,
\* told that the peer has the positions f .. l - 1: u has lost segments at its front
\* only, and what it has marked or dropped the peer has got.
Checked(u, w, i, got, f, l, tail) ==
    /\ WindowOK(u) /\ High(u) = High(w) /\ Nxt(u) = Nxt(w) /\ Cur(w) <= Cur(u)
    /\ Len(u.xTxSegments) <= Len(w.xTxSegments) /\ Len(w.xTxSegments) - Len(u.xTxSegments) <= i
    /\ \A j \in 1 .. Len(w.xTxSegments) : i < j =>
          u.xTxSegments[j - (Len(w.xTxSegments) - Len(u.xTxSegments))] = w.xTxSegments[j]
    /\ Placed(u.xTxSegments, tail, Cur(w))
    /\ PeerHas(u, got)
    /\ Cur(w) < f => Cur(u) = Cur(w)
    /\ Cur(w) <= l /\ Clear(w.xTxSegments, l) => Cur(u) <= l
    /\ \A x \in Nat : Clear(w.xTxSegments, x) /\ (x <= f \/ l <= x) => Clear(u.xTxSegments, x)

\* The segment that the loop has come to, in the window as it is by then.
LEMMA CheckedSegment ==
    ASSUME NEW w, WindowOK(w), NEW i \in 1 .. Len(w.xTxSegments), NEW u, NEW got, NEW f, NEW l, NEW tail,
           Checked(u, w, i - 1, got, f, l, tail), NEW s, s = w.xTxSegments[i],
           s.bAcked \/ (f <= Start(s) /\ Upto(s) <= l), f \in Nat, l \in Nat, f .. l - 1 \subseteq got
    PROVE  \E k \in 1 .. Len(u.xTxSegments) :
              /\ k = i - (Len(w.xTxSegments) - Len(u.xTxSegments)) /\ u.xTxSegments[k] = s
              /\ Start(s) .. Upto(s) - 1 \subseteq got /\ s.bOutstanding
<1>1. /\ Len(w.xTxSegments) \in Nat /\ Len(u.xTxSegments) \in Nat /\ WindowOK(u) /\ High(u) \in Nat
      /\ w.xTxSegments \in Seq(SegmentType) /\ u.xTxSegments \in Seq(SegmentType)
    BY WindowFields DEF WindowOK, Checked
<1>2. PICK L \in Nat, M \in Nat : L = Len(w.xTxSegments) /\ M = Len(u.xTxSegments)
    BY <1>1
<1>3. M <= L /\ L - M <= i - 1 /\ i \in 1 .. L
    BY <1>2 DEF Checked
<1>4. PICK k \in 1 .. M : k = i - (L - M)
    BY <1>3
<1>5. u.xTxSegments[k] = s
    <2>1. \A j \in 1 .. L : i - 1 < j => u.xTxSegments[j - (L - M)] = w.xTxSegments[j]
        BY <1>2 DEF Checked
    <2>2. i - 1 < i
        BY <1>3
    <2>3. u.xTxSegments[i - (L - M)] = w.xTxSegments[i]
        BY <2>1, <2>2, <1>3
    <2> QED
        BY <2>3, <1>4
<1>6. /\ Start(s) \in Nat /\ Upto(s) \in Nat /\ Start(s) < Upto(s) /\ s.bOutstanding \in BOOLEAN
    BY <1>1, <1>2, <1>4, <1>5, SegmentEntry
<1>7. Start(s) .. Upto(s) - 1 \subseteq got
    <2>1. CASE s.bAcked
        BY <2>1, <1>2, <1>5 DEF Checked, PeerHas
    <2>2. CASE f <= Start(s) /\ Upto(s) <= l
        BY <2>2, <1>6
    <2> QED
        BY <2>1, <2>2
<1>8. s.bOutstanding
    <2>1. Start(s) \in got /\ got \subseteq 0 .. High(u) - 1
        BY <1>6, <1>7 DEF Checked, PeerHas
    <2>2. Start(s) \in 0 .. High(u) - 1
        BY <2>1
    <2>3. Start(s) < High(u)
        BY <2>2, <1>1, <1>6
    <2>4. ~s.bOutstanding => High(u) <= Start(s)
        BY <1>1, <1>2, <1>5, SentBelow
    <2> QED
        BY <2>3, <2>4, <1>1, <1>6
<1> QED
    BY <1>2, <1>4, <1>5, <1>7, <1>8

LEMMA CheckedSame ==
    ASSUME NEW w, WindowOK(w), NEW i \in 1 .. Len(w.xTxSegments), NEW u, NEW got, NEW f, NEW l, NEW tail,
           Checked(u, w, i - 1, got, f, l, tail)
    PROVE  Checked(u, w, i, got, f, l, tail)
<1>1. Len(w.xTxSegments) \in Nat /\ Len(u.xTxSegments) \in Nat
    BY WindowFields DEF WindowOK, Checked
<1>2. Len(w.xTxSegments) - Len(u.xTxSegments) <= i
    BY <1>1 DEF Checked
<1>3. \A j \in 1 .. Len(w.xTxSegments) : i < j => i - 1 < j
    BY <1>1
<1> QED
    BY <1>2, <1>3 DEF Checked

LEMMA CheckedFree ==
    ASSUME NEW w, WindowOK(w), NEW i \in 1 .. Len(w.xTxSegments), NEW u, NEW got, NEW f \in Nat, NEW l \in Nat,
           NEW tail, Checked(u, w, i - 1, got, f, l, tail), NEW s, s = w.xTxSegments[i], f .. l - 1 \subseteq got,
           s.bAcked \/ (f <= Start(s) /\ Upto(s) <= l), f <= Start(s), Start(s) < l, Start(s) = Cur(u),
           NEW v, v = FreeFirst(u)
    PROVE  Checked(v, w, i, got, f, l, tail) /\ Cur(v) = Upto(s) /\ u.xTxSegments # << >>
           /\ Head(u.xTxSegments) = s
<1>1. PICK segs : segs = u.xTxSegments
    OBVIOUS
<1>2. /\ Len(w.xTxSegments) \in Nat /\ Len(segs) \in Nat /\ WindowOK(u) /\ High(u) \in Nat /\ Cur(u) \in Nat
      /\ segs \in Seq(SegmentType) /\ Cur(w) \in Nat /\ Cur(w) <= Cur(u) /\ Tiled(segs, Cur(u), Nxt(u))
      /\ High(u) = High(w) /\ Nxt(u) = Nxt(w) /\ PeerHas(u, got)
    BY <1>1, WindowFields DEF WindowOK, Checked
<1>3. PICK k \in 1 .. Len(segs) :
          /\ k = i - (Len(w.xTxSegments) - Len(segs)) /\ segs[k] = s
          /\ Start(s) .. Upto(s) - 1 \subseteq got /\ s.bOutstanding
    BY <1>1, CheckedSegment, SMTT(30)
<1>4. k = 1 /\ segs # << >> /\ segs[1] = s /\ Head(segs) = s
    <2>1. 1 \in 1 .. Len(segs) /\ segs # << >>
        BY <1>2, <1>3
    <2>2. Start(segs[1]) = Start(segs[k])
        BY <2>1, <1>2, <1>3 DEF Tiled
    <2>3. k = 1
        BY <2>1, <2>2, <1>2, Apart
    <2> QED
        BY <2>1, <2>3, <1>2, <1>3
<1>5. /\ Start(s) \in Nat /\ Upto(s) \in Nat /\ Start(s) < Upto(s) /\ s.bAcked \in BOOLEAN
    BY <1>2, <1>3, SegmentEntry
<1>6. PICK new : new = Tail(segs)
    OBVIOUS
<1>7. /\ WindowOK(v) /\ v.xTxSegments = new /\ Cur(v) = Upto(s) /\ High(v) = High(w) /\ Nxt(v) = Nxt(w)
    BY <1>1, <1>2, <1>3, <1>4, <1>6, FreeFirstOK
<1>8. /\ Len(new) = Len(segs) - 1 /\ new \in Seq(SegmentType)
      /\ \A j \in 1 .. Len(new) : j + 1 \in 1 .. Len(segs) /\ new[j] = segs[j + 1]
    <2>1. new \in Seq(SegmentType)
        BY <1>7, WindowFields DEF WindowOK
    <2> QED
        BY <2>1, <1>2, <1>4, <1>6, FirstGone
<1>9. PICK L \in Nat, M \in Nat : L = Len(w.xTxSegments) /\ M = Len(new)
    BY <1>2, <1>8, LenProperties
<1>10. Len(segs) = M + 1 /\ M + 1 <= L /\ L - (M + 1) <= i - 1 /\ L - M = i
    <2>1. Len(segs) = M + 1
        BY <1>2, <1>8, <1>9
    <2>2. M + 1 <= L /\ L - (M + 1) <= i - 1
        BY <2>1, <1>1, <1>9 DEF Checked
    <2>3. 1 = i - (L - (M + 1))
        BY <2>1, <1>3, <1>4, <1>9
    <2>4. i \in Nat
        BY <1>9
    <2>5. L - M = i
        BY <2>3, <2>4
    <2> QED
        BY <2>1, <2>2, <2>5
<1>11. ASSUME NEW j \in 1 .. L, i < j
       PROVE  new[j - (L - M)] = w.xTxSegments[j]
    <2>1. segs[j - (L - (M + 1))] = w.xTxSegments[j]
        <3>1. \A m \in 1 .. L : i - 1 < m => segs[m - (L - (M + 1))] = w.xTxSegments[m]
            BY <1>1, <1>9, <1>10 DEF Checked
        <3>2. i - 1 < j
            BY <1>11
        <3> QED
            BY <3>1, <3>2
    <2>2. j - (L - M) \in 1 .. M /\ j - (L - M) + 1 = j - (L - (M + 1))
        BY <1>10, <1>11
    <2> QED
        BY <2>1, <2>2, <1>8, <1>9
<1>12. Placed(new, tail, Cur(w))
    BY <1>1, <1>8 DEF Checked, Placed
<1>13. PeerHas(v, got)
    <2>1. got \subseteq 0 .. High(v) - 1
        BY <1>2, <1>7 DEF PeerHas
    <2>2. 0 .. Upto(s) - 1 \subseteq got
        <3>1. 0 .. Cur(u) - 1 \subseteq got
            BY <1>2 DEF PeerHas
        <3> QED
            BY <3>1, <1>2, <1>3, <1>5
    <2>3. \A j \in 1 .. Len(new) : new[j].bAcked => Start(new[j]) .. Upto(new[j]) - 1 \subseteq got
        BY <1>1, <1>2, <1>8 DEF PeerHas
    <2> QED
        BY <2>1, <2>2, <2>3, <1>7 DEF PeerHas
<1>14. Cur(w) < f => FALSE
    BY <1>2 DEF Checked
<1>15. ASSUME Cur(w) <= l, Clear(w.xTxSegments, l)
       PROVE  Cur(v) <= l
    <2>1. CASE s.bAcked
        BY <2>1, <1>7, <1>15 DEF Clear
    <2>2. CASE f <= Start(s) /\ Upto(s) <= l
        BY <2>2, <1>7
    <2> QED
        BY <2>1, <2>2
<1>16. ASSUME NEW x \in Nat, Clear(w.xTxSegments, x), x <= f \/ l <= x
       PROVE  Clear(new, x)
    <2>1. Clear(segs, x)
        BY <1>1, <1>16 DEF Checked
    <2> QED
        BY <2>1, <1>8 DEF Clear
<1>17. Cur(w) <= Cur(v)
    BY <1>2, <1>5, <1>7
<1>18. Checked(v, w, i, got, f, l, tail)
    <2>1. /\ M <= L /\ L - M <= i
          /\ \A j \in 1 .. L : i < j => new[j - (L - M)] = w.xTxSegments[j]
        BY <1>10, <1>11
    <2>2. /\ Len(v.xTxSegments) <= Len(w.xTxSegments) /\ Len(w.xTxSegments) - Len(v.xTxSegments) <= i
          /\ \A j \in 1 .. Len(w.xTxSegments) : i < j =>
                v.xTxSegments[j - (Len(w.xTxSegments) - Len(v.xTxSegments))] = w.xTxSegments[j]
        BY <2>1, <1>7, <1>9
    <2>3. Placed(v.xTxSegments, tail, Cur(w)) /\ ~(Cur(w) < f)
          /\ \A x \in Nat : Clear(w.xTxSegments, x) /\ (x <= f \/ l <= x) => Clear(v.xTxSegments, x)
        BY <1>7, <1>12, <1>14, <1>16
    <2> QED
        BY <2>2, <2>3, <1>7, <1>13, <1>15, <1>17 DEF Checked
<1> QED
    BY <1>1, <1>4, <1>7, <1>18

LEMMA CheckedMark ==
    ASSUME NEW w, WindowOK(w), NEW i \in 1 .. Len(w.xTxSegments), NEW u, NEW got, NEW f \in Nat, NEW l \in Nat,
           NEW tail, Checked(u, w, i - 1, got, f, l, tail), NEW s, s = w.xTxSegments[i], f .. l - 1 \subseteq got,
           s.bAcked \/ (f <= Start(s) /\ Upto(s) <= l),
           NEW v, v = MarkAcked(u, s)
    PROVE  Checked(v, w, i, got, f, l, tail) /\ Cur(v) = Cur(u)
<1>1. PICK segs : segs = u.xTxSegments
    OBVIOUS
<1>2. /\ Len(w.xTxSegments) \in Nat /\ Len(segs) \in Nat /\ WindowOK(u)
      /\ segs \in Seq(SegmentType) /\ Checked(u, w, i, got, f, l, tail)
      /\ Cur(u) \in Nat /\ Cur(w) \in Nat /\ Cur(w) <= Cur(u)
    <2>1. WindowOK(u) /\ Cur(w) <= Cur(u)
        BY DEF Checked
    <2>2. u \in WindowType /\ w \in WindowType
        BY <2>1 DEF WindowOK
    <2>3. Checked(u, w, i, got, f, l, tail)
        BY CheckedSame
    <2> QED
        BY <2>1, <2>2, <2>3, <1>1, WindowFields
<1>3. PICK k \in 1 .. Len(segs) :
          /\ k = i - (Len(w.xTxSegments) - Len(segs)) /\ segs[k] = s
          /\ Start(s) .. Upto(s) - 1 \subseteq got /\ s.bOutstanding
    BY <1>1, CheckedSegment, SMTT(30)
<1>4. PICK new : new = v.xTxSegments
    OBVIOUS
<1>5. /\ WindowOK(v) /\ Cur(v) = Cur(u) /\ High(v) = High(u) /\ Nxt(v) = Nxt(u)
      /\ SameLayout(segs, new) /\ new \in Seq(SegmentType)
      /\ \A j \in 1 .. Len(segs) : j # k => new[j] = segs[j]
    <2>1. /\ WindowOK(v) /\ Cur(v) = Cur(u) /\ High(v) = High(u) /\ Nxt(v) = Nxt(u)
          /\ SameLayout(segs, new) /\ \A j \in 1 .. Len(segs) : j # k => new[j] = segs[j]
        <3>1. k \in 1 .. Len(u.xTxSegments) /\ s = u.xTxSegments[k] /\ s.bOutstanding
            BY <1>1, <1>3
        <3>2. WindowOK(u)
            BY <1>2
        <3>3. /\ WindowOK(v) /\ Cur(v) = Cur(u) /\ High(v) = High(u) /\ Nxt(v) = Nxt(u)
              /\ SameLayout(u.xTxSegments, v.xTxSegments)
              /\ \A j \in 1 .. Len(u.xTxSegments) : j # k => v.xTxSegments[j] = u.xTxSegments[j]
            BY <3>1, <3>2, MarkAckedOK
        <3> QED
            BY <3>3, <1>1, <1>4
    <2> QED
        BY <2>1, <1>4, WindowFields DEF WindowOK
<1>6. Len(new) = Len(segs) /\ Start(new[k]) = Start(s) /\ Upto(new[k]) = Upto(s)
    BY <1>3, <1>5 DEF SameLayout, Start, Upto
<1>7. ASSUME NEW j \in 1 .. Len(w.xTxSegments), i < j
      PROVE  new[j - (Len(w.xTxSegments) - Len(new))] = w.xTxSegments[j]
    <2>1. segs[j - (Len(w.xTxSegments) - Len(segs))] = w.xTxSegments[j]
        BY <1>1, <1>2, <1>7 DEF Checked
    <2>2. /\ Len(segs) <= Len(w.xTxSegments) /\ Len(w.xTxSegments) - Len(segs) <= i
        BY <1>1, <1>2 DEF Checked
    <2>3. PICK m : m = j - (Len(w.xTxSegments) - Len(segs))
        OBVIOUS
    <2>4. m \in 1 .. Len(segs) /\ m # k
        BY <2>2, <2>3, <1>2, <1>3, <1>7
    <2> QED
        BY <2>1, <2>3, <2>4, <1>5, <1>6
<1>8. Placed(new, tail, Cur(w))
    BY <1>1, <1>2, <1>5, LayoutKept DEF Checked
<1>9. PeerHas(v, got)
    <2>1. PeerHas(u, got)
        BY <1>2 DEF Checked
    <2>2. ASSUME NEW j \in 1 .. Len(new), new[j].bAcked
          PROVE  Start(new[j]) .. Upto(new[j]) - 1 \subseteq got
        <3>1. CASE j = k
            BY <3>1, <1>3, <1>6
        <3>2. CASE j # k
            BY <3>2, <2>1, <2>2, <1>1, <1>5, <1>6 DEF PeerHas
        <3> QED
            BY <3>1, <3>2
    <2> QED
        BY <2>1, <2>2, <1>4, <1>5 DEF PeerHas
<1>10. ASSUME NEW x \in Nat, Clear(w.xTxSegments, x), x <= f \/ l <= x
       PROVE  Clear(new, x)
    <2>1. Clear(segs, x)
        BY <1>1, <1>2, <1>10 DEF Checked
    <2>2. ASSUME NEW j \in 1 .. Len(new), new[j].bAcked, Start(new[j]) < x
          PROVE  Upto(new[j]) <= x
        <3>1. CASE j # k
            BY <3>1, <2>1, <2>2, <1>5, <1>6 DEF Clear
        <3>2. CASE j = k
            <4>1. /\ Start(s) \in Nat /\ Upto(s) \in Nat /\ Start(s) < x
                BY <1>2, <1>3, <1>6, <2>2, <3>2, SegmentEntry
            <4>2. CASE s.bAcked
                BY <4>1, <4>2, <2>1, <1>3, <1>6, <3>2 DEF Clear
            <4>3. CASE f <= Start(s) /\ Upto(s) <= l
                BY <4>1, <4>3, <1>6, <1>10, <3>2
            <4> QED
                BY <4>2, <4>3
        <3> QED
            BY <3>1, <3>2
    <2> QED
        BY <2>2 DEF Clear
<1>11. Checked(v, w, i, got, f, l, tail)
    <2>1. /\ High(v) = High(w) /\ Nxt(v) = Nxt(w) /\ Cur(w) <= Cur(v)
          /\ Len(new) <= Len(w.xTxSegments) /\ Len(w.xTxSegments) - Len(new) <= i
          /\ (Cur(w) < f => Cur(v) = Cur(w))
          /\ (Cur(w) <= l /\ Clear(w.xTxSegments, l) => Cur(v) <= l)
        BY <1>1, <1>2, <1>5, <1>6 DEF Checked
    <2> QED
        BY <2>1, <1>4, <1>5, <1>7, <1>8, <1>9, <1>10 DEF Checked
<1> QED
    BY <1>5, <1>11

\* The loop of prvTCPWindowTxCheckAck(), with the number it has come to.
CheckType == [window : WindowType, at : SeqNumber, last : SeqNumber, confirmed : Nat, ended : BOOLEAN]

CheckState(a, w, i, got, first, last, tail) ==
    /\ a \in CheckType /\ a.last = last
    /\ Checked(a.window, w, i, got, Position(first), Position(last), tail)
    /\ Cur(a.window) = Cur(w) + a.confirmed
    /\ Position(first) <= Position(a.at) /\ Position(a.at) <= MaxBytes

LEMMA CheckAckOfOK ==
    ASSUME NEW w, WindowOK(w), NEW i \in 1 .. Len(w.xTxSegments), NEW got, NEW tail,
           NEW first \in SeqNumber, NEW last \in SeqNumber,
           Position(last) <= MaxBytes, Position(first) .. Position(last) - 1 \subseteq got,
           NEW a, CheckState(a, w, i - 1, got, first, last, tail), NEW b, b = CheckAckOf(a, w.xTxSegments[i])
    PROVE  CheckState(b, w, i, got, first, last, tail)
<1>1. PICK s, u : s = w.xTxSegments[i] /\ u = a.window
    OBVIOUS
<1>2. PICK f \in Nat, l \in Nat : f = Position(first) /\ l = Position(last)
    BY PositionValue DEF SeqNumber
<1>3. /\ a \in CheckType /\ a.last = last /\ Checked(u, w, i - 1, got, f, l, tail)
      /\ Cur(u) = Cur(w) + a.confirmed /\ f <= Position(a.at) /\ Position(a.at) <= MaxBytes
      /\ a.at \in SeqNumber /\ a.confirmed \in Nat /\ l <= MaxBytes /\ f .. l - 1 \subseteq got
      /\ u \in WindowType /\ a.ended \in BOOLEAN
    BY <1>1, <1>2 DEF CheckState, CheckType
<1>4. Checked(u, w, i, got, f, l, tail)
    BY <1>3, CheckedSame
<1>5. /\ s \in SegmentType /\ s.ulSequenceNumber \in SeqNumber /\ Start(s) \in Nat /\ Upto(s) \in Nat
      /\ s.lDataLength \in Nat /\ Upto(s) = Start(s) + s.lDataLength /\ s.bAcked \in BOOLEAN
      /\ Upto(s) <= Nxt(w) /\ Nxt(w) <= MaxBytes /\ Nxt(w) \in Nat /\ Cur(w) \in Nat
    BY <1>1, SegmentEntry, SentBelow, WindowFields DEF WindowOK
<1>6. Upto(s) <= MaxBytes
    BY <1>5, Constants
<1>7. End(s) \in SeqNumber /\ Position(End(s)) = Upto(s)
    BY <1>5, <1>6, EndOf
<1>8. Cur(u) \in Nat /\ u.ulCurrentSequenceNumber \in SeqNumber
    BY <1>3, WindowFields
<1>9. CASE b = a
    BY <1>1, <1>2, <1>3, <1>4, <1>9 DEF CheckState
<1>10. CASE b = [a EXCEPT !.ended = TRUE]
    <2>1. b \in CheckType /\ b.window = u /\ b.at = a.at /\ b.last = last /\ b.confirmed = a.confirmed
        BY <1>1, <1>3, <1>10 DEF CheckType
    <2> QED
        BY <2>1, <1>1, <1>2, <1>3, <1>4 DEF CheckState
<1>11. CASE /\ xSequenceLessThan(a.at, a.last)
            /\ a.at = s.ulSequenceNumber /\ ~Partial(s, a.last)
            /\ b # a /\ b # [a EXCEPT !.ended = TRUE]
    <2>1. Position(a.at) < l
        BY <1>2, <1>3, <1>11, PositionLess
    <2>2. f <= Start(s) /\ Start(s) < l /\ Position(a.at) = Start(s)
        BY <2>1, <1>3, <1>11 DEF Start
    <2>3. s.bAcked \/ (f <= Start(s) /\ Upto(s) <= l)
        <3>1. s.bAcked \/ ~xSequenceGreaterThan(End(s), last)
            BY <1>3, <1>11 DEF Partial
        <3>2. xSequenceGreaterThan(End(s), last) <=> l < Upto(s)
            BY <1>2, <1>3, <1>6, <1>7, PositionLess
        <3> QED
            BY <3>1, <3>2, <2>2, <1>2, <1>5
    <2>4. CASE a.at = u.ulCurrentSequenceNumber
        <3>1. PICK v : v = FreeFirst(u)
            OBVIOUS
        <3>2. Start(s) = Cur(u)
            BY <2>2, <2>4 DEF Cur
        <3>3. Checked(v, w, i, got, f, l, tail) /\ Cur(v) = Upto(s)
            BY <2>2, <2>3, <3>1, <3>2, <1>1, <1>3, CheckedFree
        <3>4. b = [a EXCEPT !.at = End(s), !.window = FreeFirst(@), !.confirmed = @ + s.lDataLength]
            BY <2>4, <1>1, <1>11 DEF CheckAckOf
        <3>5. v \in WindowType
            BY <3>3 DEF Checked, WindowOK
        <3>6. /\ b \in CheckType /\ b.window = v /\ b.at = End(s) /\ b.last = last
              /\ b.confirmed = a.confirmed + s.lDataLength
            <4>1. b = [a EXCEPT !.at = End(s), !.window = v, !.confirmed = @ + s.lDataLength]
                BY <3>1, <3>4, <1>1
            <4>2. a.confirmed + s.lDataLength \in Nat
                BY <1>3, <1>5
            <4> QED
                BY <4>1, <4>2, <3>5, <1>3, <1>7 DEF CheckType
        <3>7. Cur(v) = Cur(w) + (a.confirmed + s.lDataLength)
            <4>1. Cur(v) = Cur(u) + s.lDataLength
                BY <3>2, <3>3, <1>5
            <4> QED
                BY <4>1, <1>3, <1>5
        <3>8. f <= Position(b.at) /\ Position(b.at) <= MaxBytes
            BY <3>6, <2>2, <1>5, <1>6, <1>7
        <3> QED
            BY <3>3, <3>6, <3>7, <3>8, <1>2 DEF CheckState
    <2>5. CASE a.at # u.ulCurrentSequenceNumber
        <3>1. PICK v : v = MarkAcked(u, s)
            OBVIOUS
        <3>2. Checked(v, w, i, got, f, l, tail) /\ Cur(v) = Cur(u)
            BY <2>3, <3>1, <1>1, <1>3, CheckedMark
        <3>3. b = [a EXCEPT !.at = End(s), !.window = MarkAcked(@, s)]
            BY <2>5, <1>1, <1>11 DEF CheckAckOf
        <3>4. v \in WindowType
            BY <3>2 DEF Checked, WindowOK
        <3>5. /\ b \in CheckType /\ b.window = v /\ b.at = End(s) /\ b.last = last
              /\ b.confirmed = a.confirmed
            <4>1. b = [a EXCEPT !.at = End(s), !.window = v]
                BY <3>1, <3>3, <1>1
            <4> QED
                BY <4>1, <3>4, <1>3, <1>7 DEF CheckType
        <3>6. f <= Position(b.at) /\ Position(b.at) <= MaxBytes
            BY <3>5, <2>2, <1>5, <1>6, <1>7
        <3> QED
            BY <3>2, <3>5, <3>6, <1>2, <1>3 DEF CheckState
    <2> QED
        BY <2>4, <2>5
<1> QED
    <2>1. \/ b = a \/ b = [a EXCEPT !.ended = TRUE]
          \/ /\ xSequenceLessThan(a.at, a.last)
             /\ a.at = s.ulSequenceNumber /\ ~Partial(s, a.last)
        BY <1>1 DEF CheckAckOf
    <2> QED
        BY <2>1, <1>9, <1>10, <1>11

\* What an acknowledgement of the positions f .. l - 1 does to the window: it moves
\* on, but never beyond a number that no acknowledged segment lies across.
Acknowledges(w, v, f, l) ==
    /\ High(v) = High(w) /\ Cur(w) <= Cur(v)
    /\ Cur(w) < f => Cur(v) = Cur(w)
    /\ Cur(w) <= l /\ Clear(w.xTxSegments, l) => Cur(v) <= l
    /\ \A x \in Nat : Clear(w.xTxSegments, x) /\ (x <= f \/ l <= x) => Clear(v.xTxSegments, x)

\* The bytes that the window drops leave the stream at its tail.
LEMMA TailMoves ==
    ASSUME NEW w, WindowOK(w), NEW v, WindowOK(v), Nxt(v) = Nxt(w), NEW stream, Matches(w, stream),
           NEW n \in Nat, Cur(v) = Cur(w) + n, Placed(v.xTxSegments, stream.tail, Cur(w)),
           NEW moved, moved = [stream EXCEPT !.tail = Wrap(@ + Least(Distance(stream.tail, stream.head), n))]
    PROVE  Matches(v, moved) /\ moved \in StreamType
<1>1. /\ stream \in StreamType /\ stream.tail \in Index /\ stream.head \in Index /\ stream.mid \in Index
      /\ Distance(stream.tail, stream.mid) = Nxt(w) - Cur(w)
      /\ Distance(stream.tail, stream.mid) <= Distance(stream.tail, stream.head)
      /\ Cur(w) + Distance(stream.tail, stream.head) <= MaxBytes
      /\ \A k \in 0 .. LENGTH - 1 :
            k < Distance(stream.tail, stream.head) => stream.array[Wrap(stream.tail + k)] = Cur(w) + k
    BY DEF Matches, StreamHolds, StreamType
<1>2. /\ Cur(w) \in Nat /\ Nxt(w) \in Nat /\ Cur(v) \in Nat /\ Nxt(v) \in Nat /\ Cur(v) <= Nxt(v)
      /\ v.xTxSegments \in Seq(SegmentType) /\ Len(v.xTxSegments) \in Nat
    <2>1. Cur(v) <= High(v) /\ High(v) <= Nxt(v)
        BY DEF WindowOK
    <2>2. /\ Cur(w) \in Nat /\ Nxt(w) \in Nat /\ Cur(v) \in Nat /\ Nxt(v) \in Nat /\ High(v) \in Nat
          /\ v.xTxSegments \in Seq(SegmentType) /\ Len(v.xTxSegments) \in Nat
        BY WindowFields DEF WindowOK
    <2> QED
        BY <2>1, <2>2
<1>3. PICK size \in 0 .. LENGTH - 1 : size = Distance(stream.tail, stream.head)
    BY <1>1, DistanceIn
<1>4. PICK ready \in 0 .. LENGTH - 1 : ready = Distance(stream.tail, stream.mid)
    BY <1>1, DistanceIn
<1>5. n <= ready /\ ready <= size /\ LENGTH \in Nat
    <2>1. ready = Nxt(w) - Cur(w) /\ ready <= size /\ LENGTH \in Nat
        BY <1>1, <1>3, <1>4, Constants
    <2>2. Cur(w) + n <= Nxt(w)
        BY <1>2
    <2> QED
        BY <2>1, <2>2, <1>2
<1>6. PICK tail : tail = Wrap(stream.tail + n)
    OBVIOUS
<1>7. moved = [stream EXCEPT !.tail = tail]
    <2>1. Least(size, n) = n
        BY <1>5 DEF Least
    <2> QED
        BY <2>1, <1>3, <1>6
<1>8. tail \in Index /\ Distance(tail, stream.head) = size - n /\ Distance(tail, stream.mid) = ready - n
    BY <1>1, <1>3, <1>4, <1>5, <1>6, DistanceShrinks
<1>9. /\ moved \in StreamType /\ moved.tail = tail /\ moved.head = stream.head /\ moved.mid = stream.mid
      /\ moved.array = stream.array
    BY <1>1, <1>7, <1>8 DEF StreamType
<1>10. ASSUME NEW k \in Nat, n + k <= LENGTH - 1
       PROVE  Wrap(tail + k) = Wrap(stream.tail + (n + k))
    <2>1. n + k < LENGTH
        BY <1>5, <1>10
    <2> QED
        BY <2>1, <1>1, <1>6, WrapTwice
<1>11. StreamHolds(moved, Cur(v))
    <2>1. Cur(v) + (size - n) <= MaxBytes
        BY <1>1, <1>2, <1>3, <1>5
    <2>2. ASSUME NEW k \in 0 .. LENGTH - 1, k < size - n
          PROVE  stream.array[Wrap(tail + k)] = Cur(v) + k
        <3>1. n + k <= LENGTH - 1 /\ n + k < size /\ n + k \in 0 .. LENGTH - 1 /\ k \in Nat
            BY <1>3, <1>5, <2>2
        <3>2. stream.array[Wrap(stream.tail + (n + k))] = Cur(w) + (n + k)
            BY <3>1, <1>1, <1>3
        <3>3. Cur(w) + (n + k) = Cur(v) + k
            BY <1>2, <3>1
        <3> QED
            BY <3>1, <3>2, <3>3, <1>10
    <2> QED
        BY <2>1, <2>2, <1>8, <1>9 DEF StreamHolds
<1>12. Placed(v.xTxSegments, tail, Cur(v))
    <2> SUFFICES ASSUME NEW i \in 1 .. Len(v.xTxSegments)
                 PROVE  v.xTxSegments[i].lStreamPos = Wrap(tail + (Start(v.xTxSegments[i]) - Cur(v)))
        BY DEF Placed
    <2>1. PICK s : s = v.xTxSegments[i]
        OBVIOUS
    <2>2. /\ Start(s) \in Nat /\ Upto(s) \in Nat /\ Start(s) < Upto(s)
          /\ Cur(v) <= Start(s) /\ Upto(s) <= Nxt(v)
        BY <2>1, <1>2, SegmentEntry, SentBelow
    <2>3. PICK k \in Nat : k = Start(s) - Cur(v)
        BY <2>2, <1>2
    <2>4. n + k <= LENGTH - 1 /\ n + k = Start(s) - Cur(w)
        <3>1. n + k = Start(s) - Cur(w)
            BY <2>2, <2>3, <1>2
        <3>2. n + k <= ready
            BY <3>1, <2>2, <1>1, <1>2, <1>4
        <3> QED
            BY <3>1, <3>2, <1>5
    <2>5. s.lStreamPos = Wrap(stream.tail + (Start(s) - Cur(w)))
        BY <2>1 DEF Placed
    <2>6. Wrap(tail + k) = Wrap(stream.tail + (n + k))
        BY <2>4, <1>10
    <2> QED
        BY <2>1, <2>3, <2>4, <2>5, <2>6, Zenon
<1>13. Distance(moved.tail, moved.mid) = Nxt(v) - Cur(v)
    <2>1. ready - n = Nxt(v) - Cur(v)
        BY <1>1, <1>2, <1>4
    <2> QED
        BY <2>1, <1>8, <1>9
<1>14. Distance(moved.tail, moved.mid) <= Distance(moved.tail, moved.head)
    <2>1. ready - n <= size - n
        BY <1>5
    <2> QED
        BY <2>1, <1>8, <1>9
<1> QED
    BY <1>9, <1>11, <1>12, <1>13, <1>14 DEF Matches

LEMMA CheckAckOK ==
    ASSUME NEW got, NEW c, ContextOK(c, got), NEW first \in SeqNumber, NEW last \in SeqNumber,
           Position(first) <= MaxBytes, Position(last) <= MaxBytes,
           Position(first) .. Position(last) - 1 \subseteq got, NEW d, d = CheckAck(c, first, last)
    PROVE  /\ ContextOK(d, got) /\ d.windowSize = c.windowSize
           /\ Acknowledges(c.window, d.window, Position(first), Position(last))
<1> DEFINE segs == c.window.xTxSegments
<1> DEFINE base == [window |-> c.window, at |-> first, last |-> last, confirmed |-> 0, ended |-> FALSE]
<1> DEFINE loop == CHOOSE g : g = [i \in 0 .. Len(segs) |->
                                      IF i = 0 THEN base ELSE CheckAckOf(g[i - 1], segs[i])]
<1> DEFINE a == loop[Len(segs)]
<1>1. d = [c EXCEPT !.window = a.window, !.free = @ + Len(segs) - Len(a.window.xTxSegments),
                    !.stream.tail = Wrap(@ + Least(Distance(c.stream.tail, c.stream.head), a.confirmed))]
    BY Zenon DEF CheckAck
<1>2. PICK w, N : w = c.window /\ N = Len(segs)
    OBVIOUS
<1>3. /\ WindowOK(w) /\ Matches(w, c.stream) /\ PoolOK(c.free, w.xTxSegments) /\ c \in ContextType
      /\ \A packet \in c.packets : PacketOK(packet, High(w))
      /\ PeerHas(w, got) /\ N \in Nat /\ w \in WindowType /\ N = Len(w.xTxSegments)
      /\ Cur(w) \in Nat
    <2>1. /\ WindowOK(w) /\ Matches(w, c.stream) /\ PoolOK(c.free, w.xTxSegments) /\ c \in ContextType
          /\ \A packet \in c.packets : PacketOK(packet, High(w)) /\ PeerHas(w, got)
          /\ N = Len(w.xTxSegments) /\ PeerHas(w, got)
        BY <1>2 DEF ContextOK
    <2>2. w \in WindowType
        BY <2>1 DEF WindowOK
    <2> QED
        BY <2>1, <2>2, WindowFields
<1>4. \A n, x : Turn("check", segs, x, n) = CheckAckOf(x, segs[n])
    BY DEF Turn
<1>5. PICK g : Runs("check", segs, base, N, g)
    <2> HIDE DEF base, segs
    <2> QED
        BY <1>3, RunExists
<1>6. g = [i \in 0 .. Len(segs) |-> IF i = 0 THEN base ELSE CheckAckOf(g[i - 1], segs[i])]
    <2>1. g = [i \in 0 .. N |-> IF i = 0 THEN base ELSE Turn("check", segs, g[i - 1], i)]
        BY <1>5, Zenon DEF Runs
    <2> HIDE DEF base, segs
    <2> QED
        BY <2>1, <1>2, <1>4
<1>7. loop = [i \in 0 .. Len(segs) |-> IF i = 0 THEN base ELSE CheckAckOf(loop[i - 1], segs[i])]
    BY <1>6, Zenon
<1>8. /\ loop[0] = base
      /\ \A i \in 1 .. N : loop[i] = CheckAckOf(loop[i - 1], segs[i])
    <2> HIDE DEF a, base, loop, segs
    <2>1. loop = [i \in 0 .. N |-> IF i = 0 THEN base ELSE Turn("check", segs, loop[i - 1], i)]
        BY <1>2, <1>4, <1>7
    <2>2. PICK h : h = loop
        OBVIOUS
    <2>3. PICK data : data = segs
        OBVIOUS
    <2>4. h = [i \in 0 .. N |-> IF i = 0 THEN base ELSE Turn("check", data, h[i - 1], i)]
        BY <2>1, <2>2, <2>3
    <2>5. Runs("check", data, base, N, h)
        BY <2>4, Zenon DEF Runs
    <2>6. N \in Nat
        BY <1>3
    <2>7. h[0] = base /\ \A i \in 1 .. N : h[i] = Turn("check", data, h[i - 1], i)
        BY <2>5, <2>6, RunSteps
    <2> QED
        BY <2>2, <2>3, <2>7, <1>4
<1>9. PICK tail : tail = c.stream.tail
    OBVIOUS
<1>10. CheckState(base, w, 0, got, first, last, tail)
    <2>1. /\ base \in CheckType /\ base.window = w /\ base.at = first /\ base.last = last /\ base.confirmed = 0
        BY <1>2, <1>3 DEF CheckType
    <2> HIDE DEF base
    <2>2. Position(first) \in Nat
        BY PositionValue DEF SeqNumber
    <2>3. Placed(w.xTxSegments, tail, Cur(w))
        BY <1>3, <1>9 DEF Matches
    <2>4. \A j \in 1 .. Len(w.xTxSegments) :
              w.xTxSegments[j - (Len(w.xTxSegments) - Len(w.xTxSegments))] = w.xTxSegments[j]
        <3>1. \A j \in 1 .. N : j - (N - N) = j
            BY <1>3
        <3> QED
            BY <3>1, <1>3
    <2>5. ASSUME NEW f, NEW l
          PROVE  Checked(w, w, 0, got, f, l, tail)
        <3>1. Len(w.xTxSegments) <= Len(w.xTxSegments) /\ Len(w.xTxSegments) - Len(w.xTxSegments) <= 0
            BY <1>3
        <3> QED
            BY <3>1, <2>3, <2>4, <1>3 DEF Checked
    <2>6. Cur(w) = Cur(w) + 0 /\ Position(first) <= Position(first)
        BY <2>2, <1>3
    <2> QED
        BY <2>1, <2>5, <2>6 DEF CheckState
<1> DEFINE good == {n \in 0 .. N : CheckState(loop[n], w, n, got, first, last, tail)}
<1> HIDE DEF base, loop
<1>11. 0 \in good
    BY <1>3, <1>8, <1>10
<1>12. ASSUME NEW i \in 1 .. N, i - 1 \in good
       PROVE  i \in good
    <2>1. CheckState(loop[i - 1], w, i - 1, got, first, last, tail)
        BY <1>12
    <2>2. loop[i] = CheckAckOf(loop[i - 1], w.xTxSegments[i])
        BY <1>2, <1>8, <1>12
    <2>3. i \in 1 .. Len(w.xTxSegments)
        BY <1>3, <1>12
    <2>4. CheckState(loop[i], w, i, got, first, last, tail)
        BY <2>1, <2>2, <2>3, <1>3, CheckAckOfOK
    <2> QED
        BY <2>4, <1>3
<1>13. \A i \in 0 .. N : i \in good
    <2> HIDE DEF good
    <2> QED
        BY <1>3, <1>11, <1>12, Induction
<1>14. CheckState(a, w, N, got, first, last, tail)
    BY <1>2, <1>3, <1>13
<1>15. PICK v, n : v = a.window /\ n = a.confirmed
    OBVIOUS
<1>16. /\ n \in Nat /\ Cur(v) = Cur(w) + n /\ Checked(v, w, N, got, Position(first), Position(last), tail)
       /\ v \in WindowType /\ WindowOK(v) /\ High(v) = High(w) /\ Nxt(v) = Nxt(w) /\ PeerHas(v, got)
       /\ Placed(v.xTxSegments, tail, Cur(w)) /\ Len(v.xTxSegments) <= Len(w.xTxSegments)
       /\ Len(v.xTxSegments) \in Nat
    <2>1. n \in Nat /\ Cur(v) = Cur(w) + n /\ Checked(v, w, N, got, Position(first), Position(last), tail)
        BY <1>14, <1>15 DEF CheckState, CheckType
    <2>2. v \in WindowType
        BY <2>1 DEF Checked, WindowOK
    <2> QED
        BY <2>1, <2>2, WindowFields DEF Checked
<1>17. PICK moved : moved = [c.stream EXCEPT !.tail = Wrap(@ + Least(Distance(c.stream.tail, c.stream.head), n))]
    OBVIOUS
<1>18. Matches(v, moved) /\ moved \in StreamType
    BY <1>3, <1>9, <1>16, <1>17, TailMoves
<1>19. PICK free : free = c.free + Len(w.xTxSegments) - Len(v.xTxSegments)
    OBVIOUS
<1>20. free \in Nat /\ PoolOK(free, v.xTxSegments)
    <2>1. PICK m \in Nat : m = Len(v.xTxSegments)
        BY <1>16
    <2>2. c.free \in Nat /\ c.free + N <= SegmentCount /\ m <= N /\ SegmentCount \in Nat
        BY <2>1, <1>3, <1>16, TxAssumption DEF PoolOK
    <2>3. free = c.free + N - m
        BY <2>1, <1>3, <1>19
    <2>4. free \in Nat /\ free + m <= SegmentCount
        BY <2>2, <2>3, <1>3
    <2> QED
        BY <2>1, <2>4 DEF PoolOK
<1>21. d = [c EXCEPT !.window = v, !.free = free, !.stream = moved]
    <2> HIDE DEF a
    <2> QED
        BY <1>1, <1>2, <1>15, <1>17, <1>19, <1>3 DEF ContextType
<1>22. /\ d \in ContextType /\ d.window = v /\ d.free = free /\ d.stream = moved
       /\ d.windowSize = c.windowSize /\ d.packets = c.packets
    BY <1>3, <1>16, <1>18, <1>20, <1>21 DEF ContextType
<1>23. ContextOK(d, got)
    BY <1>3, <1>16, <1>18, <1>20, <1>22 DEF ContextOK
<1>24. Acknowledges(w, v, Position(first), Position(last))
    BY <1>16 DEF Checked, Acknowledges
<1> QED
    BY <1>2, <1>22, <1>23, <1>24

-----------------------------------------------------------------------------
(* Fast retransmission *)

\* Counters and two of the queues apart, nothing changes.
Alike(w, v) ==
    /\ Cur(v) = Cur(w) /\ High(v) = High(w) /\ Nxt(v) = Nxt(w)
    /\ SameLayout(w.xTxSegments, v.xTxSegments)
    /\ \A i \in 1 .. Len(w.xTxSegments) :
          /\ v.xTxSegments[i].bOutstanding = w.xTxSegments[i].bOutstanding
          /\ v.xTxSegments[i].bAcked = w.xTxSegments[i].bAcked
    /\ v.xTxQueue = w.xTxQueue /\ v.pxHeadSegment = w.pxHeadSegment

LEMMA AlikeFacts ==
    ASSUME NEW w, WindowOK(w), NEW v \in WindowType, Alike(w, v)
    PROVE  /\ Flying(v.xTxSegments) = Flying(w.xTxSegments)
           /\ \A i \in 1 .. Len(w.xTxSegments) :
                 /\ Start(v.xTxSegments[i]) = Start(w.xTxSegments[i])
                 /\ Upto(v.xTxSegments[i]) = Upto(w.xTxSegments[i])
           /\ \A tail, a : Placed(w.xTxSegments, tail, a) => Placed(v.xTxSegments, tail, a)
           /\ \A x : Clear(w.xTxSegments, x) => Clear(v.xTxSegments, x)
           /\ \A got : PeerHas(w, got) => PeerHas(v, got)
           /\ Len(v.xTxSegments) = Len(w.xTxSegments)
<1>1. PICK segs, new : segs = w.xTxSegments /\ new = v.xTxSegments
    OBVIOUS
<1>2. /\ segs \in Seq(SegmentType) /\ new \in Seq(SegmentType) /\ SameLayout(segs, new)
      /\ Len(new) = Len(segs) /\ Cur(v) = Cur(w) /\ High(v) = High(w)
      /\ \A i \in 1 .. Len(segs) : /\ new[i].ulSequenceNumber = segs[i].ulSequenceNumber
                                   /\ new[i].bOutstanding = segs[i].bOutstanding
                                   /\ new[i].bAcked = segs[i].bAcked
    BY <1>1, WindowFields DEF WindowOK, Alike, SameLayout
<1>3. Flying(new) = Flying(segs)
    BY <1>2, FlyingSame
<1>4. \A i \in 1 .. Len(segs) : Start(new[i]) = Start(segs[i]) /\ Upto(new[i]) = Upto(segs[i])
    BY <1>2, LayoutKept
<1>5. ASSUME NEW tail, NEW a, Placed(segs, tail, a)
      PROVE  Placed(new, tail, a)
    BY <1>2, <1>5, LayoutKept
<1>6. \A x : Clear(segs, x) => Clear(new, x)
    BY <1>2, <1>4 DEF Clear
<1>7. \A got : PeerHas(w, got) => PeerHas(v, got)
    BY <1>1, <1>2, <1>4 DEF PeerHas
<1> QED
    BY <1>1, <1>2, <1>3, <1>4, <1>5, <1>6, <1>7

LEMMA AlikeOK ==
    ASSUME NEW w, WindowOK(w), NEW v \in WindowType, Alike(w, v),
           InFlight(w.xTxSegments, v.xPriorityQueue, v.xWaitQueue)
    PROVE  WindowOK(v)
<1>1. PICK segs, new : segs = w.xTxSegments /\ new = v.xTxSegments
    OBVIOUS
<1>2. /\ segs \in Seq(SegmentType) /\ new \in Seq(SegmentType) /\ SameLayout(segs, new)
      /\ Len(new) = Len(segs) /\ Cur(v) = Cur(w) /\ High(v) = High(w) /\ Nxt(v) = Nxt(w)
      /\ w.xTxQueue \in Seq(SeqNumber) /\ v.xTxQueue = w.xTxQueue
      /\ v.pxHeadSegment = w.pxHeadSegment /\ Len(segs) \in Nat
      /\ \A i \in 1 .. Len(segs) : /\ new[i].bOutstanding = segs[i].bOutstanding
                                   /\ new[i].bAcked = segs[i].bAcked
    BY <1>1, WindowFields DEF WindowOK, Alike, SameLayout
<1>3. /\ Cur(w) <= High(w) /\ High(w) <= Nxt(w) /\ Nxt(w) <= MaxBytes
      /\ Tiled(segs, Cur(w), Nxt(w)) /\ Unsent(segs, w.xTxQueue, High(w), Nxt(w))
      /\ HeadFits(segs, w.pxHeadSegment)
    BY <1>1 DEF WindowOK
<1>4. Tiled(new, Cur(w), Nxt(w))
    BY <1>2, <1>3, LayoutKept
<1>5. Unsent(new, w.xTxQueue, High(w), Nxt(w))
    <2>1. \A i \in 1 .. Len(segs) : (new[i].bOutstanding <=> segs[i].bOutstanding)
                                    /\ (new[i].bAcked => new[i].bOutstanding)
        BY <1>2, <1>3 DEF Unsent
    <2> QED
        BY <2>1, <1>2, <1>3, UnsentKept
<1>6. InFlight(new, v.xPriorityQueue, v.xWaitQueue)
    BY <1>1, AlikeFacts DEF InFlight
<1>7. HeadFits(new, w.pxHeadSegment)
    <2> SUFFICES ASSUME w.pxHeadSegment # NoSegment PROVE HeadFits(new, w.pxHeadSegment)
        BY DEF HeadFits
    <2>1. Len(segs) # 0 /\ ~segs[Len(segs)].bOutstanding
        BY <1>3 DEF HeadFits
    <2>2. Len(segs) \in 1 .. Len(segs)
        BY <2>1, <1>2
    <2>3. ~new[Len(new)].bOutstanding
        BY <2>1, <2>2, <1>2
    <2> QED
        BY <2>3, <1>2, <1>3, LayoutKept
<1>8. Tiled(v.xTxSegments, Cur(v), Nxt(v)) /\ Unsent(v.xTxSegments, v.xTxQueue, High(v), Nxt(v))
      /\ InFlight(v.xTxSegments, v.xPriorityQueue, v.xWaitQueue) /\ HeadFits(v.xTxSegments, v.pxHeadSegment)
    BY <1>1, <1>2, <1>4, <1>5, <1>6, <1>7, Zenon
<1>9. Cur(v) <= High(v) /\ High(v) <= Nxt(v) /\ Nxt(v) <= MaxBytes
    BY <1>2, <1>3
<1> QED
    BY <1>8, <1>9 DEF WindowOK

LEMMA AlikeOnward ==
    ASSUME NEW u, NEW v, NEW w, Alike(u, v), Alike(v, w)
    PROVE  Alike(u, w)
BY DEF Alike, SameLayout

LEMMA AlikeItself ==
    ASSUME NEW w
    PROVE  Alike(w, w)
BY DEF Alike, SameLayout

LEMMA CountDupAckOK ==
    ASSUME NEW w, WindowOK(w), NEW seq \in Flying(w.xTxSegments), NEW first, NEW v, v = CountDupAck(w, seq, first)
    PROVE  WindowOK(v) /\ Alike(w, v)
<1>1. PICK segs : segs = w.xTxSegments
    OBVIOUS
<1>2. /\ w \in WindowType /\ segs \in Seq(SegmentType) /\ Len(segs) \in Nat /\ DOMAIN segs = 1 .. Len(segs)
      /\ Tiled(segs, Cur(w), Nxt(w)) /\ InFlight(segs, w.xPriorityQueue, w.xWaitQueue)
      /\ w.xPriorityQueue \in Seq(SeqNumber) /\ w.xWaitQueue \in Seq(SeqNumber) /\ w.xTxQueue \in Seq(SeqNumber)
      /\ Distinct(w.xPriorityQueue) /\ Distinct(w.xWaitQueue) /\ Distinct(w.xTxQueue)
    BY <1>1, WindowFields, TxQueueEntry DEF WindowOK, InFlight
<1>3. PICK k \in 1 .. Len(segs) : seq = segs[k].ulSequenceNumber /\ segs[k].bOutstanding
    BY <1>1 DEF Flying
<1>4. PICK s : s = segs[k]
    OBVIOUS
<1>5. /\ s \in SegmentType /\ seq = s.ulSequenceNumber /\ seq \in SeqNumber /\ Segment(w, seq) = s
      /\ seq \notin ToSet(w.xTxQueue) /\ s.ucDupAckCount \in Nat
    <2>1. s \in SegmentType /\ seq = s.ulSequenceNumber /\ Segment(w, seq) = s /\ seq \notin ToSet(w.xTxQueue)
        BY <1>1, <1>2, <1>3, <1>4, SegmentEntry, SegmentFound, TxQueueEntry
    <2> QED
        BY <2>1, SegmentParts
<1> DEFINE n == Segment(w, seq).ucDupAckCount + 1
<1> DEFINE counted == Update(w, seq, LAMBDA t : [t EXCEPT !.ucDupAckCount = Least(n, DuplicateAcks + 1),
                                                         !.ucTransmitCount = IF n = DuplicateAcks THEN 0 ELSE @])
<1>13. v = w \/ v = counted \/ v = Requeue(counted, seq)
    BY DEF CountDupAck
<1>6. n \in Nat \ {0}
    BY <1>5
<1> HIDE DEF n, counted
<1>7. PICK dups, sends : dups = Least(n, DuplicateAcks + 1)
                         /\ sends = IF n = DuplicateAcks THEN 0 ELSE s.ucTransmitCount
    OBVIOUS
<1>8. dups \in 0 .. DuplicateAcks + 1 /\ sends \in 0 .. MaxTransmitCount
    BY <1>5, <1>6, <1>7, TxAssumption DEF Least, SegmentType
<1>9. PICK z : z = [s EXCEPT !.ucDupAckCount = dups, !.ucTransmitCount = sends]
    OBVIOUS
<1>10. /\ z \in SegmentType /\ z.ulSequenceNumber = seq /\ z.lDataLength = s.lDataLength
       /\ z.lStreamPos = s.lStreamPos /\ z.bOutstanding = s.bOutstanding /\ z.bAcked = s.bAcked
    BY <1>5, <1>8, <1>9 DEF SegmentType
<1>11. PICK new : new = [segs EXCEPT ![k] = z]
    OBVIOUS
<1>12. /\ new \in Seq(SegmentType) /\ Len(new) = Len(segs)
       /\ new[k] = z /\ \A i \in 1 .. Len(segs) : i # k => new[i] = segs[i]
    BY <1>2, <1>10, <1>11, ExceptSeq
<1>14. counted = [w EXCEPT !.xTxSegments = new]
    <2>1. [i \in DOMAIN segs |-> IF segs[i].ulSequenceNumber = segs[k].ulSequenceNumber
                                 THEN z ELSE segs[i]] = [segs EXCEPT ![k] = z]
        BY <1>2, OneMatches
    <2>2. \A i \in DOMAIN segs : segs[i].ulSequenceNumber = seq => segs[i] = s
        <3> SUFFICES ASSUME NEW i \in 1 .. Len(segs)
                     PROVE  segs[i].ulSequenceNumber = segs[k].ulSequenceNumber => segs[i] = s
            BY <1>2, <1>3
        <3> QED
            BY <1>2, <1>4, Apart
    <2>3. [i \in DOMAIN segs |-> IF segs[i].ulSequenceNumber = seq
                                 THEN [segs[i] EXCEPT !.ucDupAckCount = Least(n, DuplicateAcks + 1),
                                                      !.ucTransmitCount = IF n = DuplicateAcks THEN 0 ELSE @]
                                 ELSE segs[i]] = new
        <3>1. z = [s EXCEPT !.ucDupAckCount = Least(n, DuplicateAcks + 1),
                            !.ucTransmitCount = IF n = DuplicateAcks THEN 0 ELSE @]
            BY <1>5, <1>7, <1>9 DEF SegmentType
        <3> QED
            BY <3>1, <2>1, <2>2, <1>3, <1>11
    <2> QED
        BY <2>3, <1>1 DEF counted, Update
<1>15. /\ counted \in WindowType /\ Cur(counted) = Cur(w) /\ High(counted) = High(w) /\ Nxt(counted) = Nxt(w)
       /\ counted.xTxSegments = new /\ counted.xPriorityQueue = w.xPriorityQueue
       /\ counted.xWaitQueue = w.xWaitQueue /\ counted.xTxQueue = w.xTxQueue
       /\ counted.pxHeadSegment = w.pxHeadSegment
    <2>1. /\ counted \in WindowType /\ counted.ulCurrentSequenceNumber = w.ulCurrentSequenceNumber
          /\ counted.ulHighestSequenceNumber = w.ulHighestSequenceNumber
          /\ counted.ulNextTxSequenceNumber = w.ulNextTxSequenceNumber
          /\ counted.xTxSegments = new /\ counted.xPriorityQueue = w.xPriorityQueue
          /\ counted.xWaitQueue = w.xWaitQueue /\ counted.xTxQueue = w.xTxQueue
          /\ counted.pxHeadSegment = w.pxHeadSegment
        BY <1>2, <1>12, <1>14 DEF WindowType
    <2> QED
        BY <2>1 DEF Cur, High, Nxt
<1>16. /\ SameLayout(segs, new)
       /\ \A i \in 1 .. Len(segs) : new[i].bOutstanding = segs[i].bOutstanding /\ new[i].bAcked = segs[i].bAcked
    <2>1. SameLayout(segs, new)
        BY <1>2, <1>3, <1>4, <1>10, <1>12, OneChanged
    <2>2. new[k].bOutstanding = segs[k].bOutstanding /\ new[k].bAcked = segs[k].bAcked
        BY <1>4, <1>10, <1>12
    <2> QED
        BY <2>1, <2>2, <1>12
<1>17. Alike(w, counted)
    BY <1>1, <1>15, <1>16 DEF Alike
<1>18. CASE v = w
    BY <1>18, AlikeItself
<1>19. CASE v = counted
    <2>1. InFlight(w.xTxSegments, counted.xPriorityQueue, counted.xWaitQueue)
        BY <1>1, <1>2, <1>15
    <2> QED
        BY <2>1, <1>15, <1>17, <1>19, AlikeOK
<1>20. CASE v = Requeue(counted, seq)
    <2>1. PICK u : u = Unlink(counted, seq)
        OBVIOUS
    <2>2. /\ RemoveFirst(w.xWaitQueue, seq) \in Seq(SeqNumber)
          /\ Distinct(RemoveFirst(w.xWaitQueue, seq))
          /\ ToSet(RemoveFirst(w.xWaitQueue, seq)) = ToSet(w.xWaitQueue) \ {seq}
          /\ RemoveFirst(w.xTxQueue, seq) = w.xTxQueue
        BY <1>2, <1>5, Removed
    <2>3. PICK prio : prio = RemoveFirst(w.xPriorityQueue, seq)
        OBVIOUS
    <2>4. prio \in Seq(SeqNumber) /\ Distinct(prio) /\ ToSet(prio) = ToSet(w.xPriorityQueue) \ {seq}
        BY <2>3, <1>2, Removed
    <2>5. /\ u \in WindowType /\ Cur(u) = Cur(w) /\ High(u) = High(w) /\ Nxt(u) = Nxt(w) /\ u.xTxSegments = new
          /\ u.xPriorityQueue = prio /\ u.xWaitQueue = RemoveFirst(w.xWaitQueue, seq)
          /\ u.xTxQueue = w.xTxQueue /\ u.pxHeadSegment = w.pxHeadSegment
        <3>1. /\ Distinct(counted.xPriorityQueue) /\ Distinct(counted.xWaitQueue) /\ Distinct(counted.xTxQueue)
            BY <1>2, <1>15
        <3>2. /\ u \in WindowType /\ u.ulCurrentSequenceNumber = counted.ulCurrentSequenceNumber
              /\ u.ulHighestSequenceNumber = counted.ulHighestSequenceNumber
              /\ u.ulNextTxSequenceNumber = counted.ulNextTxSequenceNumber /\ u.xTxSegments = new
              /\ u.xPriorityQueue = prio /\ u.xWaitQueue = RemoveFirst(w.xWaitQueue, seq)
              /\ u.xTxQueue = w.xTxQueue /\ u.pxHeadSegment = w.pxHeadSegment
            BY <2>1, <2>2, <2>3, <3>1, <1>15, UnlinkFields
        <3> QED
            BY <3>2, <1>15 DEF Cur, High, Nxt
    <2>6. v = [u EXCEPT !.xPriorityQueue = Append(@, seq)]
        BY <2>1, <1>20 DEF Requeue
    <2>7. PICK queue : queue = Append(prio, seq)
        OBVIOUS
    <2>8. queue \in Seq(SeqNumber) /\ Distinct(queue) /\ ToSet(queue) = ToSet(prio) \cup {seq}
        BY <2>4, <2>7, <1>5, Queued1
    <2>9. /\ v \in WindowType /\ Cur(v) = Cur(w) /\ High(v) = High(w) /\ Nxt(v) = Nxt(w) /\ v.xTxSegments = new
          /\ v.xPriorityQueue = queue /\ v.xWaitQueue = RemoveFirst(w.xWaitQueue, seq)
          /\ v.xTxQueue = w.xTxQueue /\ v.pxHeadSegment = w.pxHeadSegment
        <3>1. /\ v \in WindowType /\ v.ulCurrentSequenceNumber = u.ulCurrentSequenceNumber
              /\ v.ulHighestSequenceNumber = u.ulHighestSequenceNumber
              /\ v.ulNextTxSequenceNumber = u.ulNextTxSequenceNumber /\ v.xTxSegments = new
              /\ v.xPriorityQueue = queue /\ v.xWaitQueue = RemoveFirst(w.xWaitQueue, seq)
              /\ v.xTxQueue = w.xTxQueue /\ v.pxHeadSegment = w.pxHeadSegment
            BY <2>5, <2>6, <2>7, <2>8 DEF WindowType
        <3> QED
            BY <3>1, <2>5 DEF Cur, High, Nxt
    <2>10. Alike(w, v)
        BY <2>9, <1>1, <1>16 DEF Alike
    <2>11. InFlight(w.xTxSegments, v.xPriorityQueue, v.xWaitQueue)
        <3>1. seq \in ToSet(w.xPriorityQueue) \cup ToSet(w.xWaitQueue)
            BY <1>1, <1>2 DEF InFlight
        <3> QED
            BY <3>1, <2>2, <2>4, <2>8, <2>9, <1>1, <1>2 DEF InFlight
    <2> QED
        BY <2>9, <2>10, <2>11, AlikeOK
<1> QED
    BY <1>13, <1>18, <1>19, <1>20

LEMMA FastRetransmitOK ==
    ASSUME NEW w, WindowOK(w), NEW first, NEW v, v = FastRetransmit(w, first)
    PROVE  WindowOK(v) /\ Alike(w, v)
<1> DEFINE wait == w.xWaitQueue
<1> DEFINE N == Len(w.xWaitQueue)
<1> DEFINE loop == CHOOSE g : g = [i \in 0 .. N |-> IF i = 0 THEN w ELSE CountDupAck(g[i - 1], wait[i], first)]
<1>1. v = loop[N]
    BY Zenon DEF FastRetransmit
<1>2. /\ N \in Nat /\ Flying(w.xTxSegments) = ToSet(w.xPriorityQueue) \cup ToSet(wait)
      /\ DOMAIN wait = 1 .. N
    BY WindowFields, LenProperties DEF WindowOK, InFlight
<1>3. PICK data : data = << wait, first >>
    OBVIOUS
<1>4. \A n, x : Turn("fast", data, x, n) = CountDupAck(x, wait[n], first)
    BY <1>3 DEF Turn
<1>5. PICK f : Runs("fast", data, w, N, f)
    <2> HIDE DEF N, wait
    <2> QED
        BY <1>2, RunExists
<1>6. f = [i \in 0 .. N |-> IF i = 0 THEN w ELSE CountDupAck(f[i - 1], wait[i], first)]
    <2>1. f = [i \in 0 .. N |-> IF i = 0 THEN w ELSE Turn("fast", data, f[i - 1], i)]
        BY <1>5, Zenon DEF Runs
    <2> HIDE DEF N, wait
    <2> QED
        BY <2>1, <1>4
<1>7. loop = [i \in 0 .. N |-> IF i = 0 THEN w ELSE CountDupAck(loop[i - 1], wait[i], first)]
    BY <1>6, Zenon
<1> HIDE DEF N, wait, loop
<1>8. /\ loop[0] = w
      /\ \A i \in 1 .. N : loop[i] = CountDupAck(loop[i - 1], wait[i], first)
    <2>1. loop = [i \in 0 .. N |-> IF i = 0 THEN w ELSE Turn("fast", data, loop[i - 1], i)]
        BY <1>4, <1>7
    <2>2. PICK h : h = loop
        OBVIOUS
    <2>3. h = [i \in 0 .. N |-> IF i = 0 THEN w ELSE Turn("fast", data, h[i - 1], i)]
        BY <2>1, <2>2
    <2>4. Runs("fast", data, w, N, h)
        BY <2>3, Zenon DEF Runs
    <2>5. h[0] = w /\ \A i \in 1 .. N : h[i] = Turn("fast", data, h[i - 1], i)
        BY <2>4, <1>2, RunSteps
    <2> QED
        BY <2>2, <2>5, <1>4
<1> DEFINE good == {n \in 0 .. N : WindowOK(loop[n]) /\ Alike(w, loop[n])}
<1>9. 0 \in good
    BY <1>2, <1>8, AlikeItself
<1>10. ASSUME NEW i \in 1 .. N, i - 1 \in good
       PROVE  i \in good
    <2>1. PICK u : u = loop[i - 1]
        OBVIOUS
    <2>2. WindowOK(u) /\ Alike(w, u) /\ u \in WindowType
        BY <2>1, <1>10 DEF WindowOK
    <2>3. loop[i] = CountDupAck(u, wait[i], first)
        BY <2>1, <1>8
    <2>4. wait[i] \in Flying(u.xTxSegments)
        <3>1. wait[i] \in ToSet(wait)
            BY <1>2 DEF ToSet
        <3>2. Flying(u.xTxSegments) = Flying(w.xTxSegments)
            BY <2>2, AlikeFacts
        <3> QED
            BY <3>1, <3>2, <1>2
    <2>5. WindowOK(loop[i]) /\ Alike(u, loop[i])
        BY <2>2, <2>3, <2>4, CountDupAckOK
    <2>6. Alike(w, loop[i])
        BY <2>2, <2>5, AlikeOnward
    <2> QED
        BY <2>5, <2>6, <1>2
<1>11. \A i \in 0 .. N : i \in good
    <2> HIDE DEF good
    <2> QED
        BY <1>2, <1>9, <1>10, Induction
<1> QED
    BY <1>1, <1>2, <1>11

-----------------------------------------------------------------------------
(* An acknowledgement and its option *)

LEMMA TxSackOK ==
    ASSUME NEW got, NEW c, ContextOK(c, got), NEW first \in SeqNumber, NEW last \in SeqNumber,
           Position(first) <= MaxBytes, Position(last) <= MaxBytes,
           Position(first) .. Position(last) - 1 \subseteq got, NEW d, d = TxSack(c, first, last)
    PROVE  /\ ContextOK(d, got) /\ d.windowSize = c.windowSize
           /\ Acknowledges(c.window, d.window, Position(first), Position(last))
<1>1. PICK b : b = CheckAck(c, first, last)
    OBVIOUS
<1>2. /\ ContextOK(b, got) /\ b.windowSize = c.windowSize
      /\ Acknowledges(c.window, b.window, Position(first), Position(last))
    BY <1>1, CheckAckOK
<1>3. PICK w, v : w = b.window /\ v = FastRetransmit(w, first)
    OBVIOUS
<1>4. WindowOK(w) /\ Matches(w, b.stream) /\ PoolOK(b.free, w.xTxSegments) /\ b \in ContextType
      /\ (\A packet \in b.packets : PacketOK(packet, High(w))) /\ PeerHas(w, got)
    BY <1>2, <1>3 DEF ContextOK
<1>5. WindowOK(v) /\ Alike(w, v) /\ v \in WindowType
    BY <1>3, <1>4, FastRetransmitOK DEF WindowOK
<1>6. d = [b EXCEPT !.window = v]
    BY <1>1, <1>3 DEF TxSack
<1>7. /\ d \in ContextType /\ d.window = v /\ d.stream = b.stream /\ d.windowSize = b.windowSize
      /\ d.free = b.free /\ d.packets = b.packets
    BY <1>4, <1>5, <1>6 DEF ContextType
<1>8. /\ Cur(v) = Cur(w) /\ High(v) = High(w) /\ Nxt(v) = Nxt(w)
      /\ Placed(v.xTxSegments, b.stream.tail, Cur(w)) /\ PeerHas(v, got)
      /\ \A x : Clear(w.xTxSegments, x) => Clear(v.xTxSegments, x)
      /\ Len(v.xTxSegments) = Len(w.xTxSegments)
    BY <1>4, <1>5, AlikeFacts DEF Alike, Matches
<1>9. Matches(v, b.stream)
    BY <1>4, <1>8 DEF Matches
<1>10. ContextOK(d, got)
    BY <1>4, <1>5, <1>7, <1>8, <1>9 DEF ContextOK, PoolOK
<1>11. Acknowledges(c.window, v, Position(first), Position(last))
    BY <1>2, <1>3, <1>8 DEF Acknowledges
<1> QED
    BY <1>2, <1>7, <1>10, <1>11

\* An option tells of what lies beyond a gap, if its acknowledgement is not an old
\* one: it does not move the window.
LEMMA ReadSackOptionOK ==
    ASSUME NEW got, NEW c, ContextOK(c, got), NEW m \in AckType, AckOK(m, got), NEW d, d = ReadSackOption(c, m.sack)
    PROVE  /\ ContextOK(d, got) /\ d.windowSize = c.windowSize /\ High(d.window) = High(c.window)
           /\ (m.sack # << >> => Cur(c.window) < Position(m.sack[1])) => Cur(d.window) = Cur(c.window)
           /\ \A x \in Nat : Clear(c.window.xTxSegments, x)
                             /\ (m.sack # << >> => x <= Position(m.sack[1]) \/ Position(m.sack[2]) <= x)
                             => Clear(d.window.xTxSegments, x)
<1>1. CASE m.sack = << >>
    BY <1>1 DEF ReadSackOption
<1>2. CASE m.sack # << >>
    <2>1. PICK first \in SeqNumber, last \in SeqNumber : first = m.sack[1] /\ last = m.sack[2]
        BY <1>2 DEF AckType
    <2>2. /\ Position(first) < Position(last) /\ Position(last) <= MaxBytes
          /\ Position(first) .. Position(last) - 1 \subseteq got
        BY <2>1, <1>2 DEF AckOK
    <2>3. Position(first) <= MaxBytes
        <3>1. Position(first) \in Nat /\ Position(last) \in Nat /\ MaxBytes \in Nat
            BY PositionValue, Constants DEF SeqNumber
        <3> QED
            BY <3>1, <2>2
    <2>4. d = TxSack(c, first, last)
        BY <2>1, <1>2 DEF ReadSackOption
    <2>5. /\ ContextOK(d, got) /\ d.windowSize = c.windowSize
          /\ Acknowledges(c.window, d.window, Position(first), Position(last))
        BY <2>2, <2>3, <2>4, TxSackOK
    <2> QED
        BY <2>1, <2>5, <1>2 DEF Acknowledges
<1> QED
    BY <1>1, <1>2

\* What an acknowledgement of all that lies below p does.
MovesOn(w, v, p) ==
    /\ High(v) = High(w)
    /\ Cur(w) <= p /\ Clear(w.xTxSegments, p) => Cur(v) <= p
    /\ \A x \in Nat : Clear(w.xTxSegments, x) /\ p <= x => Clear(v.xTxSegments, x)

LEMMA TxAckOK ==
    ASSUME NEW got, NEW c, ContextOK(c, got), NEW seq \in SeqNumber, Position(seq) <= MaxBytes,
           0 .. Position(seq) - 1 \subseteq got, NEW d, d = TxAck(c, seq)
    PROVE  ContextOK(d, got) /\ d.windowSize = c.windowSize /\ MovesOn(c.window, d.window, Position(seq))
<1>1. PICK w : w = c.window
    OBVIOUS
<1>2. /\ WindowOK(w) /\ w.ulCurrentSequenceNumber \in SeqNumber /\ Cur(w) \in Nat /\ Cur(w) <= MaxBytes
      /\ Position(w.ulCurrentSequenceNumber) = Cur(w)
    <2>1. WindowOK(w)
        BY <1>1 DEF ContextOK
    <2>2. /\ Cur(w) \in Nat /\ High(w) \in Nat /\ Nxt(w) \in Nat /\ w.ulCurrentSequenceNumber \in SeqNumber
          /\ MaxBytes \in Nat
        BY <2>1, WindowFields, Constants DEF WindowOK
    <2>3. Cur(w) <= MaxBytes
        BY <2>1, <2>2 DEF WindowOK
    <2> QED
        BY <2>1, <2>2, <2>3 DEF Cur
<1>3. CASE d = c
    BY <1>3 DEF MovesOn
<1>4. CASE d = CheckAck(c, w.ulCurrentSequenceNumber, seq)
    <2>1. Cur(w) .. Position(seq) - 1 \subseteq got
        BY <1>2, PositionValue DEF SeqNumber
    <2>2. /\ ContextOK(d, got) /\ d.windowSize = c.windowSize
          /\ Acknowledges(c.window, d.window, Cur(w), Position(seq))
        BY <2>1, <1>2, <1>4, CheckAckOK
    <2> QED
        BY <2>2, <1>1 DEF Acknowledges, MovesOn
<1> QED
    BY <1>1, <1>3, <1>4 DEF TxAck

-----------------------------------------------------------------------------
(* The peer's answers *)

\* What the peer holds of the stream without a gap.
LEMMA PrefixValue ==
    ASSUME NEW h \in Nat, h <= MaxBytes, NEW got, got \subseteq 0 .. h - 1
    PROVE  Prefix(got) \in 0 .. MaxBytes /\ Prefix(got) \notin got /\ 0 .. Prefix(got) - 1 \subseteq got
<1> DEFINE K == (0 .. MaxBytes) \ got
<1>1. MaxBytes \in Nat
    BY Constants
<1>2. MaxBytes \in K
    <2>1. MaxBytes \notin 0 .. h - 1
        BY <1>1
    <2> QED
        BY <2>1, <1>1
<1>3. PICK p \in K : \A j \in K : p <= j
    <2>1. K \in SUBSET (0 .. MaxBytes) /\ K # {}
        BY <1>2
    <2> HIDE DEF K
    <2> QED
        BY <2>1, <1>1, Smallest
<1>4. ASSUME NEW x \in 0 .. p - 1
      PROVE  x \in got
    <2>1. p \in 0 .. MaxBytes
        BY <1>3
    <2>2. x \in 0 .. MaxBytes /\ ~(p <= x)
        BY <2>1, <1>1
    <2> QED
        BY <2>2, <1>3
<1>5. p \in 0 .. MaxBytes /\ p \notin got /\ (0 .. p - 1) \subseteq got
    BY <1>3, <1>4
<1> QED
    BY <1>5 DEF Prefix

\* What can be said of a part of what the peer holds, and of the end of the rest.
LEMMA BelowPrefix ==
    ASSUME NEW p \in Nat, NEW got, p \notin got, NEW a \in Nat, NEW b \in Nat, a .. b - 1 \subseteq got, a <= p
    PROVE  b <= p
<1> SUFFICES ASSUME p < b PROVE FALSE
    OBVIOUS
<1>1. p \in a .. b - 1
    OBVIOUS
<1> QED
    BY <1>1

\* Of the queue all but the first, or all, and after these m.
Follow(S, queue, m, new) ==
    \E k \in {0, 1}, L \in Nat :
       /\ k <= Len(queue) /\ Len(queue) = L + k
       /\ new \in Seq(S) /\ Len(new) = L + 1 /\ L + 1 <= MaxAcks /\ new[L + 1] = m
       /\ \A i \in 1 .. L : i + k \in 1 .. Len(queue) /\ new[i] = queue[i + k]

\* Too many answers in flight, and the oldest is lost.
LEMMA SentEntries ==
    ASSUME NEW S, NEW queue \in Seq(S), Len(queue) <= MaxAcks, NEW m \in S, NEW new, new = Sent(queue, m)
    PROVE  Follow(S, queue, m, new)
<1>1. Len(queue) \in Nat /\ MaxAcks \in Nat /\ MaxAcks > 0
    BY LenProperties, TxAssumption
<1>2. CASE Len(queue) = MaxAcks
    <2>1. PICK rest : rest = Tail(queue)
        OBVIOUS
    <2>2. queue # << >>
        BY <1>1, <1>2, EmptySeq
    <2>3. rest \in Seq(S) /\ Len(rest) = Len(queue) - 1 /\ \A i \in 1 .. Len(rest) : rest[i] = queue[i + 1]
        BY <2>1, <2>2, HeadTailProperties
    <2>4. PICK L \in Nat : L = Len(rest)
        BY <2>3, LenProperties
    <2>5. new = Append(rest, m)
        BY <2>1, <1>2 DEF Sent
    <2>6. /\ new \in Seq(S) /\ Len(new) = L + 1 /\ new[L + 1] = m
          /\ \A i \in 1 .. L : new[i] = rest[i]
        BY <2>3, <2>4, <2>5, AppendProperties
    <2>7. Len(queue) = L + 1 /\ L + 1 <= MaxAcks /\ 1 <= Len(queue)
        BY <2>3, <2>4, <1>1, <1>2
    <2>8. \A i \in 1 .. L : i + 1 \in 1 .. Len(queue) /\ new[i] = queue[i + 1]
        BY <2>3, <2>4, <2>6, <2>7
    <2> QED
        BY <2>6, <2>7, <2>8 DEF Follow
<1>3. CASE Len(queue) # MaxAcks
    <2>1. PICK L \in Nat : L = Len(queue)
        BY <1>1
    <2>2. new = Append(queue, m)
        BY <1>3 DEF Sent
    <2>3. /\ new \in Seq(S) /\ Len(new) = L + 1 /\ new[L + 1] = m
          /\ \A i \in 1 .. L : new[i] = queue[i]
        BY <2>1, <2>2, AppendProperties
    <2>4. L + 1 <= MaxAcks /\ Len(queue) = L + 0 /\ 0 <= Len(queue)
        BY <2>1, <1>1, <1>3
    <2>5. \A i \in 1 .. L : i + 0 \in 1 .. Len(queue) /\ new[i] = queue[i + 0]
        BY <2>1, <2>3
    <2> QED
        BY <2>3, <2>4, <2>5 DEF Follow
<1> QED
    BY <1>2, <1>3

\* The peer answers with all it has, and perhaps a block beyond a gap.
AnswerOf(m, got, e) ==
    /\ m \in AckType /\ Position(m.ack) = Prefix(got) /\ m.window = e - Prefix(got)
    /\ m.sack # << >> =>
          /\ Prefix(got) < Position(m.sack[1]) /\ Position(m.sack[1]) < Position(m.sack[2])
          /\ Position(m.sack[2]) <= MaxBytes
          /\ Position(m.sack[1]) .. Position(m.sack[2]) - 1 \subseteq got

LEMMA AckMore ==
    ASSUME NEW m, NEW got, NEW more, got \subseteq more, AckOK(m, got)
    PROVE  AckOK(m, more)
BY DEF AckOK

\* The newest answer asks for at least what the others in flight do.
LEMMA AnswerSent ==
    ASSUME NEW w, WindowOK(w), NEW got, PeerHas(w, got), NEW e \in Nat,
           NEW queue \in Seq(AckType), Len(queue) <= MaxAcks, \A i \in 1 .. Len(queue) : AckOK(queue[i], got),
           NEW m, AnswerOf(m, got, e), NEW new, new = Sent(queue, m)
    PROVE  /\ new \in Seq(AckType) /\ Len(new) <= MaxAcks /\ \A i \in 1 .. Len(new) : AckOK(new[i], got)
           /\ InOrder(w, queue, e) => InOrder(w, new, e)
<1>1. /\ High(w) \in Nat /\ High(w) <= MaxBytes /\ Cur(w) \in Nat /\ w.xTxSegments \in Seq(SegmentType)
    <2>1. /\ High(w) \in Nat /\ Nxt(w) \in Nat /\ High(w) <= Nxt(w) /\ Nxt(w) <= MaxBytes
          /\ Cur(w) \in Nat /\ w.xTxSegments \in Seq(SegmentType)
        BY WindowFields DEF WindowOK
    <2> QED
        BY <2>1, Constants
<1>2. PICK p \in Nat : p = Prefix(got) /\ p <= MaxBytes /\ p \notin got /\ 0 .. p - 1 \subseteq got
    <2>1. got \subseteq 0 .. High(w) - 1
        BY DEF PeerHas
    <2>2. Prefix(got) \in 0 .. MaxBytes /\ Prefix(got) \notin got /\ 0 .. Prefix(got) - 1 \subseteq got
        BY <2>1, <1>1, PrefixValue
    <2>3. Prefix(got) \in Nat /\ Prefix(got) <= MaxBytes
        BY <2>2, Constants
    <2> QED
        BY <2>2, <2>3
<1>3. /\ m \in AckType /\ Position(m.ack) = p /\ m.window = e - p
      /\ m.sack # << >> => p < Position(m.sack[1])
    BY <1>2 DEF AnswerOf
<1>4. AckOK(m, got)
    BY <1>2 DEF AnswerOf, AckOK
<1>5. PICK k \in {0, 1}, L \in Nat :
              /\ k <= Len(queue) /\ Len(queue) = L + k
              /\ new \in Seq(AckType) /\ Len(new) = L + 1 /\ L + 1 <= MaxAcks /\ new[L + 1] = m
              /\ \A i \in 1 .. L : i + k \in 1 .. Len(queue) /\ new[i] = queue[i + k]
    <2>1. m \in AckType
        BY <1>3
    <2>2. Follow(AckType, queue, m, new)
        BY <2>1, SentEntries
    <2> QED
        BY <2>2 DEF Follow
<1>6. ASSUME NEW i \in 1 .. L + 1
      PROVE  AckOK(new[i], got)
    <2>1. CASE i = L + 1
        BY <2>1, <1>4, <1>5
    <2>2. CASE i # L + 1
        <3>1. i \in 1 .. L
            BY <2>2
        <3> QED
            BY <3>1, <1>5
    <2> QED
        BY <2>1, <2>2
<1>7. ASSUME InOrder(w, queue, e)
      PROVE  InOrder(w, new, e)
    <2>1. ASSUME NEW i \in 1 .. L
          PROVE  /\ Position(new[i].ack) + new[i].window <= e
                 /\ Cur(w) <= Position(new[i].ack)
                 /\ Clear(w.xTxSegments, Position(new[i].ack))
                 /\ new[i].sack # << >> => Position(new[i].ack) < Position(new[i].sack[1])
        <3>1. i + k \in 1 .. Len(queue) /\ new[i] = queue[i + k]
            BY <1>5
        <3> QED
            BY <3>1, <1>7 DEF InOrder
    <2>2. /\ p + (e - p) <= e /\ Cur(w) <= p /\ Clear(w.xTxSegments, p)
        <3>1. Cur(w) <= p
            BY <1>1, <1>2, BelowPrefix DEF PeerHas
        <3>2. ASSUME NEW i \in 1 .. Len(w.xTxSegments), w.xTxSegments[i].bAcked, Start(w.xTxSegments[i]) < p
              PROVE  Upto(w.xTxSegments[i]) <= p
            <4>1. Start(w.xTxSegments[i]) \in Nat /\ Upto(w.xTxSegments[i]) \in Nat
                BY <1>1, SegmentEntry
            <4>2. Start(w.xTxSegments[i]) .. Upto(w.xTxSegments[i]) - 1 \subseteq got
                BY <3>2 DEF PeerHas
            <4>3. Start(w.xTxSegments[i]) <= p
                BY <4>1, <3>2
            <4> QED
                BY <4>1, <4>2, <4>3, <1>2, BelowPrefix
        <3> QED
            BY <3>1, <3>2, <1>2 DEF Clear
    <2>3. ASSUME NEW i \in 1 .. L + 1
          PROVE  /\ Position(new[i].ack) + new[i].window <= e
                 /\ Cur(w) <= Position(new[i].ack)
                 /\ Clear(w.xTxSegments, Position(new[i].ack))
                 /\ new[i].sack # << >> => Position(new[i].ack) < Position(new[i].sack[1])
        <3>1. CASE i = L + 1
            BY <3>1, <2>2, <1>3, <1>5
        <3>2. CASE i # L + 1
            <4>1. i \in 1 .. L
                BY <3>2
            <4> QED
                BY <4>1, <2>1
        <3> QED
            BY <3>1, <3>2
    <2>4. ASSUME NEW i \in 1 .. L
          PROVE  /\ Position(new[i].ack) <= p
                 /\ new[i].sack # << >> /\ Position(new[i].sack[1]) <= p => Position(new[i].sack[2]) <= p
        <3>1. i \in 1 .. Len(new) /\ new[i] \in AckType
            BY <1>5, ElementOfSeq
        <3>2. AckOK(new[i], got)
            BY <1>6
        <3>3. Position(new[i].ack) \in Nat
            BY <3>1, PositionValue DEF AckType, SeqNumber
        <3>4. Position(new[i].ack) <= p
            BY <3>2, <3>3, <1>2, BelowPrefix DEF AckOK
        <3>5. ASSUME new[i].sack # << >>, Position(new[i].sack[1]) <= p
              PROVE  Position(new[i].sack[2]) <= p
            <4>1. Position(new[i].sack[1]) \in Nat /\ Position(new[i].sack[2]) \in Nat
                BY <3>1, <3>5, PositionValue DEF AckType, SeqNumber
            <4> QED
                BY <4>1, <3>2, <3>5, <1>2, BelowPrefix DEF AckOK
        <3> QED
            BY <3>4, <3>5
    <2>5. ASSUME NEW i \in 1 .. L + 1, NEW j \in 1 .. L + 1, i < j
          PROVE  /\ Position(new[i].ack) <= Position(new[j].ack)
                 /\ new[i].sack # << >> /\ Position(new[i].sack[1]) <= Position(new[j].ack) =>
                       Position(new[i].sack[2]) <= Position(new[j].ack)
        <3>1. i \in 1 .. L
            BY <2>5
        <3>2. CASE j = L + 1
            BY <3>1, <3>2, <2>4, <1>3, <1>5
        <3>3. CASE j # L + 1
            <4>1. /\ i + k \in 1 .. Len(queue) /\ new[i] = queue[i + k]
                  /\ j + k \in 1 .. Len(queue) /\ new[j] = queue[j + k] /\ i + k < j + k
                BY <3>1, <3>3, <1>5, <2>5
            <4> QED
                BY <4>1, <1>7 DEF InOrder
        <3> QED
            BY <3>2, <3>3
    <2> QED
        BY <2>3, <2>5, <1>5 DEF InOrder
<1> QED
    BY <1>5, <1>6, <1>7

\* An acknowledgement is taken out, or lost.
LEMMA AckRemoved ==
    ASSUME NEW queue \in Seq(AckType), Len(queue) <= MaxAcks, NEW got,
           \A j \in 1 .. Len(queue) : AckOK(queue[j], got), NEW i \in 1 .. Len(queue),
           NEW new, new = RemoveAt(queue, i)
    PROVE  /\ new \in Seq(AckType) /\ Len(new) <= MaxAcks /\ \A j \in 1 .. Len(new) : AckOK(new[j], got)
           /\ \A w, e : InOrder(w, queue, e) => InOrder(w, new, e)
<1>1. PICK L \in Nat : L = Len(queue)
    BY LenProperties
<1>2. /\ new \in Seq(AckType) /\ Len(new) = L - 1
      /\ \A j \in 1 .. L - 1 : new[j] = IF j < i THEN queue[j] ELSE queue[j + 1]
    BY <1>1, WithoutEntry
<1>3. PICK at : at = [j \in 1 .. L - 1 |-> IF j < i THEN j ELSE j + 1]
    OBVIOUS
<1>4. \A j \in 1 .. L - 1 : at[j] \in 1 .. L /\ new[j] = queue[at[j]]
    BY <1>1, <1>2, <1>3
<1>5. \A j, k \in 1 .. L - 1 : j < k => at[j] < at[k]
    BY <1>3
<1>6. L - 1 <= MaxAcks
    BY <1>1, TxAssumption
<1>7. ASSUME NEW w, NEW e, InOrder(w, queue, e)
      PROVE  InOrder(w, new, e)
    <2>1. ASSUME NEW j \in 1 .. L - 1
          PROVE  /\ Position(new[j].ack) + new[j].window <= e
                 /\ Cur(w) <= Position(new[j].ack)
                 /\ Clear(w.xTxSegments, Position(new[j].ack))
                 /\ new[j].sack # << >> => Position(new[j].ack) < Position(new[j].sack[1])
        BY <1>1, <1>4, <1>7 DEF InOrder
    <2>2. ASSUME NEW j \in 1 .. L - 1, NEW k \in 1 .. L - 1, j < k
          PROVE  /\ Position(new[j].ack) <= Position(new[k].ack)
                 /\ new[j].sack # << >> /\ Position(new[j].sack[1]) <= Position(new[k].ack) =>
                       Position(new[j].sack[2]) <= Position(new[k].ack)
        <3>1. at[j] \in 1 .. L /\ at[k] \in 1 .. L /\ at[j] < at[k] /\ new[j] = queue[at[j]] /\ new[k] = queue[at[k]]
            BY <1>4, <1>5, <2>2
        <3> QED
            BY <3>1, <1>1, <1>7 DEF InOrder
    <2> QED
        BY <2>1, <2>2, <1>2 DEF InOrder
<1> QED
    BY <1>1, <1>2, <1>4, <1>6, <1>7

-----------------------------------------------------------------------------
(* FreeRTOS_send() *)

\* How far the places behind the head are from it.
LEMMA DistanceFrom ==
    ASSUME NEW t \in Index, NEW h \in Index, NEW k \in 0 .. LENGTH - 1
    PROVE  Distance(h, Wrap(t + k)) = IF k >= Distance(t, h) THEN k - Distance(t, h)
                                      ELSE LENGTH + k - Distance(t, h)
BY LengthAssumption DEF Index, Wrap, Distance

\* As much of the data as there is room for follows what the buffer holds.
LEMMA PartlyAdded ==
    ASSUME NEW S, NEW array \in [Index -> S], NEW tail \in Index, NEW head \in Index, NEW n \in Nat \ {0},
           NEW data \in [0 .. n - 1 -> S], data # << >>, Space(head, tail) > 0,
           NEW b, b = [array |-> array, head |-> head, tail |-> tail, front |-> head],
           NEW c, c = StreamAdd(b, 0, data, n)
    PROVE  \E count \in 1 .. n :
              /\ c.head \in Index /\ Distance(tail, c.head) = Distance(tail, head) + count
              /\ c.array \in [Index -> S]
              /\ \A k \in 0 .. LENGTH - 1 :
                    c.array[Wrap(tail + k)] =
                        IF Distance(tail, head) <= k /\ k < Distance(tail, head) + count
                        THEN data[k - Distance(tail, head)] ELSE array[Wrap(tail + k)]
<1>1. PICK size \in 0 .. LENGTH - 1 : size = Distance(tail, head)
    BY DistanceIn
<1>2. PICK room \in Nat : room = LENGTH - 1 - size /\ room > 0 /\ Space(head, tail) = room
    <2>1. Space(head, tail) = LENGTH - 1 - size /\ LENGTH \in Nat
        BY <1>1, DistanceIn, Constants
    <2>2. PICK m \in Nat : m = LENGTH - 1 - size
        BY <2>1
    <2> QED
        BY <2>1, <2>2
<1>3. PICK count \in 1 .. n : count = Least(room, n) /\ count <= room
    BY <1>2 DEF Least
<1>4. AddedCount(b, 0, n) = count /\ count # 0
    <2>1. Beyond(room, 0) = room
        BY <1>2 DEF Beyond
    <2> QED
        BY <2>1, <1>2, <1>3 DEF AddedCount
<1>5. Wrap(head + 0) = head
    BY LengthAssumption DEF Wrap, Index
<1>6. PICK filled : filled = [i \in Index |-> IF data # << >> /\ Distance(head, i) < count
                                             THEN data[Distance(head, i)] ELSE array[i]]
    OBVIOUS
<1>7. c.array = filled /\ c.head = Wrap(head + count)
    BY <1>4, <1>5, <1>6 DEF StreamAdd
<1>8. Wrap(head + count) \in Index /\ Distance(tail, Wrap(head + count)) = size + count
    <2>1. Distance(tail, head) + count <= LENGTH - 1
        BY <1>1, <1>2, <1>3, Constants
    <2> QED
        BY <2>1, <1>1, DistanceGrows
<1>9. filled \in [Index -> S]
    <2> SUFFICES ASSUME NEW i \in Index
                 PROVE  (IF data # << >> /\ Distance(head, i) < count
                         THEN data[Distance(head, i)] ELSE array[i]) \in S
        BY <1>6
    <2>1. Distance(head, i) \in 0 .. LENGTH - 1
        BY DistanceIn
    <2>2. Distance(head, i) < count => Distance(head, i) \in 0 .. n - 1
        BY <2>1, <1>3
    <2> QED
        BY <2>2
<1>10. ASSUME NEW k \in 0 .. LENGTH - 1
       PROVE  filled[Wrap(tail + k)] = IF size <= k /\ k < size + count THEN data[k - size] ELSE array[Wrap(tail + k)]
    <2>1. Wrap(tail + k) \in Index
        BY DistanceOnward
    <2>2. Distance(head, Wrap(tail + k)) = IF k >= size THEN k - size ELSE LENGTH + k - size
        BY <1>1, DistanceFrom
    <2>3. filled[Wrap(tail + k)] = IF Distance(head, Wrap(tail + k)) < count
                                   THEN data[Distance(head, Wrap(tail + k))] ELSE array[Wrap(tail + k)]
        BY <2>1, <1>6
    <2>4. Distance(head, Wrap(tail + k)) < count <=> size <= k /\ k < size + count
        BY <2>2, <1>1, <1>2, <1>3, Constants
    <2>5. CASE size <= k /\ k < size + count
        <3>1. Distance(head, Wrap(tail + k)) = k - size
            BY <2>2, <2>5
        <3> QED
            BY <3>1, <2>3, <2>4, <2>5
    <2>6. CASE ~(size <= k /\ k < size + count)
        BY <2>3, <2>4, <2>6
    <2> QED
        BY <2>5, <2>6
<1> QED
    BY <1>1, <1>7, <1>8, <1>9, <1>10

LEMMA SendMatches ==
    ASSUME NEW w, WindowOK(w), NEW stream, Matches(w, stream), stream \in StreamType,
           NEW size, size = Distance(stream.tail, stream.head), Space(stream.head, stream.tail) > 0,
           NEW n \in Nat \ {0}, Cur(w) + size + n <= MaxBytes,
           NEW c, c = StreamAdd([array |-> stream.array, head |-> stream.head, tail |-> stream.tail,
                                 front |-> stream.head],
                                0, [i \in 0 .. n - 1 |-> Cur(w) + size + i], n),
           NEW new, new = [stream EXCEPT !.array = c.array, !.head = c.head]
    PROVE  Matches(w, new)
<1>1. /\ stream.array \in [Index -> Nat \cup {Garbage}] /\ stream.tail \in Index /\ stream.head \in Index
      /\ stream.mid \in Index
    BY DEF StreamType
<1>2. Cur(w) \in Nat /\ size \in 0 .. LENGTH - 1
    BY <1>1, DistanceIn, WindowFields DEF WindowOK
<1>3. PICK data : data = [i \in 0 .. n - 1 |-> Cur(w) + size + i]
    OBVIOUS
<1>4. data \in [0 .. n - 1 -> Nat \cup {Garbage}] /\ data # << >>
    <2>1. \A i \in 0 .. n - 1 : Cur(w) + size + i \in Nat
        BY <1>2
    <2>2. DOMAIN data = 0 .. n - 1 /\ 0 \in 0 .. n - 1
        BY <1>3
    <2>3. data # << >>
        <3>1. DOMAIN << >> = {}
            OBVIOUS
        <3> QED
            BY <2>2, <3>1, Zenon
    <2> QED
        BY <2>1, <2>3, <1>3
<1>5. PICK b : b = [array |-> stream.array, head |-> stream.head, tail |-> stream.tail, front |-> stream.head]
    OBVIOUS
<1>6. c = StreamAdd(b, 0, data, n)
    BY <1>3, <1>5
<1>7. PICK count \in 1 .. n :
              /\ c.head \in Index /\ Distance(stream.tail, c.head) = size + count
              /\ c.array \in [Index -> Nat \cup {Garbage}]
              /\ \A k \in 0 .. LENGTH - 1 :
                    c.array[Wrap(stream.tail + k)] =
                        IF size <= k /\ k < size + count
                        THEN data[k - size] ELSE stream.array[Wrap(stream.tail + k)]
    BY <1>1, <1>4, <1>5, <1>6, PartlyAdded
<1>8. /\ new \in StreamType /\ new.array = c.array /\ new.head = c.head /\ new.tail = stream.tail
      /\ new.mid = stream.mid
    BY <1>7 DEF StreamType
<1>9. ASSUME NEW k \in 0 .. LENGTH - 1, k < size + count
      PROVE  c.array[Wrap(stream.tail + k)] = Cur(w) + k
    <2>1. CASE size <= k
        <3>1. k - size \in 0 .. n - 1 /\ Cur(w) + size + (k - size) = Cur(w) + k
            BY <2>1, <1>2, <1>7, <1>9
        <3> QED
            BY <2>1, <3>1, <1>3, <1>7, <1>9
    <2>2. CASE k < size
        <3>1. ~(size <= k)
            BY <2>2, <1>2
        <3>2. stream.array[Wrap(stream.tail + k)] = Cur(w) + k
            BY <2>2 DEF Matches, StreamHolds
        <3> QED
            BY <3>1, <3>2, <1>7
    <2> QED
        BY <2>1, <2>2, <1>2
<1>10. Cur(w) + (size + count) <= MaxBytes
    <2>1. count <= n
        OBVIOUS
    <2> QED
        BY <2>1, <1>2, Constants
<1>11. StreamHolds(new, Cur(w))
    BY <1>7, <1>8, <1>9, <1>10 DEF StreamHolds
<1>12. Distance(stream.tail, stream.mid) <= size + count
    <2>1. Distance(stream.tail, stream.mid) \in Nat /\ Distance(stream.tail, stream.mid) <= size
        BY <1>1, DistanceIn DEF Matches
    <2> QED
        BY <2>1, <1>2
<1> QED
    BY <1>7, <1>8, <1>11, <1>12 DEF Matches

-----------------------------------------------------------------------------
(* The steps *)

\* The window that vTCPWindowInit() sets up satisfies the invariant.
THEOREM InitInvariant == Init => IInv
<1> SUFFICES ASSUME Init PROVE IInv
    OBVIOUS
<1>1. PICK w : w = pxWindow
    OBVIOUS
<1>2. /\ w.ulCurrentSequenceNumber = InitialSeq /\ w.ulHighestSequenceNumber = InitialSeq
      /\ w.ulNextTxSequenceNumber = InitialSeq /\ w.xTxSegments = << >>
      /\ w.xPriorityQueue = << >> /\ w.xWaitQueue = << >> /\ w.xTxQueue = << >>
      /\ w.pxHeadSegment = NoSegment
    BY <1>1 DEF Init
<1>3. w \in WindowType
    BY <1>1, TxAssumption DEF Init, WindowType
<1>4. Cur(w) = 0 /\ High(w) = 0 /\ Nxt(w) = 0
    <2>1. Position(InitialSeq) = 0
        BY PositionValue, TxAssumption, Constants
    <2> QED
        BY <2>1, <1>2 DEF Cur, High, Nxt
<1>5. WindowOK(w)
    <2>1. Tiled(<< >>, 0, 0) /\ Unsent(<< >>, << >>, 0, 0)
        BY DEF Tiled, Unsent
    <2>2. InFlight(<< >>, << >>, << >>)
        <3>1. Distinct(<< >>) /\ ToSet(<< >>) = {} /\ Flying(<< >>) = {}
            BY DEF Distinct, ToSet, Flying
        <3> QED
            BY <3>1 DEF InFlight
    <2>3. HeadFits(<< >>, NoSegment)
        BY DEF HeadFits
    <2>4. 0 <= MaxBytes
        BY Constants
    <2> QED
        BY <2>1, <2>2, <2>3, <2>4, <1>2, <1>3, <1>4 DEF WindowOK
<1>6. PICK stream : stream = txStream
    OBVIOUS
<1>7. /\ stream \in StreamType /\ stream.head = 0 /\ stream.tail = 0 /\ stream.mid = 0
    <2>1. 0 \in Index
        BY Constants DEF Index
    <2> QED
        BY <2>1, <1>6 DEF Init, StreamType
<1>8. Matches(w, stream)
    <2>1. Distance(0, 0) = 0
        BY LengthAssumption DEF Distance, Wrap
    <2>2. Placed(<< >>, 0, 0)
        BY DEF Placed
    <2>3. StreamHolds(stream, 0)
        BY <2>1, <1>7, Constants DEF StreamHolds
    <2> QED
        BY <2>1, <2>2, <2>3, <1>2, <1>4, <1>7 DEF Matches
<1>9. PoolOK(freeSegments, << >>)
    BY TxAssumption DEF Init, PoolOK
<1>10. PeerHas(w, received)
    BY <1>2, <1>4 DEF Init, PeerHas
<1>11. received \subseteq 0 .. edge - 1 /\ edge \in Nat /\ ulWindowSize \in Int /\ overtaken \in BOOLEAN
    <2>1. received = {} /\ edge = PeerWindow /\ ulWindowSize = PeerWindow /\ overtaken = FALSE
        BY DEF Init
    <2>2. received \subseteq 0 .. edge - 1 /\ edge \in Nat /\ ulWindowSize \in Int
        BY <2>1, TxAssumption
    <2> QED
        BY <2>1, <2>2
<1>12. acks = << >> /\ acks \in Seq(AckType) /\ Len(acks) = 0 /\ Len(acks) <= MaxAcks
    <2>1. acks = << >> /\ acks \in Seq(AckType) /\ Len(acks) = 0
        BY DEF Init
    <2> QED
        BY <2>1, TxAssumption
<1>13. Bounded(w, ulWindowSize, edge)
    BY <1>4, TxAssumption DEF Init, Bounded
<1>14. InOrder(w, acks, edge)
    BY <1>12 DEF InOrder
<1>15. \A packet \in wire : PacketOK(packet, High(pxWindow))
    BY DEF Init
<1>16. \A i \in 1 .. Len(acks) : AckOK(acks[i], received)
    BY <1>12
<1> QED
    BY <1>1, <1>2, <1>5, <1>6, <1>8, <1>9, <1>10, <1>11, <1>12, <1>13, <1>14, <1>15, <1>16, Zenon DEF IInv

\* What a handler starts from.
LEMMA HandlingOK ==
    ASSUME IInv, NEW due \in Int
    PROVE  /\ ContextOK(Handling(due), received)
           /\ Handling(due).window = pxWindow /\ Handling(due).windowSize = ulWindowSize
<1>1. PICK c : c = Handling(due)
    OBVIOUS
<1>2. /\ c.window = pxWindow /\ c.stream = txStream /\ c.windowSize = ulWindowSize /\ c.free = freeSegments
      /\ c.packets = wire
    BY <1>1 DEF Handling
<1>3. wire \in SUBSET Packets
    <2>1. High(pxWindow) \in Nat
        BY WindowFields DEF IInv, WindowOK
    <2> QED
        BY <2>1, PositionsInPackets DEF IInv
<1>4. c \in ContextType
    BY <1>1, <1>3 DEF Handling, ContextType, IInv, WindowOK, Matches, StreamHolds, PoolOK
<1> QED
    BY <1>1, <1>2, <1>4 DEF ContextOK, IInv

\* What it comes to.
LEMMA BecomesOK ==
    ASSUME IInv, NEW c, ContextOK(c, received), Becomes(c), UNCHANGED << received, edge >>,
           acks' \in Seq(AckType), Len(acks') <= MaxAcks, \A i \in 1 .. Len(acks') : AckOK(acks'[i], received),
           overtaken' \in BOOLEAN,
           ~overtaken' => Bounded(c.window, c.windowSize, edge) /\ InOrder(c.window, acks', edge)
    PROVE  IInv'
<1>1. /\ WindowOK(c.window) /\ Matches(c.window, c.stream) /\ PoolOK(c.free, c.window.xTxSegments)
      /\ \A packet \in c.packets : PacketOK(packet, High(c.window))
      /\ PeerHas(c.window, received) /\ c.windowSize \in Int
    BY DEF ContextOK, ContextType
<1>2. received \subseteq 0 .. edge - 1 /\ edge \in Nat
    BY DEF IInv
<1>3. /\ pxWindow' = c.window /\ txStream' = c.stream /\ ulWindowSize' = c.windowSize
      /\ freeSegments' = c.free /\ wire' = c.packets /\ received' = received /\ edge' = edge
    BY DEF Becomes
<1> QED
    BY <1>1, <1>2, <1>3, Zenon DEF IInv

\* Sending leaves the order of the acknowledgements as it is.
LEMMA KeepsInOrder ==
    ASSUME NEW w, NEW v, WindowOK(w), WindowOK(v), Keeps(w, v), NEW queue, NEW e, InOrder(w, queue, e)
    PROVE  InOrder(v, queue, e)
<1>1. Cur(v) = Cur(w)
    BY DEF Keeps
<1>2. \A x : Clear(w.xTxSegments, x) => Clear(v.xTxSegments, x)
    BY KeepsClear
<1> QED
    BY <1>1, <1>2 DEF InOrder

LEMMA AnswerIs ==
    ASSUME NEW got, NEW h \in Nat, h <= MaxBytes, got \subseteq 0 .. h - 1, NEW e \in Nat,
           NEW m, m = [ack |-> Number(Prefix(got)), window |-> e - Prefix(got), sack |-> << >>]
    PROVE  AnswerOf(m, got, e)
<1>1. Prefix(got) \in 0 .. MaxBytes
    BY PrefixValue
<1>2. Number(Prefix(got)) \in SeqNumber /\ Position(Number(Prefix(got))) = Prefix(got)
    BY <1>1, PositionOfNumber
<1>3. e - Prefix(got) \in Int
    BY <1>1, Constants
<1>4. m \in AckType
    BY <1>2, <1>3 DEF AckType
<1> QED
    BY <1>2, <1>4 DEF AnswerOf

LEMMA SocketCheckStep ==
    ASSUME IInv, NEW due \in Int, NEW keepAlive \in BOOLEAN, SocketCheck(due, keepAlive)
    PROVE  IInv'
<1>1. PICK h : h = Handling(due)
    OBVIOUS
<1>2. ContextOK(h, received) /\ h.window = pxWindow /\ h.windowSize = ulWindowSize
    BY <1>1, HandlingOK
<1>3. PICK b, c : b = AddTxData(h) /\ c = SendRepeated(b) /\ Becomes(c)
    BY <1>1 DEF SocketCheck
<1>4. ContextOK(b, received) /\ Sends(h, b)
    BY <1>2, <1>3, AddTxDataOK
<1>5. ContextOK(c, received) /\ Sends(b, c)
    BY <1>3, <1>4, SendRepeatedOK
<1>6. Sends(h, c)
    BY <1>2, <1>4, <1>5, SendsOnward
<1>7. /\ WindowOK(pxWindow) /\ PeerHas(pxWindow, received) /\ edge \in Nat /\ acks \in Seq(AckType)
      /\ Len(acks) <= MaxAcks /\ (\A i \in 1 .. Len(acks) : AckOK(acks[i], received))
      /\ UNCHANGED << received, edge, overtaken >> /\ overtaken \in BOOLEAN
      /\ (~overtaken => Bounded(pxWindow, ulWindowSize, edge) /\ InOrder(pxWindow, acks, edge))
    BY DEF IInv, SocketCheck
<1>8. /\ acks' \in Seq(AckType) /\ Len(acks') <= MaxAcks /\ \A i \in 1 .. Len(acks') : AckOK(acks'[i], received)
      /\ InOrder(pxWindow, acks, edge) => InOrder(pxWindow, acks', edge)
    <2>1. CASE keepAlive
        <3>1. PICK m : m = Answer(received, << >>)
            OBVIOUS
        <3>2. m = [ack |-> Number(Prefix(received)), window |-> edge - Prefix(received), sack |-> << >>]
            BY <3>1 DEF Answer, Number
        <3>3. High(pxWindow) \in Nat /\ High(pxWindow) <= MaxBytes /\ received \subseteq 0 .. High(pxWindow) - 1
            <4>1. /\ High(pxWindow) \in Nat /\ Nxt(pxWindow) \in Nat /\ High(pxWindow) <= Nxt(pxWindow)
                  /\ Nxt(pxWindow) <= MaxBytes
                BY <1>7, WindowFields DEF WindowOK
            <4> QED
                BY <4>1, <1>7, Constants DEF PeerHas
        <3>4. AnswerOf(m, received, edge)
            BY <3>2, <3>3, <1>7, AnswerIs
        <3>5. acks' = Sent(acks, m)
            BY <2>1, <3>1 DEF SocketCheck
        <3> QED
            BY <3>4, <3>5, <1>7, AnswerSent
    <2>2. CASE ~keepAlive
        <3>1. acks' = acks
            BY <2>2 DEF SocketCheck
        <3> QED
            BY <3>1, <1>7
    <2> QED
        BY <2>1, <2>2
<1>9. ASSUME ~overtaken'
      PROVE  Bounded(c.window, c.windowSize, edge) /\ InOrder(c.window, acks', edge)
    <2>1. Bounded(pxWindow, ulWindowSize, edge) /\ InOrder(pxWindow, acks', edge)
        BY <1>7, <1>8, <1>9
    <2>2. Keeps(pxWindow, c.window) /\ WindowOK(c.window) /\ edge \in Int
        BY <1>2, <1>5, <1>6, <1>7 DEF Sends, ContextOK
    <2>3. Bounded(c.window, c.windowSize, edge)
        BY <2>1, <2>2, <1>2, <1>6 DEF Sends
    <2>4. InOrder(c.window, acks', edge)
        BY <2>1, <2>2, <1>7, KeepsInOrder
    <2> QED
        BY <2>3, <2>4
<1> QED
    BY <1>3, <1>5, <1>7, <1>8, <1>9, BecomesOK

\* An acknowledgement is handled: it brings the window no further than the peer
\* has it, so that what the peer allows holds after it as well.
LEMMA ReceiveAckStep ==
    ASSUME IInv, NEW i \in 1 .. Len(acks), NEW due \in Int, ReceiveAck(i, due)
    PROVE  IInv'
<1>1. PICK m : m = acks[i]
    OBVIOUS
<1>2. PICK h : h = Handling(due)
    OBVIOUS
<1>3. ContextOK(h, received) /\ h.window = pxWindow /\ h.windowSize = ulWindowSize
    BY <1>2, HandlingOK
<1>4. /\ WindowOK(pxWindow) /\ PeerHas(pxWindow, received) /\ edge \in Nat /\ acks \in Seq(AckType)
      /\ Len(acks) <= MaxAcks /\ (\A j \in 1 .. Len(acks) : AckOK(acks[j], received))
      /\ UNCHANGED << received, edge >> /\ overtaken \in BOOLEAN
      /\ (~overtaken => Bounded(pxWindow, ulWindowSize, edge) /\ InOrder(pxWindow, acks, edge))
      /\ acks' = RemoveAt(acks, i) /\ overtaken' = (overtaken \/ i > 1)
    BY DEF IInv, ReceiveAck
<1>5. m \in AckType /\ AckOK(m, received) /\ m.ack \in SeqNumber /\ m.window \in Int
    <2>1. m \in AckType
        BY <1>1, <1>4, ElementOfSeq
    <2> QED
        BY <2>1, <1>1, <1>4 DEF AckType
<1>6. PICK c : /\ c = ReadSackOption(h, m.sack)
               /\ \E d \in {PrepareSend(AddTxData(TxAck([c EXCEPT !.windowSize = m.window], m.ack)))} :
                     Becomes(IF d.sent THEN SendRepeated(d) ELSE d)
    BY <1>1, <1>2 DEF ReceiveAck
<1>7. PICK b, t, a : b = [c EXCEPT !.windowSize = m.window] /\ t = TxAck(b, m.ack) /\ a = AddTxData(t)
    OBVIOUS
<1>8. PICK d, r : d = PrepareSend(a) /\ r = (IF d.sent THEN SendRepeated(d) ELSE d) /\ Becomes(r)
    BY <1>6, <1>7
<1>9. /\ ContextOK(c, received) /\ High(c.window) = High(pxWindow)
      /\ (m.sack # << >> => Cur(pxWindow) < Position(m.sack[1])) => Cur(c.window) = Cur(pxWindow)
      /\ \A x \in Nat : Clear(pxWindow.xTxSegments, x)
                        /\ (m.sack # << >> => x <= Position(m.sack[1]) \/ Position(m.sack[2]) <= x)
                        => Clear(c.window.xTxSegments, x)
    BY <1>3, <1>5, <1>6, ReadSackOptionOK
<1>10. b.window = c.window /\ b.windowSize = m.window /\ ContextOK(b, received)
    <2>1. /\ b \in ContextType /\ b.window = c.window /\ b.windowSize = m.window /\ b.stream = c.stream
          /\ b.free = c.free /\ b.packets = c.packets
        BY <1>5, <1>7, <1>9 DEF ContextOK, ContextType
    <2> QED
        BY <2>1, <1>9 DEF ContextOK
<1>11. PICK ack \in Nat : ack = Position(m.ack)
    BY <1>5, PositionValue DEF SeqNumber
<1>12. ack <= MaxBytes /\ 0 .. ack - 1 \subseteq received
    BY <1>5, <1>11 DEF AckOK
<1>13. /\ ContextOK(t, received) /\ t.windowSize = m.window /\ High(t.window) = High(pxWindow)
       /\ Cur(c.window) <= ack /\ Clear(c.window.xTxSegments, ack) => Cur(t.window) <= ack
       /\ \A x \in Nat : Clear(c.window.xTxSegments, x) /\ ack <= x => Clear(t.window.xTxSegments, x)
    <2>1. Position(m.ack) <= MaxBytes /\ 0 .. Position(m.ack) - 1 \subseteq received
        BY <1>11, <1>12
    <2>2. ContextOK(t, received) /\ t.windowSize = b.windowSize /\ MovesOn(b.window, t.window, Position(m.ack))
        <3>1. PICK seq \in SeqNumber : seq = m.ack
            BY <1>5
        <3>2. t = TxAck(b, seq)
            BY <3>1, <1>7
        <3>3. Position(seq) <= MaxBytes /\ 0 .. Position(seq) - 1 \subseteq received
            BY <3>1, <2>1
        <3>4. ContextOK(b, received)
            BY <1>10
        <3>5. ContextOK(t, received) /\ t.windowSize = b.windowSize /\ MovesOn(b.window, t.window, Position(seq))
            BY <3>2, <3>3, <3>4, TxAckOK
        <3> QED
            BY <3>1, <3>5
    <2> QED
        BY <2>2, <1>9, <1>10, <1>11 DEF MovesOn
<1>14. ContextOK(a, received) /\ Sends(t, a)
    BY <1>7, <1>13, AddTxDataOK
<1>15. ContextOK(d, received) /\ Sends(a, d)
    BY <1>8, <1>14, PrepareSendOK
<1>16. ContextOK(r, received) /\ Sends(d, r)
    <2>1. CASE d.sent
        BY <2>1, <1>8, <1>15, SendRepeatedOK
    <2>2. CASE ~d.sent
        BY <2>2, <1>8, <1>15, SendsItself
    <2> QED
        BY <2>1, <2>2
<1>17. Sends(t, r)
    <2>1. Sends(t, d)
        BY <1>13, <1>14, <1>15, SendsOnward
    <2> QED
        BY <2>1, <1>13, <1>15, <1>16, SendsOnward
<1>18. /\ acks' \in Seq(AckType) /\ Len(acks') <= MaxAcks /\ \A j \in 1 .. Len(acks') : AckOK(acks'[j], received)
       /\ InOrder(pxWindow, acks, edge) => InOrder(pxWindow, acks', edge)
    BY <1>4, AckRemoved
<1>19. ASSUME ~overtaken'
       PROVE  Bounded(r.window, r.windowSize, edge) /\ InOrder(r.window, acks', edge)
    <2>1. /\ i = 1 /\ Bounded(pxWindow, ulWindowSize, edge) /\ InOrder(pxWindow, acks, edge)
        <3>1. ~overtaken /\ ~(i > 1)
            BY <1>4, <1>19, Zenon
        <3>2. i = 1
            BY <3>1
        <3> QED
            BY <3>1, <3>2, <1>4
    <2>2. /\ ack + m.window <= edge /\ Cur(pxWindow) <= ack /\ Clear(pxWindow.xTxSegments, ack)
          /\ m.sack # << >> => ack < Position(m.sack[1])
        BY <2>1, <1>1, <1>11 DEF InOrder
    <2>3. Cur(pxWindow) \in Nat
        BY <1>4, WindowFields DEF WindowOK
    <2>4. ASSUME m.sack # << >>
          PROVE  Position(m.sack[1]) \in Nat /\ Position(m.sack[2]) \in Nat
        <3>1. m.sack \in SeqNumber \X SeqNumber
            BY <2>4, <1>5 DEF AckType
        <3> QED
            BY <3>1, PositionValue DEF SeqNumber
    <2>5. Cur(c.window) = Cur(pxWindow)
        <3>1. m.sack # << >> => Cur(pxWindow) < Position(m.sack[1])
            BY <2>2, <2>3, <2>4
        <3> QED
            BY <3>1, <1>9
    <2>6. Clear(c.window.xTxSegments, ack)
        <3>1. m.sack # << >> => ack <= Position(m.sack[1])
            BY <2>2, <2>4
        <3> QED
            BY <3>1, <2>2, <1>9
    <2>7. Cur(t.window) <= ack
        BY <2>2, <2>5, <2>6, <1>13
    <2>8. Cur(t.window) \in Nat /\ WindowOK(t.window) /\ WindowOK(r.window)
        <3>1. WindowOK(t.window) /\ WindowOK(r.window)
            BY <1>13, <1>16 DEF ContextOK
        <3> QED
            BY <3>1, WindowFields DEF WindowOK
    <2>9. Bounded(t.window, m.window, edge)
        <3>1. Cur(t.window) + m.window <= edge
            BY <2>2, <2>7, <2>8, <1>4, <1>5
        <3> QED
            BY <3>1, <2>1, <1>13 DEF Bounded
    <2>10. Bounded(r.window, r.windowSize, edge)
        <3>1. edge \in Int
            BY <1>4
        <3> QED
            BY <3>1, <2>9, <1>13, <1>17 DEF Sends
    <2>. PICK rest : rest = acks'
        OBVIOUS
    <2>. PICK L : L = Len(rest)
        OBVIOUS
    <2>11. rest = acks' /\ L = Len(rest) /\ L \in Nat
        BY <1>18, LenProperties
    <2>12. /\ rest \in Seq(AckType) /\ Len(acks) = L + 1
           /\ \A j \in 1 .. L : rest[j] = acks[j + 1]
        <3>1. /\ Len(RemoveAt(acks, i)) = Len(acks) - 1 /\ Len(acks) \in Nat
              /\ \A j \in 1 .. Len(acks) - 1 : RemoveAt(acks, i)[j] = IF j < i THEN acks[j] ELSE acks[j + 1]
            BY <1>4, WithoutEntry, LenProperties
        <3>2. rest = RemoveAt(acks, i)
            BY <2>11, <1>4
        <3>3. Len(acks) = L + 1
            BY <3>1, <3>2, <2>11
        <3>4. \A j \in 1 .. L : rest[j] = acks[j + 1]
            BY <3>1, <3>2, <3>3, <2>1
        <3> QED
            BY <3>3, <3>4, <2>11, <1>18
    <2>13. InOrder(pxWindow, rest, edge)
        BY <2>1, <2>11, <1>18
    <2>14. ASSUME NEW j \in 1 .. L
           PROVE  Cur(t.window) <= Position(rest[j].ack) /\ Clear(t.window.xTxSegments, Position(rest[j].ack))
        <3>1. PICK x \in Nat : x = Position(rest[j].ack)
            <4>1. rest[j] \in AckType
                BY <2>11, <2>12, ElementOfSeq
            <4> QED
                BY <4>1, PositionValue DEF AckType, SeqNumber
        <3>2. /\ j + 1 \in 1 .. Len(acks) /\ i \in 1 .. Len(acks) /\ i < j + 1 /\ rest[j] = acks[j + 1]
            BY <2>1, <2>12
        <3>3. /\ ack <= x
              /\ m.sack # << >> /\ Position(m.sack[1]) <= x => Position(m.sack[2]) <= x
            BY <3>1, <3>2, <2>1, <1>1, <1>11 DEF InOrder
        <3>4. Clear(pxWindow.xTxSegments, x)
            BY <3>1, <2>11, <2>13 DEF InOrder
        <3>5. m.sack # << >> => x <= Position(m.sack[1]) \/ Position(m.sack[2]) <= x
            BY <3>3, <2>4
        <3>6. Clear(c.window.xTxSegments, x)
            BY <3>4, <3>5, <1>9
        <3>7. Clear(t.window.xTxSegments, x)
            BY <3>3, <3>6, <1>13
        <3>8. Cur(t.window) <= x
            BY <3>3, <2>7, <2>8
        <3> QED
            BY <3>1, <3>7, <3>8
    <2>15. InOrder(t.window, rest, edge)
        BY <2>11, <2>13, <2>14 DEF InOrder
    <2>16. InOrder(r.window, rest, edge)
        BY <2>8, <2>15, <1>17, KeepsInOrder DEF Sends
    <2> QED
        BY <2>10, <2>11, <2>16
<1>20. overtaken' \in BOOLEAN
    BY <1>4
<1> QED
    BY <1>4, <1>8, <1>16, <1>18, <1>19, <1>20, BecomesOK

LEMMA SendStep ==
    ASSUME IInv, NEW n \in WriteSizes, Send(n)
    PROVE  IInv'
<1>1. PICK w, stream : w = pxWindow /\ stream = txStream
    OBVIOUS
<1>2. WindowOK(w) /\ Matches(w, stream) /\ stream \in StreamType
    BY <1>1 DEF IInv, Matches, StreamHolds
<1>3. PICK size : size = Distance(stream.tail, stream.head)
    OBVIOUS
<1>4. Cur(w) \in Nat /\ size \in 0 .. LENGTH - 1 /\ n \in Nat \ {0} /\ MaxBytes \in Nat
    <2>1. stream.tail \in Index /\ stream.head \in Index
        BY <1>2 DEF StreamType
    <2>2. n \in 1 .. MaxBytes
        BY TxAssumption
    <2> QED
        BY <2>1, <2>2, <1>2, <1>3, DistanceIn, Constants, WindowFields DEF WindowOK
<1>5. PICK written \in Nat : written = Cur(w) + size
    BY <1>4
<1>6. PICK length : length = Least(n, MaxBytes - written)
    OBVIOUS
<1>7. SeqSub(pxWindow.ulCurrentSequenceNumber, InitialSeq) + Distance(txStream.tail, txStream.head) = written
    BY <1>1, <1>3, <1>5 DEF Cur, Position
<1>8. PICK c : c = StreamAdd([array |-> stream.array, head |-> stream.head, tail |-> stream.tail,
                              front |-> stream.head], 0, [i \in 0 .. length - 1 |-> written + i], length)
    OBVIOUS
<1>9. /\ length > 0 /\ Space(stream.head, stream.tail) > 0
      /\ txStream' = [stream EXCEPT !.array = c.array, !.head = c.head]
      /\ UNCHANGED << pxWindow, ulWindowSize, freeSegments, wire, acks, received, edge, overtaken >>
    BY <1>1, <1>6, <1>7, <1>8 DEF Send
<1>10. length \in Nat \ {0} /\ Cur(w) + size + length <= MaxBytes
    BY <1>4, <1>5, <1>6, <1>9 DEF Least
<1>11. [i \in 0 .. length - 1 |-> written + i] = [i \in 0 .. length - 1 |-> Cur(w) + size + i]
    BY <1>5
<1>12. PICK new : new = [stream EXCEPT !.array = c.array, !.head = c.head]
    OBVIOUS
<1>13. Matches(w, new)
    <2>1. c = StreamAdd([array |-> stream.array, head |-> stream.head, tail |-> stream.tail,
                         front |-> stream.head],
                        0, [i \in 0 .. length - 1 |-> Cur(w) + size + i], length)
        BY <1>8, <1>11, Zenon
    <2>2. Space(stream.head, stream.tail) > 0
        BY <1>9
    <2> QED
        BY <2>1, <2>2, <1>2, <1>3, <1>10, <1>12, SendMatches
<1>14. txStream' = new
    BY <1>9, <1>12
<1> QED
    BY <1>1, <1>9, <1>13, <1>14 DEF IInv

LEMMA ClearFullSizeStep ==
    ASSUME IInv, ClearFullSize
    PROVE  IInv'
<1>1. PICK w : w = pxWindow
    OBVIOUS
<1>2. PICK v : v = [w EXCEPT !.bSendFullSize = FALSE]
    OBVIOUS
<1>3. WindowOK(w)
    BY <1>1 DEF IInv
<1>4. /\ v \in WindowType /\ v.ulCurrentSequenceNumber = w.ulCurrentSequenceNumber
      /\ v.ulHighestSequenceNumber = w.ulHighestSequenceNumber
      /\ v.ulNextTxSequenceNumber = w.ulNextTxSequenceNumber /\ v.xTxSegments = w.xTxSegments
      /\ v.xPriorityQueue = w.xPriorityQueue /\ v.xWaitQueue = w.xWaitQueue /\ v.xTxQueue = w.xTxQueue
      /\ v.pxHeadSegment = w.pxHeadSegment
    BY <1>2, <1>3 DEF WindowOK, WindowType
<1>5. Cur(v) = Cur(w) /\ High(v) = High(w) /\ Nxt(v) = Nxt(w)
    BY <1>4 DEF Cur, High, Nxt
<1>6. WindowOK(v)
    BY <1>3, <1>4, <1>5 DEF WindowOK
<1>7. /\ pxWindow' = v
      /\ UNCHANGED << txStream, ulWindowSize, freeSegments, wire, acks, received, edge, overtaken >>
    BY <1>1, <1>2 DEF ClearFullSize
<1>8. Matches(v, txStream)
    BY <1>1, <1>4, <1>5 DEF IInv, Matches
<1>9. PeerHas(v, received)
    BY <1>1, <1>4, <1>5 DEF IInv, PeerHas
<1>10. ~overtaken => Bounded(v, ulWindowSize, edge) /\ InOrder(v, acks, edge)
    BY <1>1, <1>4, <1>5 DEF IInv, Bounded, InOrder
<1>11. /\ PoolOK(freeSegments, v.xTxSegments) /\ \A packet \in wire : PacketOK(packet, High(v))
    BY <1>1, <1>4, <1>5 DEF IInv
<1>12. /\ received \subseteq 0 .. edge - 1 /\ edge \in Nat
       /\ acks \in Seq(AckType) /\ Len(acks) <= MaxAcks
       /\ \A i \in 1 .. Len(acks) : AckOK(acks[i], received)
       /\ ulWindowSize \in Int /\ overtaken \in BOOLEAN
    BY DEF IInv
<1> QED
    BY <1>6, <1>7, <1>8, <1>9, <1>10, <1>11, <1>12, Zenon DEF IInv

LEMMA OthersStep ==
    ASSUME IInv, OthersTakeDescriptor \/ OthersFreeDescriptor
    PROVE  IInv'
<1>1. UNCHANGED << pxWindow, txStream, ulWindowSize, wire, acks, received, edge, overtaken >>
    BY DEF OthersTakeDescriptor, OthersFreeDescriptor
<1>2. PICK L \in Nat : L = Len(pxWindow.xTxSegments)
    BY WindowFields DEF IInv, WindowOK
<1>3. PICK free : free = freeSegments'
    OBVIOUS
<1>4. freeSegments \in Nat /\ freeSegments + L <= SegmentCount /\ SegmentCount \in Nat
    BY <1>2, TxAssumption DEF IInv, PoolOK
<1>5. \/ freeSegments > 0 /\ free = freeSegments - 1
      \/ freeSegments + L < SegmentCount /\ free = freeSegments + 1
    BY <1>2, <1>3 DEF OthersTakeDescriptor, OthersFreeDescriptor
<1>6. free \in Nat /\ free + L <= SegmentCount
    BY <1>4, <1>5
<1>7. PoolOK(free, pxWindow.xTxSegments)
    BY <1>2, <1>6 DEF PoolOK
<1> QED
    BY <1>1, <1>3, <1>7 DEF IInv

LEMMA LoseStep ==
    ASSUME IInv, LosePacket \/ LoseAck
    PROVE  IInv'
<1>1. CASE LosePacket
    BY <1>1 DEF IInv, LosePacket
<1>2. CASE LoseAck
    <2>1. PICK i \in 1 .. Len(acks) : acks' = RemoveAt(acks, i)
        BY <1>2 DEF LoseAck
    <2>2. UNCHANGED << pxWindow, txStream, ulWindowSize, freeSegments, wire, received, edge, overtaken >>
        BY <1>2 DEF LoseAck
    <2>3. /\ acks' \in Seq(AckType) /\ Len(acks') <= MaxAcks
          /\ \A j \in 1 .. Len(acks') : AckOK(acks'[j], received)
          /\ \A w, e : InOrder(w, acks, e) => InOrder(w, acks', e)
        BY <2>1, AckRemoved DEF IInv
    <2> QED
        BY <2>2, <2>3 DEF IInv
<1> QED
    BY <1>1, <1>2

\* The peer holds more, or its window ends further on, and it answers.
LEMMA PeerStep ==
    ASSUME IInv, NEW got, PeerHas(pxWindow, got), received \subseteq got, NEW e \in Nat, edge <= e,
           got \subseteq 0 .. e - 1, NEW m, AnswerOf(m, got, e), NEW packets, packets \subseteq wire,
           received' = got, edge' = e, acks' = Sent(acks, m), wire' = packets,
           UNCHANGED << pxWindow, txStream, ulWindowSize, freeSegments, overtaken >>
    PROVE  IInv'
<1>1. PICK new : new = Sent(acks, m)
    OBVIOUS
<1>2. \A i \in 1 .. Len(acks) : AckOK(acks[i], got)
    BY AckMore DEF IInv
<1>3. /\ new \in Seq(AckType) /\ Len(new) <= MaxAcks /\ \A i \in 1 .. Len(new) : AckOK(new[i], got)
      /\ InOrder(pxWindow, acks, e) => InOrder(pxWindow, new, e)
    BY <1>1, <1>2, AnswerSent DEF IInv
<1>4. ASSUME ~overtaken
      PROVE  Bounded(pxWindow, ulWindowSize, e) /\ InOrder(pxWindow, new, e)
    <2>1. Bounded(pxWindow, ulWindowSize, edge) /\ InOrder(pxWindow, acks, edge)
        BY <1>4 DEF IInv
    <2>2. edge \in Nat /\ Cur(pxWindow) \in Nat /\ High(pxWindow) \in Nat /\ ulWindowSize \in Int
          /\ acks \in Seq(AckType)
        BY WindowFields DEF IInv, WindowOK
    <2>3. Bounded(pxWindow, ulWindowSize, e)
        BY <2>1, <2>2 DEF Bounded
    <2>4. ASSUME NEW i \in 1 .. Len(acks)
          PROVE  Position(acks[i].ack) + acks[i].window <= e
        <3>1. acks[i] \in AckType
            BY <2>2, ElementOfSeq
        <3>2. Position(acks[i].ack) \in Nat /\ acks[i].window \in Int
            BY <3>1, PositionValue DEF AckType, SeqNumber
        <3>3. Position(acks[i].ack) + acks[i].window <= edge
            BY <2>1 DEF InOrder
        <3> QED
            BY <3>2, <3>3, <2>2
    <2>5. InOrder(pxWindow, acks, e)
        BY <2>1, <2>4 DEF InOrder
    <2> QED
        BY <2>3, <2>5, <1>3
<1>5. /\ WindowOK(pxWindow) /\ Matches(pxWindow, txStream) /\ PoolOK(freeSegments, pxWindow.xTxSegments)
      /\ \A packet \in packets : PacketOK(packet, High(pxWindow))
      /\ ulWindowSize \in Int /\ overtaken \in BOOLEAN
    BY DEF IInv
<1> QED
    BY <1>1, <1>3, <1>4, <1>5, Zenon DEF IInv

LEMMA PeerReadsStep ==
    ASSUME IInv, PeerReads
    PROVE  IInv'
<1>1. /\ High(pxWindow) \in Nat /\ High(pxWindow) <= MaxBytes /\ received \subseteq 0 .. High(pxWindow) - 1
      /\ edge \in Nat /\ received \subseteq 0 .. edge - 1 /\ PeerHas(pxWindow, received)
    <2>1. /\ High(pxWindow) \in Nat /\ Nxt(pxWindow) \in Nat /\ High(pxWindow) <= Nxt(pxWindow)
          /\ Nxt(pxWindow) <= MaxBytes
        BY WindowFields DEF IInv, WindowOK
    <2> QED
        BY <2>1, Constants DEF IInv, PeerHas
<1>2. PICK p \in 0 .. MaxBytes : p = Prefix(received)
    BY <1>1, PrefixValue
<1>3. PICK e \in Nat : e = p + PeerWindow
    BY TxAssumption, Constants
<1>4. edge <= e
    <2>1. edge < Least(MaxBytes, e)
        BY <1>2, <1>3 DEF PeerReads
    <2> QED
        BY <2>1, <1>1, <1>3, Constants DEF Least
<1>5. received \subseteq 0 .. e - 1
    BY <1>1, <1>4
<1>6. PICK m : m = [Answer(received, << >>) EXCEPT !.window = PeerWindow]
    OBVIOUS
<1>7. m = [ack |-> Number(Prefix(received)), window |-> e - Prefix(received), sack |-> << >>]
    <2>1. e - Prefix(received) = PeerWindow
        BY <1>2, <1>3, TxAssumption, Constants
    <2> QED
        BY <2>1, <1>6 DEF Answer, Number
<1>8. AnswerOf(m, received, e)
    BY <1>1, <1>7, AnswerIs
<1>9. /\ received' = received /\ edge' = e /\ acks' = Sent(acks, m) /\ wire' = wire
      /\ UNCHANGED << pxWindow, txStream, ulWindowSize, freeSegments, overtaken >>
    BY <1>2, <1>3, <1>6 DEF PeerReads
<1> QED
    BY <1>1, <1>4, <1>5, <1>8, <1>9, PeerStep

-----------------------------------------------------------------------------
(* A packet arrives *)

\* How far one number is from another.
LEMMA NumberDistance ==
    ASSUME NEW q \in SeqNumber, NEW r \in SeqNumber
    PROVE  SeqSub(r, q) = IF Position(r) >= Position(q) THEN Position(r) - Position(q)
                          ELSE Position(r) - Position(q) + SeqRange
<1>1. /\ Position(q) = IF q >= InitialSeq THEN q - InitialSeq ELSE q - InitialSeq + SeqRange
      /\ Position(r) = IF r >= InitialSeq THEN r - InitialSeq ELSE r - InitialSeq + SeqRange
    BY PositionValue
<1>2. SeqSub(r, q) = IF r - q < 0 THEN r - q + SeqRange ELSE r - q
    <2>1. r - q \in Int /\ -SeqRange <= r - q /\ r - q < SeqRange
        BY Constants DEF SeqNumber
    <2> QED
        BY <2>1, ModuloOnce, Constants DEF SeqSub
<1> QED
    BY <1>1, <1>2, Constants DEF SeqNumber

\* The positions of a piece of the stream.
LEMMA PositionsAre ==
    ASSUME NEW q \in SeqNumber, NEW n \in Nat, Position(q) + n <= MaxBytes
    PROVE  Positions(q, n) = Position(q) .. Position(q) + n - 1
<1>1. PICK a \in Nat : a = Position(q)
    BY PositionValue DEF SeqNumber
<1>2. ASSUME NEW x \in 0 .. MaxBytes - 1
      PROVE  SeqSub(Number(x), q) < n <=> a <= x /\ x < a + n
    <2>1. x \in 0 .. MaxBytes
        BY Constants
    <2>2. Number(x) \in SeqNumber /\ Position(Number(x)) = x
        BY <2>1, PositionOfNumber
    <2>3. SeqSub(Number(x), q) = IF x >= a THEN x - a ELSE x - a + SeqRange
        BY <1>1, <2>2, NumberDistance
    <2>4. a + n <= MaxBytes
        BY <1>1
    <2> QED
        BY <2>3, <2>4, Constants
<1>3. ASSUME NEW x
      PROVE  x \in Positions(q, n) <=> x \in a .. a + n - 1
    <2>1. x \in Positions(q, n) <=> x \in 0 .. MaxBytes - 1 /\ SeqSub(Number(x), q) < n
        BY DEF Positions, Number
    <2>2. x \in a .. a + n - 1 <=> x \in 0 .. MaxBytes - 1 /\ a <= x /\ x < a + n
        BY <1>1, Constants
    <2> QED
        BY <1>2, <2>1, <2>2
<1> QED
    BY <1>1, <1>3

\* The block that a position lies in, which is neither at the start of what the
\* peer holds nor at the end of the stream.
LEMMA BlockIs ==
    ASSUME NEW h \in Nat, h <= MaxBytes, NEW got, got \subseteq 0 .. h - 1,
           NEW x \in got, x > Prefix(got), NEW block, block = Block(got, x)
    PROVE  /\ block \in SeqNumber \X SeqNumber
           /\ Prefix(got) < Position(block[1]) /\ Position(block[1]) < Position(block[2])
           /\ Position(block[2]) <= MaxBytes
           /\ Position(block[1]) .. Position(block[2]) - 1 \subseteq got
<1>1. PICK p \in 0 .. MaxBytes : p = Prefix(got) /\ p \notin got
    BY PrefixValue
<1>2. x \in Nat /\ x < MaxBytes /\ p < x /\ MaxBytes \in Nat /\ MaxBytes \notin got /\ p \in Nat
    BY <1>1, Constants
<1>3. PICK left \in 0 .. x : left .. x \subseteq got /\ left - 1 \notin got /\ p < left
                              /\ left = CHOOSE l \in 0 .. x : (l .. x) \subseteq got /\ l - 1 \notin got
    <2> DEFINE K == {l \in 0 .. x : (l .. x) \subseteq got}
    <2>1. K \in SUBSET (0 .. x) /\ x \in K
        <3>1. \A y \in x .. x : y = x
            BY <1>2
        <3> QED
            BY <3>1, <1>2
    <2>2. PICK l \in K : \A j \in K : l <= j
        <3>1. K # {}
            BY <2>1
        <3> HIDE DEF K
        <3> QED
            BY <2>1, <3>1, <1>2, Smallest
    <2>3. l - 1 \notin got
        <3> SUFFICES ASSUME l - 1 \in got PROVE FALSE
            OBVIOUS
        <3>1. l - 1 \in 0 .. x
            <4>1. l - 1 \in 0 .. h - 1 /\ l \in 0 .. x
                OBVIOUS
            <4> QED
                BY <4>1, <1>2
        <3>2. \A y \in l - 1 .. x : y \in got
            <4>1. ASSUME NEW y \in l - 1 .. x
                  PROVE  y = l - 1 \/ y \in l .. x
                BY <3>1, <1>2
            <4> QED
                BY <4>1
        <3>3. l - 1 \in K
            BY <3>1, <3>2
        <3>4. l <= l - 1
            BY <2>2, <3>3
        <3> QED
            BY <3>4, <1>2
    <2>4. \E m \in 0 .. x : (m .. x) \subseteq got /\ m - 1 \notin got
        BY <2>3
    <2>5. PICK m \in 0 .. x : /\ (m .. x) \subseteq got /\ m - 1 \notin got
                              /\ m = CHOOSE i \in 0 .. x : (i .. x) \subseteq got /\ i - 1 \notin got
        BY <2>4, Zenon
    <2>6. p < m
        <3> SUFFICES ASSUME m <= p PROVE FALSE
            BY <1>2
        <3>1. p \in m .. x
            BY <1>2
        <3> QED
            BY <3>1, <2>5, <1>1
    <2> QED
        BY <2>5, <2>6
<1>4. PICK right \in x + 1 .. MaxBytes : x .. right - 1 \subseteq got
                              /\ right = CHOOSE r \in x + 1 .. MaxBytes : (x .. r - 1) \subseteq got /\ r \notin got
    <2> DEFINE K == {r \in x + 1 .. MaxBytes : r \notin got}
    <2>1. K \in SUBSET (0 .. MaxBytes) /\ MaxBytes \in K
        BY <1>2
    <2>2. PICK r \in K : \A j \in K : r <= j
        <3>1. K # {}
            BY <2>1
        <3> HIDE DEF K
        <3> QED
            BY <2>1, <3>1, <1>2, Smallest
    <2>3. ASSUME NEW y \in x .. r - 1
          PROVE  y \in got
        <3>1. CASE y = x
            BY <3>1
        <3>2. CASE y # x
            <4>1. y \in x + 1 .. MaxBytes /\ ~(r <= y)
                BY <3>2, <1>2
            <4> QED
                BY <4>1, <2>2
        <3> QED
            BY <3>1, <3>2
    <2>4. \E m \in x + 1 .. MaxBytes : (x .. m - 1) \subseteq got /\ m \notin got
        BY <2>3
    <2> QED
        BY <2>4, Zenon
<1>5. block = << Number(left), Number(right) >>
    BY <1>3, <1>4 DEF Block, Number
<1>6. left \in 0 .. MaxBytes /\ right \in 0 .. MaxBytes
    BY <1>2
<1>7. /\ Number(left) \in SeqNumber /\ Position(Number(left)) = left
      /\ Number(right) \in SeqNumber /\ Position(Number(right)) = right
    BY <1>6, PositionOfNumber
<1>8. block[1] = Number(left) /\ block[2] = Number(right) /\ block \in SeqNumber \X SeqNumber
    BY <1>5, <1>7
<1>9. left < right /\ right <= MaxBytes
    BY <1>2
<1>10. ASSUME NEW y \in left .. right - 1
       PROVE  y \in got
    <2>1. y \in left .. x \/ y \in x .. right - 1
        BY <1>2
    <2> QED
        BY <2>1, <1>3, <1>4
<1> QED
    BY <1>1, <1>3, <1>7, <1>8, <1>9, <1>10

\* A packet in flight brings the peer a piece of what was sent.
LEMMA TakenIsSent ==
    ASSUME NEW h \in Nat, h <= MaxBytes, NEW packet, PacketOK(packet, h)
    PROVE  Positions(packet.seq, Len(packet.data)) \subseteq 0 .. h - 1
<1>1. PICK p \in 0 .. MaxBytes, n \in 1 .. MSS : p + n <= h /\ packet = Packet(p, n)
    BY DEF PacketOK
<1>2. p \in Nat /\ n \in Nat /\ p + n <= MaxBytes
    BY <1>1, Constants
<1>3. packet.seq = Number(p)
    BY <1>1 DEF Packet
<1>4. Len(packet.data) = n
    <2>1. PICK data : data = [i \in 1 .. n |-> p + i - 1]
        OBVIOUS
    <2>2. packet.data = data
        BY <1>1, <2>1 DEF Packet
    <2>3. data \in Seq(Int) /\ DOMAIN data = 1 .. n
        BY <1>2, <2>1
    <2>4. Len(data) = n
        BY <1>2, <2>3, LenProperties
    <2> QED
        BY <2>2, <2>4
<1>5. Number(p) \in SeqNumber /\ Position(Number(p)) = p
    BY PositionOfNumber
<1>6. Positions(Number(p), n) = p .. p + n - 1
    <2>1. Position(Number(p)) + n <= MaxBytes
        BY <1>2, <1>5
    <2> QED
        BY <2>1, <1>2, <1>5, PositionsAre
<1>7. p .. p + n - 1 \subseteq 0 .. h - 1
    BY <1>1, <1>2
<1> QED
    BY <1>3, <1>4, <1>6, <1>7

LEMMA DeliverStep ==
    ASSUME IInv, NEW packet \in wire, NEW again \in BOOLEAN, Deliver(packet, again)
    PROVE  IInv'
<1>1. PICK taken : taken = {p \in Positions(packet.seq, Len(packet.data)) : p < edge}
    OBVIOUS
<1>2. PICK got : got = received \cup taken
    OBVIOUS
<1>3. PICK h \in Nat : h = High(pxWindow) /\ h <= MaxBytes
    <2>1. /\ High(pxWindow) \in Nat /\ Nxt(pxWindow) \in Nat /\ High(pxWindow) <= Nxt(pxWindow)
          /\ Nxt(pxWindow) <= MaxBytes
        BY WindowFields DEF IInv, WindowOK
    <2> QED
        BY <2>1, Constants
<1>4. PacketOK(packet, h)
    BY <1>3 DEF IInv
<1>5. taken \subseteq 0 .. h - 1
    <2>1. Positions(packet.seq, Len(packet.data)) \subseteq 0 .. h - 1
        BY <1>3, <1>4, TakenIsSent
    <2> QED
        BY <2>1, <1>1
<1>6. received \subseteq 0 .. h - 1 /\ PeerHas(pxWindow, received) /\ edge \in Nat /\ received \subseteq 0 .. edge - 1
    BY <1>3 DEF IInv, PeerHas
<1>7. got \subseteq 0 .. h - 1 /\ received \subseteq got
    BY <1>2, <1>5, <1>6
<1>8. got \subseteq 0 .. edge - 1
    <2>1. ASSUME NEW x \in taken
          PROVE  x \in 0 .. edge - 1
        <3>1. x \in 0 .. h - 1
            BY <1>5
        <3>2. x < edge
            BY <1>1
        <3> QED
            BY <3>1, <3>2, <1>6
    <2> QED
        BY <2>1, <1>2, <1>6
<1>9. PeerHas(pxWindow, got)
    BY <1>3, <1>6, <1>7 DEF PeerHas
<1>10. PICK block : /\ acks' = Sent(acks, Answer(got, block))
                    /\ block = << >> \/ \E x \in taken : x > Prefix(got) /\ block = Block(got, x)
    <2> DEFINE beyond == {p \in taken : p > Prefix(got)}
    <2>1. \E block \in IF beyond = {} THEN {<< >>} ELSE {Block(got, p) : p \in beyond} :
              acks' = Sent(acks, Answer(got, block))
        BY <1>1, <1>2 DEF Deliver
    <2>2. PICK block \in IF beyond = {} THEN {<< >>} ELSE {Block(got, p) : p \in beyond} :
              acks' = Sent(acks, Answer(got, block))
        BY <2>1
    <2>3. block = << >> \/ \E x \in beyond : block = Block(got, x)
        <3> HIDE DEF beyond
        <3> QED
            BY <2>2
    <2> QED
        BY <2>2, <2>3
<1>11. PICK m : m = Answer(got, block)
    OBVIOUS
<1>12. m = [ack |-> Number(Prefix(got)), window |-> edge - Prefix(got), sack |-> block]
    BY <1>11 DEF Answer, Number
<1>13. AnswerOf(m, got, edge)
    <2>1. CASE block = << >>
        BY <2>1, <1>3, <1>6, <1>7, <1>12, AnswerIs
    <2>2. CASE block # << >>
        <3>1. PICK x \in taken : x > Prefix(got) /\ block = Block(got, x)
            BY <2>2, <1>10
        <3>2. x \in got
            BY <1>2
        <3>3. /\ block \in SeqNumber \X SeqNumber
              /\ Prefix(got) < Position(block[1]) /\ Position(block[1]) < Position(block[2])
              /\ Position(block[2]) <= MaxBytes
              /\ Position(block[1]) .. Position(block[2]) - 1 \subseteq got
            BY <3>1, <3>2, <1>3, <1>7, BlockIs
        <3>4. Prefix(got) \in 0 .. MaxBytes
            BY <1>3, <1>7, PrefixValue
        <3>5. Number(Prefix(got)) \in SeqNumber /\ Position(Number(Prefix(got))) = Prefix(got)
            BY <3>4, PositionOfNumber
        <3>6. edge - Prefix(got) \in Int
            BY <3>4, <1>6, Constants
        <3>7. m.ack = Number(Prefix(got)) /\ m.window = edge - Prefix(got) /\ m.sack = block /\ m \in AckType
            BY <3>3, <3>5, <3>6, <1>12 DEF AckType
        <3> QED
            BY <3>3, <3>5, <3>7 DEF AnswerOf
    <2> QED
        BY <2>1, <2>2
<1>14. PICK packets : packets = IF again THEN wire ELSE wire \ {packet}
    OBVIOUS
<1>15. /\ packets \subseteq wire /\ received' = got /\ edge' = edge /\ acks' = Sent(acks, m)
       /\ wire' = packets
       /\ UNCHANGED << pxWindow, txStream, ulWindowSize, freeSegments, overtaken >>
    <2>1. /\ received' = got /\ wire' = packets
          /\ UNCHANGED << pxWindow, txStream, ulWindowSize, freeSegments, edge, overtaken >>
        BY <1>1, <1>2, <1>14 DEF Deliver
    <2>2. packets \subseteq wire
        BY <1>14
    <2> QED
        BY <2>1, <2>2, <1>10, <1>11
<1>16. edge <= edge
    BY <1>6
<1> QED
    BY <1>6, <1>7, <1>8, <1>9, <1>13, <1>15, <1>16, PeerStep

\* Every step keeps the invariant.
THEOREM StepInvariant == IInv /\ [Next]_vars => IInv'
<1> SUFFICES ASSUME IInv, [Next]_vars PROVE IInv'
    OBVIOUS
<1>1. \A due \in 0 .. Len(pxWindow.xWaitQueue) : due \in Int
    OBVIOUS
<1>2. CASE \E n \in WriteSizes : Send(n)
    BY <1>2, SendStep
<1>3. CASE ClearFullSize
    BY <1>3, ClearFullSizeStep
<1>4. CASE \E due \in 0 .. Len(pxWindow.xWaitQueue), keepAlive \in BOOLEAN : SocketCheck(due, keepAlive)
    BY <1>1, <1>4, SocketCheckStep
<1>5. CASE \E i \in 1 .. Len(acks), due \in 0 .. Len(pxWindow.xWaitQueue) : ReceiveAck(i, due)
    BY <1>1, <1>5, ReceiveAckStep
<1>6. CASE OthersTakeDescriptor \/ OthersFreeDescriptor
    BY <1>6, OthersStep
<1>7. CASE \E packet \in wire, again \in BOOLEAN : Deliver(packet, again)
    BY <1>7, DeliverStep
<1>8. CASE PeerReads
    BY <1>8, PeerReadsStep
<1>9. CASE LosePacket \/ LoseAck
    BY <1>9, LoseStep
<1>10. CASE UNCHANGED vars
    BY <1>10, Zenon DEF vars, IInv
<1> QED
    BY <1>2, <1>3, <1>4, <1>5, <1>6, <1>7, <1>8, <1>9, <1>10, Zenon DEF Next

\* The invariant holds in every state of every behaviour.
THEOREM Invariant == Spec => []IInv
BY InitInvariant, StepInvariant, PTL DEF Spec

-----------------------------------------------------------------------------
(* What the invariant says of the properties *)

LEMMA InvariantType == IInv => TypeOK
<1> SUFFICES ASSUME IInv PROVE TypeOK
    OBVIOUS
<1>1. PICK w : w = pxWindow
    OBVIOUS
<1>2. PICK segs : segs = w.xTxSegments
    OBVIOUS
<1>3. WindowOK(w) /\ w \in WindowType
    BY <1>1 DEF IInv, WindowOK
<1>4. /\ w.ulCurrentSequenceNumber \in SeqNumber /\ w.ulHighestSequenceNumber \in SeqNumber
      /\ w.ulNextTxSequenceNumber \in SeqNumber /\ segs \in Seq(SegmentType) /\ Len(segs) \in Nat
      /\ DOMAIN segs = 1 .. Len(segs) /\ High(w) \in Nat /\ Nxt(w) \in Nat /\ High(w) <= Nxt(w)
      /\ Nxt(w) <= MaxBytes
    BY <1>2, <1>3, WindowFields DEF WindowOK
<1>5. Segments = {segs[i] : i \in 1 .. Len(segs)}
    BY <1>1, <1>2, <1>4 DEF Segments, ToSet
<1>6. Segments \subseteq SegmentType
    <2>1. \A i \in 1 .. Len(segs) : segs[i] \in SegmentType
        BY <1>4, ElementOfSeq
    <2> QED
        BY <2>1, <1>5
<1>7. w.pxHeadSegment \in {s.ulSequenceNumber : s \in Segments} \cup {NoSegment}
    <2>1. HeadFits(segs, w.pxHeadSegment)
        BY <1>2, <1>3 DEF WindowOK
    <2>2. CASE w.pxHeadSegment # NoSegment
        <3>1. Len(segs) # 0 /\ w.pxHeadSegment = segs[Len(segs)].ulSequenceNumber
            BY <2>1, <2>2 DEF HeadFits
        <3>2. Len(segs) \in 1 .. Len(segs)
            BY <3>1, <1>4
        <3>3. segs[Len(segs)] \in Segments
            BY <3>2, <1>5
        <3> QED
            BY <3>1, <3>3
    <2> QED
        BY <2>2
<1>8. freeSegments \in Nat /\ freeSegments + Len(pxWindow.xTxSegments) <= SegmentCount
    BY DEF IInv, PoolOK
<1>9. txStream.head \in Index /\ txStream.tail \in Index /\ txStream.mid \in Index
    BY DEF IInv, Matches, StreamHolds, StreamType
<1>10. received \subseteq 0 .. MaxBytes - 1 /\ Len(acks) <= MaxAcks
    <2>1. received \subseteq 0 .. High(w) - 1 /\ Len(acks) <= MaxAcks
        BY <1>1 DEF IInv, PeerHas
    <2>2. 0 .. High(w) - 1 \subseteq 0 .. MaxBytes - 1
        BY <1>4, Constants
    <2> QED
        BY <2>1, <2>2
<1> QED
    BY <1>1, <1>4, <1>6, <1>7, <1>8, <1>9, <1>10 DEF TypeOK, SegmentType

\* Each position the window has taken over lies in a segment.
LEMMA Covered ==
    ASSUME NEW segs \in Seq(SegmentType), NEW a \in Nat, NEW n \in Nat, Tiled(segs, a, n),
           NEW x \in Nat, a <= x, x < n
    PROVE  \E i \in 1 .. Len(segs) : Start(segs[i]) <= x /\ x < Upto(segs[i])
<1>1. PICK L \in Nat : L = Len(segs)
    BY LenProperties
<1>2. PICK K : K = {i \in 1 .. L : Start(segs[i]) <= x}
    OBVIOUS
<1>3. L # 0
    BY <1>1 DEF Tiled
<1>4. 1 \in K
    <2>1. 1 \in 1 .. L /\ Start(segs[1]) = a
        BY <1>1, <1>3 DEF Tiled
    <2> QED
        BY <2>1, <1>2
<1>5. PICK m \in K : \A j \in K : j <= m
    <2>1. K \in SUBSET (0 .. L) /\ K # {}
        BY <1>2, <1>4
    <2> QED
        BY <2>1, Greatest
<1>6. m \in 1 .. L /\ Start(segs[m]) <= x
    BY <1>2
<1>7. CASE m = L
    <2>1. Upto(segs[m]) = n
        BY <1>1, <1>3, <1>7 DEF Tiled
    <2> QED
        BY <2>1, <1>1, <1>6
<1>8. CASE m # L
    <2>1. m + 1 \in 1 .. L /\ m + 1 \notin K
        BY <1>5, <1>6, <1>8
    <2>2. Start(segs[m + 1]) = Upto(segs[m])
        BY <2>1, <1>1, <1>6 DEF Tiled
    <2>3. ~(Start(segs[m + 1]) <= x)
        BY <2>1, <1>2
    <2>4. Start(segs[m + 1]) \in Nat
        BY <2>1, <1>1, SegmentEntry
    <2>5. x < Upto(segs[m])
        BY <2>2, <2>3, <2>4
    <2> QED
        BY <2>5, <1>1, <1>6
<1> QED
    BY <1>7, <1>8

LEMMA InvariantTiles == IInv => SegmentsTile
<1> SUFFICES ASSUME IInv PROVE SegmentsTile
    OBVIOUS
<1>1. PICK w : w = pxWindow
    OBVIOUS
<1>2. PICK segs : segs = w.xTxSegments
    OBVIOUS
<1>3. PICK tail : tail = txStream.tail
    OBVIOUS
<1>4. WindowOK(w) /\ w \in WindowType /\ Matches(w, txStream)
    BY <1>1 DEF IInv, WindowOK
<1>5. PICK a \in Nat, n \in Nat : a = Cur(w) /\ n = Nxt(w) /\ a <= n /\ n <= MaxBytes
    <2>1. /\ Cur(w) \in Nat /\ High(w) \in Nat /\ Nxt(w) \in Nat /\ Cur(w) <= High(w) /\ High(w) <= Nxt(w)
          /\ Nxt(w) <= MaxBytes
        BY <1>4, WindowFields DEF WindowOK
    <2> QED
        BY <2>1
<1>6. /\ w.ulCurrentSequenceNumber \in SeqNumber /\ w.ulNextTxSequenceNumber \in SeqNumber
      /\ segs \in Seq(SegmentType) /\ DOMAIN segs = 1 .. Len(segs) /\ Tiled(segs, a, n)
    BY <1>2, <1>4, <1>5, WindowFields DEF WindowOK
<1>7. Segments = {segs[i] : i \in 1 .. Len(segs)}
    BY <1>1, <1>2, <1>6 DEF Segments, ToSet
<1> DEFINE at(seq) == SeqSub(seq, pxWindow.ulCurrentSequenceNumber)
<1>8. ASSUME NEW r \in SeqNumber, a <= Position(r)
      PROVE  at(r) = Position(r) - a
    <2>1. SeqSub(r, w.ulCurrentSequenceNumber) = IF Position(r) >= a THEN Position(r) - a
                                                 ELSE Position(r) - a + SeqRange
        BY <1>5, <1>6, NumberDistance DEF Cur
    <2>2. Position(r) \in Nat
        BY PositionValue DEF SeqNumber
    <2>3. Position(r) >= a
        BY <2>2, <1>8
    <2> QED
        BY <2>1, <2>3, <1>1
<1>9. PICK covered \in Nat : covered = Distance(txStream.tail, txStream.mid) /\ covered = n - a
    <2>1. Distance(txStream.tail, txStream.mid) = n - a
        BY <1>4, <1>5 DEF Matches
    <2>2. n - a \in Nat
        BY <1>5
    <2> QED
        BY <2>1, <2>2
<1>10. at(pxWindow.ulNextTxSequenceNumber) = covered
    <2>1. Position(w.ulNextTxSequenceNumber) = n
        BY <1>5 DEF Nxt
    <2>2. a <= Position(w.ulNextTxSequenceNumber)
        BY <2>1, <1>5
    <2>3. at(w.ulNextTxSequenceNumber) = n - a
        BY <2>1, <2>2, <1>6, <1>8
    <2> QED
        BY <2>3, <1>1, <1>9
<1>11. covered <= Distance(txStream.tail, txStream.head)
    BY <1>4, <1>9 DEF Matches
<1>12. ASSUME NEW i \in 1 .. Len(segs)
       PROVE  /\ at(segs[i].ulSequenceNumber) = Start(segs[i]) - a
              /\ at(End(segs[i])) = Upto(segs[i]) - a
              /\ a <= Start(segs[i]) /\ Upto(segs[i]) <= n
              /\ Start(segs[i]) \in Nat /\ segs[i].lDataLength \in Nat
              /\ Upto(segs[i]) = Start(segs[i]) + segs[i].lDataLength
    <2>1. /\ segs[i].ulSequenceNumber \in SeqNumber /\ Start(segs[i]) \in Nat /\ segs[i].lDataLength \in Nat
          /\ Upto(segs[i]) = Start(segs[i]) + segs[i].lDataLength
        BY <1>6, SegmentEntry
    <2>2. a <= Start(segs[i]) /\ Upto(segs[i]) <= n
        BY <1>6 DEF Tiled
    <2>3. at(segs[i].ulSequenceNumber) = Start(segs[i]) - a
        BY <2>1, <2>2, <1>8 DEF Start
    <2>4. segs[i] \in SegmentType /\ Upto(segs[i]) \in Nat /\ Start(segs[i]) < Upto(segs[i])
        BY <1>6, SegmentEntry
    <2>5. a <= Upto(segs[i]) /\ Upto(segs[i]) <= MaxBytes
        BY <2>1, <2>2, <2>4, <1>5, Constants
    <2>6. End(segs[i]) \in SeqNumber /\ Position(End(segs[i])) = Upto(segs[i])
        BY <2>4, <2>5, EndOf
    <2>7. a <= Position(End(segs[i]))
        BY <2>5, <2>6
    <2>8. at(End(segs[i])) = Position(End(segs[i])) - a
        BY <2>6, <2>7, <1>8
    <2> QED
        BY <2>1, <2>2, <2>3, <2>6, <2>8
<1>13. ASSUME NEW p \in 0 .. covered - 1
       PROVE  \E s \in Segments : at(s.ulSequenceNumber) <= p /\ p < at(s.ulSequenceNumber) + s.lDataLength
    <2>1. PICK x \in Nat : x = a + p /\ a <= x /\ x < n
        BY <1>5, <1>9
    <2>2. PICK i \in 1 .. Len(segs) : Start(segs[i]) <= x /\ x < Upto(segs[i])
        BY <2>1, <1>5, <1>6, Covered
    <2>3. PICK s \in Nat, l \in Nat : s = Start(segs[i]) /\ l = segs[i].lDataLength /\ Upto(segs[i]) = s + l
        BY <1>12
    <2>4. at(segs[i].ulSequenceNumber) = s - a
        BY <2>3, <1>12
    <2>5. s - a <= p /\ p < (s - a) + l
        BY <2>1, <2>2, <2>3, <1>5
    <2>6. segs[i] \in Segments
        BY <1>7
    <2> HIDE DEF at
    <2> QED
        BY <2>3, <2>4, <2>5, <2>6
<1>14. ASSUME NEW s \in Segments
       PROVE  at(End(s)) <= covered /\ s.lStreamPos = Wrap(txStream.tail + at(s.ulSequenceNumber))
    <2>1. PICK i \in 1 .. Len(segs) : s = segs[i]
        BY <1>7
    <2>2. at(End(s)) <= covered
        <3>1. at(End(s)) = Upto(segs[i]) - a /\ Upto(segs[i]) <= n /\ Upto(segs[i]) \in Nat
            BY <2>1, <1>12
        <3> HIDE DEF at
        <3> QED
            BY <3>1, <1>5, <1>9
    <2>3. segs[i].lStreamPos = Wrap(txStream.tail + (Start(segs[i]) - a))
        BY <1>2, <1>4, <1>5 DEF Matches, Placed
    <2>4. at(s.ulSequenceNumber) = Start(segs[i]) - a
        BY <2>1, <1>12
    <2> HIDE DEF at
    <2> QED
        BY <2>1, <2>2, <2>3, <2>4
<1> QED
    BY <1>9, <1>10, <1>11, <1>13, <1>14 DEF SegmentsTile

\* Two queues one after the other.
LEMMA Joined ==
    ASSUME NEW S, NEW a \in Seq(S), NEW b \in Seq(S), Distinct(a), Distinct(b), ToSet(a) \cap ToSet(b) = {}
    PROVE  a \o b \in Seq(S) /\ Distinct(a \o b) /\ ToSet(a \o b) = ToSet(a) \cup ToSet(b)
<1>1. PICK L \in Nat, M \in Nat : L = Len(a) /\ M = Len(b)
    BY LenProperties
<1>2. PICK c : c = a \o b
    OBVIOUS
<1>3. /\ c \in Seq(S) /\ Len(c) = L + M
      /\ \A i \in 1 .. L + M : c[i] = IF i <= L THEN a[i] ELSE b[i - L]
    BY <1>1, <1>2, ConcatProperties
<1>4. DOMAIN a = 1 .. L /\ DOMAIN b = 1 .. M /\ DOMAIN c = 1 .. L + M
    BY <1>1, <1>3, LenProperties
<1>5. (\A i \in 1 .. L : a[i] \in ToSet(a)) /\ (\A i \in 1 .. M : b[i] \in ToSet(b))
    BY <1>4 DEF ToSet
<1>6. ASSUME NEW i \in 1 .. L + M
      PROVE  \/ i \in 1 .. L /\ c[i] = a[i] /\ c[i] \in ToSet(a)
             \/ i - L \in 1 .. M /\ c[i] = b[i - L] /\ c[i] \in ToSet(b) /\ ~(i <= L)
    <2>1. CASE i <= L
        BY <2>1, <1>3, <1>5
    <2>2. CASE ~(i <= L)
        <3>1. i - L \in 1 .. M
            BY <2>2
        <3> QED
            BY <3>1, <2>2, <1>3, <1>5
    <2> QED
        BY <2>1, <2>2
<1>7. ASSUME NEW i \in 1 .. L + M, NEW j \in 1 .. L + M, c[i] = c[j]
      PROVE  i = j
    <2>1. CASE i \in 1 .. L /\ j \in 1 .. L /\ c[i] = a[i] /\ c[j] = a[j]
        BY <2>1, <1>1, <1>7 DEF Distinct
    <2>2. CASE i - L \in 1 .. M /\ j - L \in 1 .. M /\ c[i] = b[i - L] /\ c[j] = b[j - L]
        <3>1. i - L = j - L
            BY <2>2, <1>1, <1>7 DEF Distinct
        <3> QED
            BY <3>1
    <2>3. ~(c[i] \in ToSet(a) /\ c[j] \in ToSet(b)) /\ ~(c[j] \in ToSet(a) /\ c[i] \in ToSet(b))
        BY <1>7
    <2> QED
        BY <2>1, <2>2, <2>3, <1>6
<1>8. ToSet(c) = ToSet(a) \cup ToSet(b)
    <2>1. ASSUME NEW x \in ToSet(c)
          PROVE  x \in ToSet(a) \cup ToSet(b)
        BY <1>4, <1>6 DEF ToSet
    <2>2. ASSUME NEW x \in ToSet(a)
          PROVE  x \in ToSet(c)
        <3>1. PICK i \in 1 .. L : x = a[i]
            BY <1>4 DEF ToSet
        <3>2. i \in 1 .. L + M /\ c[i] = x
            BY <3>1, <1>3
        <3> QED
            BY <3>2, <1>4 DEF ToSet
    <2>3. ASSUME NEW x \in ToSet(b)
          PROVE  x \in ToSet(c)
        <3>1. PICK i \in 1 .. M : x = b[i]
            BY <1>4 DEF ToSet
        <3>2. i + L \in 1 .. L + M /\ ~(i + L <= L) /\ (i + L) - L = i
            OBVIOUS
        <3>3. c[i + L] = x
            BY <3>1, <3>2, <1>3
        <3> QED
            BY <3>2, <3>3, <1>4 DEF ToSet
    <2> QED
        BY <2>1, <2>2, <2>3
<1> QED
    BY <1>2, <1>3, <1>7, <1>8 DEF Distinct

\* How often an entry stands in a queue that has each once.
LEMMA CountedOnce ==
    ASSUME NEW S, NEW s \in Seq(S), Distinct(s), NEW x
    PROVE  Cardinality({i \in DOMAIN s : s[i] = x}) = IF x \in ToSet(s) THEN 1 ELSE 0
<1>1. DOMAIN s = 1 .. Len(s)
    BY LenProperties
<1>2. CASE x \in ToSet(s)
    <2>1. PICK j \in 1 .. Len(s) : s[j] = x
        BY <1>1, <1>2 DEF ToSet
    <2>2. {i \in DOMAIN s : s[i] = x} = {j}
        BY <2>1, <1>1 DEF Distinct
    <2> QED
        BY <2>2, <1>2, FS_Singleton
<1>3. CASE x \notin ToSet(s)
    <2>1. {i \in DOMAIN s : s[i] = x} = {}
        BY <1>3 DEF ToSet
    <2> QED
        BY <2>1, <1>3, FS_EmptySet
<1> QED
    BY <1>2, <1>3

LEMMA InvariantQueues == IInv => QueuesPartition
<1> SUFFICES ASSUME IInv PROVE QueuesPartition
    OBVIOUS
<1>1. PICK w : w = pxWindow
    OBVIOUS
<1>2. WindowOK(w) /\ w \in WindowType
    BY <1>1 DEF IInv, WindowOK
<1>3. PICK segs, prio, wait, tx : /\ segs = w.xTxSegments /\ prio = w.xPriorityQueue
                                  /\ wait = w.xWaitQueue /\ tx = w.xTxQueue
    OBVIOUS
<1>4. /\ segs \in Seq(SegmentType) /\ DOMAIN segs = 1 .. Len(segs) /\ Len(segs) \in Nat
      /\ prio \in Seq(SeqNumber) /\ wait \in Seq(SeqNumber) /\ tx \in Seq(SeqNumber) /\ Len(tx) \in Nat
      /\ DOMAIN tx = 1 .. Len(tx)
      /\ InFlight(segs, prio, wait) /\ Unsent(segs, tx, High(w), Nxt(w))
    BY <1>2, <1>3, WindowFields, LenProperties DEF WindowOK
<1>5. /\ Distinct(prio) /\ Distinct(wait) /\ ToSet(prio) \cap ToSet(wait) = {} /\ Distinct(tx)
      /\ \A i \in 1 .. Len(segs) : segs[i].bOutstanding => segs[i].ulSequenceNumber \notin ToSet(tx)
    BY <1>2, <1>3, <1>4, TxQueueEntry DEF InFlight
<1>6. /\ \A x \in ToSet(prio) \cup ToSet(wait) : \E i \in 1 .. Len(segs) :
            x = segs[i].ulSequenceNumber /\ segs[i].bOutstanding /\ ~segs[i].bAcked
      /\ \A i \in 1 .. Len(segs) :
            segs[i].ulSequenceNumber \in ToSet(prio) \cup ToSet(wait) <=> segs[i].bOutstanding /\ ~segs[i].bAcked
    BY <1>2, <1>3, FlyingEntry
<1>7. ASSUME NEW i \in 1 .. Len(segs), ~segs[i].bOutstanding
      PROVE  segs[i].ulSequenceNumber \in ToSet(tx)
    <2>1. PICK sent \in Nat : sent = Len(segs) - Len(tx)
        <3>1. Len(tx) <= Len(segs)
            BY <1>4 DEF Unsent
        <3>2. Len(segs) - Len(tx) \in Nat
            BY <3>1, <1>4
        <3> QED
            BY <3>2
    <2>2. sent < i
        <3>1. segs[i].bOutstanding <=> i <= sent
            BY <2>1, <1>4 DEF Unsent
        <3> QED
            BY <3>1, <1>7, <2>1
    <2>3. PICK j \in 1 .. Len(tx) : i = sent + j
        <3>1. i - sent \in 1 .. Len(tx) /\ i = sent + (i - sent)
            BY <2>1, <2>2, <1>4
        <3> QED
            BY <3>1
    <2>4. tx[j] = segs[i].ulSequenceNumber
        BY <2>1, <2>3, <1>4 DEF Unsent
    <2> QED
        BY <2>4, <1>4 DEF ToSet
<1>8. \A i \in 1 .. Len(segs) : segs[i].bAcked => segs[i].bOutstanding
    BY <1>4 DEF Unsent
<1>9. PICK both : both = prio \o wait
    OBVIOUS
<1>10. both \in Seq(SeqNumber) /\ Distinct(both) /\ ToSet(both) = ToSet(prio) \cup ToSet(wait)
    BY <1>4, <1>5, <1>9, Joined
<1>11. ToSet(both) \cap ToSet(tx) = {}
    BY <1>5, <1>6, <1>10
<1>12. PICK queues : queues = both \o tx
    OBVIOUS
<1>13. queues \in Seq(SeqNumber) /\ Distinct(queues) /\ ToSet(queues) = ToSet(both) \cup ToSet(tx)
    BY <1>4, <1>5, <1>10, <1>11, <1>12, Joined
<1>14. ASSUME NEW x
       PROVE  Queued(x) = IF x \in ToSet(queues) THEN 1 ELSE 0
    <2>1. Queued(x) = Cardinality({i \in DOMAIN queues : queues[i] = x})
        BY <1>1, <1>3, <1>9, <1>12 DEF Queued
    <2>2. Cardinality({i \in DOMAIN queues : queues[i] = x}) = IF x \in ToSet(queues) THEN 1 ELSE 0
        BY <1>13, CountedOnce
    <2> QED
        BY <2>1, <2>2, Zenon
<1>15. ASSUME NEW s \in Segments
       PROVE  /\ Queued(s.ulSequenceNumber) = IF s.bAcked THEN 0 ELSE 1
              /\ s.bOutstanding <=> s.ulSequenceNumber \notin ToSet(pxWindow.xTxQueue)
    <2>1. PICK i \in 1 .. Len(segs) : s = segs[i]
        BY <1>1, <1>3, <1>4 DEF Segments, ToSet
    <2>2. s.ulSequenceNumber \in ToSet(queues) <=> ~s.bAcked
        BY <2>1, <1>5, <1>6, <1>7, <1>8, <1>10, <1>13
    <2>3. s.bOutstanding <=> s.ulSequenceNumber \notin ToSet(tx)
        BY <2>1, <1>5, <1>7
    <2>4. Queued(s.ulSequenceNumber) = IF s.bAcked THEN 0 ELSE 1
        BY <2>2, <1>14, Zenon
    <2> QED
        BY <2>3, <2>4, <1>1, <1>3
<1> QED
    BY <1>15 DEF QueuesPartition

LEMMA InvariantSent == IInv => SentIsStream
<1> SUFFICES ASSUME IInv, NEW packet \in wire, NEW i \in 1 .. Len(packet.data)
             PROVE  packet.data[i] = Position(packet.seq) + i - 1
    BY DEF SentIsStream
<1>1. PICK p \in 0 .. MaxBytes, n \in 1 .. MSS : packet = Packet(p, n)
    BY DEF IInv, PacketOK
<1>2. p \in Nat /\ n \in Nat
    BY <1>1, Constants
<1>3. packet.seq = Number(p) /\ packet.data = [j \in 1 .. n |-> p + j - 1]
    BY <1>1 DEF Packet
<1>4. Position(packet.seq) = p
    BY <1>3, PositionOfNumber
<1>5. i \in 1 .. n
    <2>1. PICK data : data = [j \in 1 .. n |-> p + j - 1]
        OBVIOUS
    <2>2. data \in Seq(Int) /\ DOMAIN data = 1 .. n
        BY <1>2, <2>1
    <2>3. Len(data) = n
        BY <1>2, <2>2, LenProperties
    <2> QED
        BY <2>1, <2>3, <1>3
<1> QED
    BY <1>3, <1>4, <1>5

LEMMA InvariantReceived == IInv => ConfirmedReceived
<1> SUFFICES ASSUME IInv PROVE ConfirmedReceived
    OBVIOUS
<1>1. PICK w : w = pxWindow
    OBVIOUS
<1>2. WindowOK(w) /\ w \in WindowType /\ PeerHas(w, received)
    BY <1>1 DEF IInv, WindowOK
<1>3. PICK segs : segs = w.xTxSegments
    OBVIOUS
<1>4. /\ Cur(w) \in Nat /\ High(w) \in Nat /\ Nxt(w) \in Nat /\ High(w) <= Nxt(w) /\ Nxt(w) <= MaxBytes
      /\ segs \in Seq(SegmentType) /\ DOMAIN segs = 1 .. Len(segs) /\ Tiled(segs, Cur(w), Nxt(w))
    BY <1>2, <1>3, WindowFields DEF WindowOK
<1>5. Cur(w) <= Prefix(received)
    <2>1. High(w) <= MaxBytes /\ received \subseteq 0 .. High(w) - 1
        BY <1>2, <1>4, Constants DEF PeerHas
    <2>2. PICK p \in Nat : p = Prefix(received) /\ p \notin received
        <3>1. Prefix(received) \in 0 .. MaxBytes /\ Prefix(received) \notin received
            BY <2>1, <1>4, PrefixValue
        <3> QED
            BY <3>1
    <2>3. 0 .. Cur(w) - 1 \subseteq received /\ 0 <= p
        BY <1>2 DEF PeerHas
    <2>4. Cur(w) <= p
        BY <2>2, <2>3, <1>4, BelowPrefix
    <2> QED
        BY <2>2, <2>4
<1>6. ASSUME NEW s \in Segments, s.bAcked
      PROVE  Positions(s.ulSequenceNumber, s.lDataLength) \subseteq received
    <2>1. PICK i \in 1 .. Len(segs) : s = segs[i]
        BY <1>1, <1>3, <1>4 DEF Segments, ToSet
    <2>2. PICK q \in SeqNumber, l \in Nat : q = s.ulSequenceNumber /\ l = s.lDataLength
        BY <2>1, <1>4, SegmentEntry
    <2>3. Start(s) = Position(q) /\ Upto(s) = Position(q) + l
        BY <2>2 DEF Start, Upto
    <2>4. Upto(s) <= MaxBytes
        <3>1. Upto(s) <= Nxt(w) /\ Upto(s) \in Nat
            BY <2>1, <1>4, SegmentEntry DEF Tiled
        <3> QED
            BY <3>1, <1>4, Constants
    <2>5. Positions(q, l) = Position(q) .. Position(q) + l - 1
        BY <2>3, <2>4, PositionsAre
    <2>6. Start(s) .. Upto(s) - 1 \subseteq received
        BY <2>1, <1>2, <1>3, <1>6 DEF PeerHas
    <2>7. Positions(q, l) = Start(s) .. Upto(s) - 1
        <3>1. PICK p \in Nat : p = Position(q)
            BY PositionValue DEF SeqNumber
        <3>2. PICK b \in Nat : b = p + l
            OBVIOUS
        <3>3. Start(s) = p /\ Upto(s) = b
            BY <2>3, <3>1, <3>2
        <3>4. Positions(q, l) = p .. b - 1
            BY <2>5, <3>1, <3>2
        <3> QED
            BY <3>3, <3>4
    <2> QED
        BY <2>2, <2>6, <2>7, Zenon
<1> QED
    BY <1>1, <1>5, <1>6 DEF ConfirmedReceived, Cur

LEMMA InvariantBounded == IInv => NeverOverruns
<1> SUFFICES ASSUME IInv, Unwrapped, ~overtaken PROVE Position(pxWindow.ulHighestSequenceNumber) <= edge
    BY DEF NeverOverruns, WindowKept
<1>1. Bounded(pxWindow, ulWindowSize, edge)
    BY DEF IInv
<1> QED
    BY <1>1 DEF Bounded, Unwrapped, High

-----------------------------------------------------------------------------
(* The properties *)

\* The fields of the window stay in their ranges, no descriptor is handed out
\* twice and no more acknowledgements are kept than MaxAcks.
THEOREM TypesRight == Spec => []TypeOK
BY Invariant, InvariantType, PTL

\* The segments tile the stream from its tail to uxMid, each at its lStreamPos,
\* and each that was not acknowledged is in one of the three queues, once: none is
\* forgotten and none sent from two of them.
THEOREM SegmentsKept == Spec => []StreamCovered
<1>1. IInv => StreamCovered
    BY InvariantTiles, InvariantQueues DEF StreamCovered
<1> QED
    BY <1>1, Invariant, PTL

\* A packet holds the bytes its sequence number promises, sent once or again.
THEOREM PacketsRight == Spec => []SentIsStream
BY Invariant, InvariantSent, PTL

\* prvTCPWindowTxCheckAck() drops, and takes out of the queues, only what the
\* peer has, whatever acknowledgements are lost, repeated or overtaken.
THEOREM NothingLost == Spec => []ConfirmedReceived
BY Invariant, InvariantReceived, PTL

\* prvTCPWindowTxHasSpace() keeps within the peer's window, until the numbers wrap
\* or an acknowledgement is overtaken.
THEOREM WindowRespected == Spec => []NeverOverruns
BY Invariant, InvariantBounded, PTL
=============================================================================
