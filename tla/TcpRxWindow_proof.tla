------------------------- MODULE TcpRxWindow_proof -------------------------
(***************************************************************************)
(* Proofs about TcpRxWindow.  The invariant says that sequence numbers,    *)
(* descriptors and indices stand for the same positions of the peer's      *)
(* stream: ulCurrentSequenceNumber for headPosition, the indices for the   *)
(* positions that are as far apart, and a descriptor for bytes that lie in *)
(* their slots.  From it follows what lTCPWindowRxCheck() may answer       *)
(* (CheckOutcome), from that what prvStoreRxData() leaves in the buffer    *)
(* (StreamEffect), and from both that Receive keeps the invariant.         *)
(*                                                                         *)
(* That the stored segments which continue from a position leave no gap    *)
(* (RunCovers) and come to an end (RunEnds) is shown without induction, by *)
(* the first or the last of the positions concerned.                       *)
(***************************************************************************)
EXTENDS TcpRxWindow, FiniteSetTheorems, TLAPS

\* The index arithmetic of the stream buffer, for every LENGTH.

\* A distance counts slots, and the space before the same bound is one short
\* of what the distance leaves: the free slot tells a full buffer from an empty one.
LEMMA SpaceIsRest ==
    ASSUME NEW t \in Index, NEW h \in Index
    PROVE  /\ Distance(t, h) \in 0 .. LENGTH - 1
           /\ Space(h, t) = LENGTH - 1 - Distance(t, h)
           /\ Distance(t, t) = 0
BY LengthAssumption DEF Index, Wrap, Distance, Space

\* Moving the far end forward lengthens the distance by as much.
LEMMA DistanceGrows ==
    ASSUME NEW t \in Index, NEW h \in Index, NEW n \in Nat,
           Distance(t, h) + n <= LENGTH - 1
    PROVE  /\ Wrap(h + n) \in Index
           /\ Distance(t, Wrap(h + n)) = Distance(t, h) + n
BY LengthAssumption DEF Index, Wrap, Distance

\* Moving the near end forward shortens it by as much.
LEMMA DistanceShrinks ==
    ASSUME NEW t \in Index, NEW h \in Index, NEW n \in Nat, n <= Distance(t, h)
    PROVE  /\ Wrap(t + n) \in Index
           /\ Distance(Wrap(t + n), h) = Distance(t, h) - n
BY LengthAssumption DEF Index, Wrap, Distance

\* Going n slots on from t and then e more is going n + e slots on.
LEMMA WrapTwice ==
    ASSUME NEW t \in Index, NEW n \in Nat, NEW e \in Nat, n + e < LENGTH
    PROVE  Wrap(Wrap(t + n) + e) = Wrap(t + (n + e))
BY LengthAssumption DEF Index, Wrap

\* The comparison of two indices compares their distances from the tail, also
\* where the subtraction of size_t values wraps below zero.
LEMMA ComparesDistances ==
    ASSUME NEW t \in Index, NEW l \in Index, NEW r \in Index
    PROVE  LessThenEqual(t, l, r) <=> Distance(t, l) <= Distance(t, r)
BY LengthAssumption DEF LessThenEqual, SizeSub, Distance, Wrap, Index

\* What fits is added whole.
LEMMA AddedWhole ==
    ASSUME NEW b, b.head \in Index, b.tail \in Index, NEW o \in Nat, NEW n \in Nat,
           Distance(b.tail, b.head) + o + n <= LENGTH - 1
    PROVE  AddedCount(b, o, n) = n
<1>1. /\ Distance(b.tail, b.head) \in 0 .. LENGTH - 1
      /\ Space(b.head, b.tail) = LENGTH - 1 - Distance(b.tail, b.head)
    BY SpaceIsRest
<1> QED
    BY <1>1, LengthAssumption DEF AddedCount, Beyond, Least

\* The slot k places on from the tail lies at the same distance from any place between.
LEMMA DistanceBetween ==
    ASSUME NEW t \in Index, NEW m \in 0 .. LENGTH - 1, NEW k \in 0 .. LENGTH - 1
    PROVE  /\ Wrap(t + m) \in Index /\ Wrap(t + k) \in Index
           /\ Distance(Wrap(t + m), Wrap(t + k)) = IF k >= m THEN k - m ELSE LENGTH + k - m
BY LengthAssumption DEF Index, Wrap, Distance

\* An Add of what fits changes the slots it is meant for and no other; an Add
\* without an offset moves the head over them, and the front does not stay behind.
LEMMA StreamAdds ==
    ASSUME NEW b, b.head \in Index, b.tail \in Index, b.front \in Index,
           NEW o \in Nat, NEW n \in Nat \ {0}, NEW data,
           Distance(b.tail, b.head) + o + n <= LENGTH - 1,
           Distance(b.tail, b.head) <= Distance(b.tail, b.front)
    PROVE  LET c == StreamAdd(b, o, data, n)
               from == Distance(b.tail, b.head) + o
           IN  /\ c.tail = b.tail /\ c.head \in Index /\ c.front \in Index
               /\ c.head = IF o = 0 THEN Wrap(b.head + n) ELSE b.head
               /\ Distance(c.tail, c.head) = IF o = 0 THEN from + n ELSE Distance(b.tail, b.head)
               /\ Distance(c.tail, c.head) <= Distance(c.tail, c.front)
               /\ \A k \in 0 .. LENGTH - 1 :
                     c.array[Wrap(b.tail + k)] =
                         IF data # << >> /\ from <= k /\ k < from + n
                         THEN data[k - from] ELSE b.array[Wrap(b.tail + k)]
               /\ data = << >> => \A i \in Index : c.array[i] = b.array[i]
               /\ c.array = [i \in Index |-> c.array[i]]
<1> DEFINE d == Distance(b.tail, b.head)
<1> DEFINE at == Wrap(b.head + o)
<1> DEFINE nextHead == IF o = 0 THEN Wrap(at + n) ELSE at
<1> DEFINE c == StreamAdd(b, o, data, n)
<1> DEFINE slots == [i \in Index |-> IF data # << >> /\ Distance(at, i) < n
                                     THEN data[Distance(at, i)] ELSE b.array[i]]
<1>1. d \in 0 .. LENGTH - 1 /\ d + o + n <= LENGTH - 1 /\ LENGTH \in Nat /\ n >= 1
    BY SpaceIsRest, LengthAssumption
<1>2. AddedCount(b, o, n) = n
    BY AddedWhole
<1>3. /\ at \in Index /\ Distance(b.tail, at) = d + o
      /\ at = Wrap(b.tail + (d + o))
    <2>1. d + o <= LENGTH - 1
        BY <1>1
    <2>2. at \in Index /\ Distance(b.tail, at) = d + o
        BY <2>1, DistanceGrows
    <2>3. at = Wrap(b.tail + (d + o))
        BY <2>1, <1>1 DEF Index, Wrap, Distance
    <2> QED
        BY <2>2, <2>3
<1>4. c = [array |-> slots, head |-> IF o = 0 THEN nextHead ELSE b.head, tail |-> b.tail,
           front |-> IF LessThenEqual(b.tail, b.front, nextHead) THEN nextHead ELSE b.front]
    BY <1>2 DEF StreamAdd
<1>5. o = 0 => at = b.head
    BY LengthAssumption DEF Wrap, Index
<1>6. /\ nextHead \in Index
      /\ Distance(b.tail, nextHead) = IF o = 0 THEN d + n ELSE d + o
    <2>1. CASE o = 0
        <3>1. d + n <= LENGTH - 1
            BY <1>1, <2>1
        <3>2. Wrap(b.head + n) \in Index /\ Distance(b.tail, Wrap(b.head + n)) = d + n
            BY <3>1, DistanceGrows
        <3> QED
            BY <3>2, <2>1, <1>5
    <2>2. CASE o # 0
        BY <2>2, <1>3
    <2> QED
        BY <2>1, <2>2
<1>7. Distance(b.tail, b.front) \in 0 .. LENGTH - 1
      /\ (LessThenEqual(b.tail, b.front, nextHead) <=> Distance(b.tail, b.front) <= Distance(b.tail, nextHead))
    BY <1>6, SpaceIsRest, ComparesDistances
<1>8. ASSUME NEW k \in 0 .. LENGTH - 1
      PROVE  slots[Wrap(b.tail + k)] = IF data # << >> /\ d + o <= k /\ k < d + o + n
                                       THEN data[k - (d + o)] ELSE b.array[Wrap(b.tail + k)]
    <2>1. d + o \in 0 .. LENGTH - 1
        BY <1>1
    <2>2. /\ Wrap(b.tail + k) \in Index
          /\ Distance(at, Wrap(b.tail + k)) = IF k >= d + o THEN k - (d + o) ELSE LENGTH + k - (d + o)
        BY <2>1, <1>3, DistanceBetween
    <2>3. Distance(at, Wrap(b.tail + k)) < n <=> d + o <= k /\ k < d + o + n
        BY <2>2, <1>1
    <2> QED
        BY <2>2, <2>3
<1>9. data = << >> => \A i \in Index : slots[i] = b.array[i]
    OBVIOUS
<1> HIDE DEF c, slots, nextHead, at
<1>10. c.tail = b.tail /\ c.array = slots
       /\ c.head = (IF o = 0 THEN nextHead ELSE b.head)
       /\ c.front = (IF LessThenEqual(b.tail, b.front, nextHead) THEN nextHead ELSE b.front)
    BY <1>4
<1>11. slots = [i \in Index |-> slots[i]]
    BY DEF slots
<1>12. o = 0 => nextHead = Wrap(b.head + n)
    BY <1>5 DEF nextHead
<1>13. /\ c.head \in Index /\ c.front \in Index
       /\ Distance(c.tail, c.head) = IF o = 0 THEN d + o + n ELSE d
       /\ Distance(c.tail, c.head) <= Distance(c.tail, c.front)
    BY <1>1, <1>6, <1>7, <1>10
<1> QED
    BY <1>8, <1>9, <1>10, <1>11, <1>12, <1>13 DEF c


-----------------------------------------------------------------------------
(* Sequence numbers *)

\* A number less than a turn below zero or above the range comes back into it.
LEMMA ModuloOnce ==
    ASSUME NEW x \in Int, -SeqRange <= x, x < 2 * SeqRange
    PROVE  x % SeqRange = IF x < 0 THEN x + SeqRange ELSE IF x < SeqRange THEN x ELSE x - SeqRange
BY SeqRangeAssumption

LEMMA HalfRangeIsHalf ==
    /\ HalfRange \in Nat /\ 2 * HalfRange = SeqRange /\ HalfRange > 0
    /\ MaxBytes \in Nat /\ MaxBytes < HalfRange
    /\ InitialSeq \in Nat /\ InitialSeq < SeqRange
BY SeqRangeAssumption, RxAssumption DEF HalfRange, SeqNumber

\* Less than a turn is added to a sequence number.
LEMMA SeqAddOnce ==
    ASSUME NEW q \in SeqNumber, NEW n \in 0 .. SeqRange
    PROVE  /\ SeqAdd(q, n) \in SeqNumber
           /\ SeqAdd(q, n) = IF q + n < SeqRange THEN q + n ELSE q + n - SeqRange
<1>1. q \in Int /\ n \in Int /\ q + n >= 0 /\ q + n < 2 * SeqRange /\ SeqRange \in Nat
    BY HalfRangeIsHalf DEF SeqNumber
<1>2. (q + n) % SeqRange = IF q + n < SeqRange THEN q + n ELSE q + n - SeqRange
    BY <1>1, ModuloOnce
<1> QED
    BY <1>1, <1>2 DEF SeqAdd, SeqNumber

\* The sequence number of a position, and of the place after the last one.
LEMMA SeqValue ==
    ASSUME NEW a \in 0 .. MaxBytes + 1
    PROVE  /\ Seq(a) \in SeqNumber
           /\ Seq(a) = IF InitialSeq + a < SeqRange THEN InitialSeq + a ELSE InitialSeq + a - SeqRange
<1>1. InitialSeq + a \in Int /\ InitialSeq + a >= 0 /\ InitialSeq + a < 2 * SeqRange
    BY HalfRangeIsHalf
<1>2. Seq(a) = IF InitialSeq + a < SeqRange THEN InitialSeq + a ELSE InitialSeq + a - SeqRange
    BY <1>1, ModuloOnce, HalfRangeIsHalf DEF Seq, SeqAdd
<1> QED
    BY <1>1, <1>2, HalfRangeIsHalf DEF SeqNumber

\* Going on from a position goes on in the sequence numbers.
LEMMA SeqOnward ==
    ASSUME NEW a \in 0 .. MaxBytes + 1, NEW n \in Nat, a + n <= MaxBytes + 1
    PROVE  SeqAdd(Seq(a), n) = Seq(a + n)
<1>1. a + n \in 0 .. MaxBytes + 1
    BY HalfRangeIsHalf
<1>2. /\ Seq(a) = IF InitialSeq + a < SeqRange THEN InitialSeq + a ELSE InitialSeq + a - SeqRange
      /\ Seq(a + n) = IF InitialSeq + (a + n) < SeqRange THEN InitialSeq + (a + n)
                      ELSE InitialSeq + (a + n) - SeqRange
    BY <1>1, SeqValue
<1>3. SeqAdd(Seq(a), n) = IF Seq(a) + n < SeqRange THEN Seq(a) + n ELSE Seq(a) + n - SeqRange
    <2>1. Seq(a) \in SeqNumber /\ n \in 0 .. SeqRange
        BY SeqValue, HalfRangeIsHalf
    <2> QED
        BY <2>1, SeqAddOnce
<1> QED
    BY <1>2, <1>3, HalfRangeIsHalf

\* The difference of two sequence numbers tells which position is the later one.
LEMMA SeqDifference ==
    ASSUME NEW a \in 0 .. MaxBytes + 1, NEW b \in 0 .. MaxBytes + 1
    PROVE  /\ SeqSub(Seq(a), Seq(b)) = IF a >= b THEN a - b ELSE SeqRange + a - b
           /\ Seq(a) = Seq(b) => a = b
           /\ a - b <= MaxBytes => Signed(SeqSub(Seq(a), Seq(b))) = a - b
           /\ a - b <= MaxBytes => (xSequenceGreaterThanOrEqual(Seq(a), Seq(b)) <=> a >= b)
<1>1. /\ Seq(a) = IF InitialSeq + a < SeqRange THEN InitialSeq + a ELSE InitialSeq + a - SeqRange
      /\ Seq(b) = IF InitialSeq + b < SeqRange THEN InitialSeq + b ELSE InitialSeq + b - SeqRange
    BY SeqValue
<1>2. Seq(a) - Seq(b) \in Int /\ -SeqRange <= Seq(a) - Seq(b) /\ Seq(a) - Seq(b) < SeqRange
    BY <1>1, HalfRangeIsHalf
<1>3. SeqSub(Seq(a), Seq(b)) = IF Seq(a) - Seq(b) < 0 THEN Seq(a) - Seq(b) + SeqRange
                               ELSE Seq(a) - Seq(b)
    BY <1>2, ModuloOnce, HalfRangeIsHalf DEF SeqSub
<1>4. SeqSub(Seq(a), Seq(b)) = IF a >= b THEN a - b ELSE SeqRange + a - b
    BY <1>1, <1>3, HalfRangeIsHalf
<1>5. Seq(a) = Seq(b) => a = b
    BY <1>1, HalfRangeIsHalf
<1> QED
    BY <1>4, <1>5, HalfRangeIsHalf DEF Signed, xSequenceGreaterThanOrEqual

-----------------------------------------------------------------------------
(* The first and the last of some positions *)

LEMMA Smallest ==
    ASSUME NEW n \in Nat, NEW K \in SUBSET (0 .. n), K # {}
    PROVE  \E m \in K : \A j \in K : m <= j
<1> DEFINE upTo(m) == {j \in K : j <= m}
<1> DEFINE R == StrictSubsetOrdering(K)
<1> DEFINE T == {upTo(m) : m \in K}
<1>1. IsFiniteSet(K) /\ \A j \in K : j \in Int
    <2>1. IsFiniteSet(0 .. n)
        BY FS_Interval
    <2>2. IsFiniteSet(K)
        BY <2>1, FS_Subset
    <2> QED
        BY <2>2
<1>2. IsWellFoundedOn(R, FiniteSubsetsOf(K))
    BY FS_StrictSubsetOrderingWellFounded
<1>3. T \subseteq FiniteSubsetsOf(K) /\ T # {}
    <2>1. \A m \in K : upTo(m) \in SUBSET K /\ IsFiniteSet(upTo(m))
        BY <1>1, FS_Subset
    <2> QED
        BY <2>1 DEF FiniteSubsetsOf
<1>4. PICK x \in T : \A y \in T : ~ (<< y, x >> \in R)
    <2> HIDE DEF R, T
    <2> QED
        BY <1>2, <1>3, WFMin
<1>5. PICK m \in K : x = upTo(m)
    BY <1>4
<1>6. ASSUME NEW j \in K, j < m
      PROVE  FALSE
    <2>1. upTo(j) \subseteq upTo(m)
        <3>1. \A i \in K : i <= j => i <= m
            BY <1>1, <1>6
        <3> QED
            BY <3>1
    <2>2. m \in upTo(m) /\ m \notin upTo(j)
        BY <1>1, <1>6
    <2>3. << upTo(j), upTo(m) >> \in R
        BY <2>1, <2>2 DEF StrictSubsetOrdering
    <2> QED
        BY <2>3, <1>4, <1>5
<1> QED
    <2>1. \A j \in K : m <= j
        BY <1>1, <1>6
    <2> QED
        BY <2>1

LEMMA Greatest ==
    ASSUME NEW n \in Nat, NEW K \in SUBSET (0 .. n), K # {}
    PROVE  \E m \in K : \A j \in K : j <= m
<1> DEFINE mirror == {n - j : j \in K}
<1>1. mirror \in SUBSET (0 .. n) /\ mirror # {}
    <2>1. \A j \in K : j \in 0 .. n /\ n - j \in 0 .. n
        OBVIOUS
    <2> QED
        BY <2>1
<1>2. PICK l \in mirror : \A i \in mirror : l <= i
    <2> HIDE DEF mirror
    <2> QED
        BY <1>1, Smallest
<1>3. PICK m \in K : l = n - m
    BY <1>2
<1>4. \A j \in K : n - m <= n - j
    BY <1>2, <1>3
<1>5. \A j \in K : j <= m
    <2>1. \A j \in K : j \in Int
        OBVIOUS
    <2> QED
        BY <1>4, <2>1
<1> QED
    BY <1>5

-----------------------------------------------------------------------------
(* Segments stored ahead of a gap *)

\* The stream positions of a segment's first byte, and of the one after its last.
At(s) == SeqSub(s.seq, InitialSeq)
Upto(s) == At(s) + s.length

IsSegment(s) ==
    \E a, b \in 0 .. MaxBytes : a < b /\ s = [seq |-> Seq(a), length |-> b - a]

Covers(s, p) == At(s) <= p /\ p < Upto(s)

\* A segment is known by its positions.
LEMMA SegmentPlace ==
    ASSUME NEW a \in 0 .. MaxBytes, NEW b \in 0 .. MaxBytes, a < b,
           NEW s, s = [seq |-> Seq(a), length |-> b - a]
    PROVE  IsSegment(s) /\ At(s) = a /\ Upto(s) = b /\ s.length = b - a /\ s.seq = Seq(a)
<1>1. InitialSeq = Seq(0) /\ 0 \in 0 .. MaxBytes + 1 /\ a \in 0 .. MaxBytes + 1
    <2>1. 0 \in 0 .. MaxBytes + 1 /\ a \in 0 .. MaxBytes + 1
        BY HalfRangeIsHalf
    <2> QED
        BY <2>1, SeqValue, HalfRangeIsHalf
<1>2. At(s) = a
    BY <1>1, SeqDifference DEF At
<1> QED
    BY <1>2, HalfRangeIsHalf DEF IsSegment, Upto

LEMMA SegmentIs ==
    ASSUME NEW s, IsSegment(s)
    PROVE  /\ At(s) \in 0 .. MaxBytes /\ Upto(s) \in 0 .. MaxBytes /\ At(s) < Upto(s)
           /\ s.seq = Seq(At(s)) /\ s.length = Upto(s) - At(s) /\ s.length \in 1 .. MaxBytes
           /\ SeqAdd(s.seq, s.length) = Seq(Upto(s))
           /\ s = [seq |-> Seq(At(s)), length |-> Upto(s) - At(s)]
<1>1. PICK a \in 0 .. MaxBytes, b \in 0 .. MaxBytes : a < b /\ s = [seq |-> Seq(a), length |-> b - a]
    BY DEF IsSegment
<1>2. At(s) = a /\ Upto(s) = b /\ s.length = b - a /\ s.seq = Seq(a)
    BY <1>1, SegmentPlace
<1>3. SeqAdd(Seq(a), b - a) = Seq(b)
    <2>1. a \in 0 .. MaxBytes + 1 /\ b - a \in Nat /\ a + (b - a) <= MaxBytes + 1 /\ a + (b - a) = b
        BY <1>1, HalfRangeIsHalf
    <2>2. SeqAdd(Seq(a), b - a) = Seq(a + (b - a))
        BY <2>1, SeqOnward
    <2> QED
        BY <2>1, <2>2
<1> QED
    BY <1>1, <1>2, <1>3, HalfRangeIsHalf

\* Positions that have the same sequence number are the same.
LEMMA SeqApart ==
    ASSUME NEW a \in 0 .. MaxBytes, NEW b \in 0 .. MaxBytes, Seq(a) = Seq(b)
    PROVE  a = b
<1>1. a \in 0 .. MaxBytes + 1 /\ b \in 0 .. MaxBytes + 1
    BY HalfRangeIsHalf
<1> QED
    BY <1>1, SeqDifference

\* The segments that continue from a position, one after the other, leave no gap.
LEMMA RunCovers ==
    ASSUME NEW segments, \A s \in segments : IsSegment(s), NEW from \in 0 .. MaxBytes,
           NEW s \in Following(segments, Seq(from))
    PROVE  /\ At(s) >= from /\ s \in segments
           /\ \A p \in from .. Upto(s) - 1 :
                 \E t \in Following(segments, Seq(from)) : At(t) >= from /\ Covers(t, p)
<1>1. PICK run \in SUBSET segments :
         /\ s \in run
         /\ \A t \in run : t.seq = Seq(from) \/ \E u \in run : t.seq = SeqAdd(u.seq, u.length)
    BY DEF Following
<1>2. run \subseteq Following(segments, Seq(from))
    BY <1>1 DEF Following
<1>3. \A t \in run : /\ At(t) \in 0 .. MaxBytes /\ Upto(t) \in 0 .. MaxBytes /\ At(t) < Upto(t)
                     /\ t.seq = Seq(At(t)) /\ SeqAdd(t.seq, t.length) = Seq(Upto(t))
    BY SegmentIs
<1>4. \A t \in run : At(t) = from \/ \E u \in run : At(t) = Upto(u)
    BY <1>1, <1>3, SeqApart
<1>5. \A t \in run : At(t) >= from
    <2> DEFINE K == {At(t) : t \in run}
    <2>1. K \in SUBSET (0 .. MaxBytes) /\ K # {} /\ MaxBytes \in Nat
        BY <1>1, <1>3, HalfRangeIsHalf
    <2>2. PICK m \in K : \A j \in K : m <= j
        <3> HIDE DEF K
        <3> QED
            BY <2>1, Smallest
    <2>3. PICK t \in run : m = At(t)
        BY <2>2
    <2>4. ASSUME NEW u \in run
          PROVE  At(t) # Upto(u)
        <3>1. At(t) <= At(u)
            BY <2>2, <2>3
        <3> QED
            BY <3>1, <1>3
    <2>5. At(t) = from
        BY <2>4, <1>4
    <2> QED
        BY <2>2, <2>3, <2>5, <1>3
<1>6. ASSUME NEW p \in from .. Upto(s) - 1, \A t \in run : ~Covers(t, p)
      PROVE  FALSE
    <2> DEFINE K == {i \in 0 .. MaxBytes : i > p /\ \E t \in run : i = At(t)}
    <2>0. p \in Int /\ from <= p
        BY <1>1, <1>3
    <2>1. At(s) \in K
        BY <2>0, <1>1, <1>3, <1>6 DEF Covers
    <2>2. PICK m \in K : \A j \in K : m <= j
        <3>1. K \in SUBSET (0 .. MaxBytes) /\ K # {} /\ MaxBytes \in Nat
            BY <2>1, HalfRangeIsHalf
        <3> HIDE DEF K
        <3> QED
            BY <3>1, Smallest
    <2>3. PICK t \in run : m = At(t) /\ At(t) > p
        BY <2>2
    <2>4. At(t) # from
        BY <2>0, <2>3
    <2>5. PICK u \in run : At(t) = Upto(u)
        BY <2>4, <1>4
    <2>6. At(u) <= p
        <3>1. ~(At(u) > p)
            <4>1. SUFFICES ASSUME At(u) > p PROVE FALSE
                OBVIOUS
            <4>2. At(u) \in K
                BY <4>1, <1>3
            <4>3. At(t) <= At(u)
                BY <4>2, <2>2, <2>3
            <4> QED
                BY <4>3, <2>5, <1>3
        <3> QED
            BY <3>1, <2>0, <1>3
    <2> QED
        BY <2>3, <2>5, <2>6, <1>6 DEF Covers
<1> QED
    BY <1>1, <1>2, <1>5, <1>6

\* The run of such segments has an end, a position where none of them starts.
LEMMA RunEnds ==
    ASSUME NEW segments, \A s \in segments : IsSegment(s), NEW from \in 0 .. MaxBytes
    PROVE  \E n \in from .. MaxBytes :
              /\ EndOfRun(segments, Seq(from)) = Seq(n)
              /\ \A s \in segments : s.seq # Seq(n)
              /\ n = from \/ \E s \in Following(segments, Seq(from)) : n = Upto(s)
<1> DEFINE follow == Following(segments, Seq(from))
<1> DEFINE ends == {Seq(from)} \cup {SeqAdd(s.seq, s.length) : s \in follow}
<1> DEFINE K == {i \in 0 .. MaxBytes : i = from \/ \E s \in follow : i = Upto(s)}
<1>1. \A s \in segments : /\ At(s) \in 0 .. MaxBytes /\ Upto(s) \in 0 .. MaxBytes /\ At(s) < Upto(s)
                          /\ s.seq = Seq(At(s)) /\ SeqAdd(s.seq, s.length) = Seq(Upto(s))
    BY SegmentIs
<1>2. \A s \in follow : s \in segments /\ At(s) >= from
    BY RunCovers
<1>3. \A i \in K : Seq(i) \in ends
    BY <1>1, <1>2
<1>4. PICK m \in K : \A j \in K : j <= m
    <2>1. K \in SUBSET (0 .. MaxBytes) /\ K # {} /\ MaxBytes \in Nat
        BY HalfRangeIsHalf
    <2> HIDE DEF K
    <2> QED
        BY <2>1, Greatest
<1>5. ASSUME NEW s \in segments, s.seq = Seq(m)
      PROVE  FALSE
    <2>1. At(s) = m
        BY <1>1, <1>5, SeqApart
    <2>2. s \in follow
        <3>1. CASE m = from
            <4>1. {s} \in SUBSET segments /\ \A t \in {s} : t.seq = Seq(from)
                BY <3>1, <1>5
            <4> QED
                BY <4>1 DEF Following
        <3>2. CASE m # from
            <4>1. PICK t \in follow : m = Upto(t)
                BY <3>2, <1>4
            <4>2. PICK run \in SUBSET segments :
                     /\ t \in run
                     /\ \A u \in run : u.seq = Seq(from) \/ \E v \in run : u.seq = SeqAdd(v.seq, v.length)
                BY <4>1 DEF Following
            <4>3. s.seq = SeqAdd(t.seq, t.length)
                BY <4>1, <1>1, <1>2, <1>5
            <4> DEFINE longer == run \cup {s}
            <4>4. /\ longer \in SUBSET segments
                  /\ \A u \in longer : u.seq = Seq(from) \/ \E v \in longer : u.seq = SeqAdd(v.seq, v.length)
                BY <4>2, <4>3
            <4> QED
                BY <4>4 DEF Following
        <3> QED
            BY <3>1, <3>2
    <2>3. Upto(s) \in K
        BY <2>2, <1>1
    <2> QED
        BY <2>1, <2>3, <1>1, <1>4
<1>6. \E e \in ends : \A s \in segments : s.seq # e
    BY <1>3, <1>5
<1>7. /\ EndOfRun(segments, Seq(from)) \in ends
      /\ \A s \in segments : s.seq # EndOfRun(segments, Seq(from))
    <2>1. EndOfRun(segments, Seq(from)) = CHOOSE e \in ends : \A s \in segments : s.seq # e
        BY DEF EndOfRun
    <2> HIDE DEF ends
    <2> QED
        BY <2>1, <1>6
<1>8. CASE EndOfRun(segments, Seq(from)) = Seq(from)
    BY <1>7, <1>8, HalfRangeIsHalf
<1>9. CASE \E s \in follow : EndOfRun(segments, Seq(from)) = SeqAdd(s.seq, s.length)
    <2>1. PICK s \in follow : EndOfRun(segments, Seq(from)) = SeqAdd(s.seq, s.length)
        BY <1>9
    <2>2. Upto(s) \in from .. MaxBytes /\ EndOfRun(segments, Seq(from)) = Seq(Upto(s))
        BY <2>1, <1>1, <1>2
    <2> QED
        BY <2>1, <2>2, <1>7
<1> QED
    BY <1>7, <1>8, <1>9

-----------------------------------------------------------------------------
(* The invariant *)

Fin == IF bFinAccepted THEN 1 ELSE 0

\* The sequence numbers stand for positions of the peer's stream, and the FIN is
\* taken behind the last of its bytes, with nothing left ahead of a gap.
NumbersFit ==
    /\ ulCurrentSequenceNumber = Seq(headPosition + Fin)
    /\ \E h \in 0 .. MaxBytes : ulHighestSequenceNumber = Seq(h)
    /\ bFinAccepted => headPosition = MaxBytes /\ xRxSegments = {}

\* The indices are as far apart as the positions they stand for, and uxFront does
\* not lie behind uxHead.
BufferFits ==
    /\ GetSize = headPosition - tailPosition
    /\ GetSize <= Distance(uxTail, uxFront)

\* Nobody has more descriptors than there are.
PoolFits == IsFiniteSet(xRxSegments) /\ freeSegments + Cardinality(xRxSegments) <= SegmentCount

\* A descriptor is that of a segment which the peer sends ...
SegmentsFit ==
    \A t \in xRxSegments : \E c \in slices :
        c[1] < c[2] /\ t = [seq |-> Seq(c[1]), length |-> c[2] - c[1]]

\* ... and which is held, unless it began before what was expected.
SegmentsHeld ==
    \A t \in xRxSegments : At(t) >= headPosition => \A p \in At(t) .. Upto(t) - 1 : Held(p)

\* What is expected next begins where a segment ends.
HeadAtEnd == headPosition = 0 \/ \E c \in slices : c[1] < c[2] /\ c[2] = headPosition

IInv ==
    /\ TypeOK
    /\ NumbersFit
    /\ BufferFits
    /\ PoolFits
    /\ SegmentsFit
    /\ SegmentsHeld
    /\ HeadAtEnd
    /\ StreamIntact
    /\ WindowFits
    /\ SackTruthful

-----------------------------------------------------------------------------
(* Facts about a state that satisfies the invariant *)

\* The segments that the peer sends.
LEMMA SlicesFit ==
    ASSUME TypeOK, NEW s \in slices
    PROVE  s[1] \in 0 .. MaxBytes /\ s[2] \in 0 .. MaxBytes /\ s[1] <= s[2]
           /\ s[1] \in Nat /\ s[2] \in Nat
<1>1. slices \subseteq {c \in (0 .. MaxBytes) \X (0 .. MaxBytes) : c[1] <= c[2]}
    BY RxAssumption DEF TypeOK
<1>2. s \in (0 .. MaxBytes) \X (0 .. MaxBytes) /\ s[1] <= s[2]
    BY <1>1
<1> QED
    BY <1>2

\* The numbers of a state.
LEMMA Numbers ==
    ASSUME TypeOK, BufferFits
    PROVE  /\ MaxBytes \in Nat /\ LENGTH \in Nat /\ LENGTH >= 1
           /\ headPosition \in Nat /\ tailPosition \in Nat /\ tailPosition <= headPosition
           /\ headPosition <= MaxBytes
           /\ uxHead \in Index /\ uxTail \in Index /\ uxFront \in Index
           /\ GetSize \in 0 .. LENGTH - 1 /\ headPosition = tailPosition + GetSize
           /\ GetSpace = LENGTH - 1 - GetSize /\ GetSpace \in Nat
           /\ FrontSpace = LENGTH - 1 - Distance(uxTail, uxFront) /\ FrontSpace \in Nat
           /\ FrontSpace <= GetSpace
           /\ Distance(uxTail, uxFront) \in 0 .. LENGTH - 1
<1>1. /\ uxHead \in Index /\ uxTail \in Index /\ uxFront \in Index /\ LENGTH \in Nat /\ LENGTH >= 1
      /\ headPosition \in 0 .. MaxBytes /\ tailPosition \in 0 .. headPosition /\ MaxBytes \in Nat
    BY LengthAssumption, RxAssumption DEF TypeOK
<1>2. /\ Distance(uxTail, uxHead) \in 0 .. LENGTH - 1 /\ Distance(uxTail, uxFront) \in 0 .. LENGTH - 1
      /\ Space(uxHead, uxTail) = LENGTH - 1 - Distance(uxTail, uxHead)
      /\ Space(uxFront, uxTail) = LENGTH - 1 - Distance(uxTail, uxFront)
    BY <1>1, SpaceIsRest
<1> QED
    BY <1>1, <1>2 DEF BufferFits, GetSize, GetSpace, FrontSpace

\* The descriptors' segments.
LEMMA StoredSegments ==
    ASSUME TypeOK, SegmentsFit
    PROVE  /\ \A t \in xRxSegments : IsSegment(t)
           /\ \A t \in xRxSegments : \E c \in slices : c[1] < c[2] /\ At(t) = c[1] /\ Upto(t) = c[2]
<1>1. ASSUME NEW t \in xRxSegments
      PROVE  IsSegment(t) /\ \E c \in slices : c[1] < c[2] /\ At(t) = c[1] /\ Upto(t) = c[2]
    <2>1. PICK c \in slices : c[1] < c[2] /\ t = [seq |-> Seq(c[1]), length |-> c[2] - c[1]]
        BY DEF SegmentsFit
    <2>2. c[1] \in 0 .. MaxBytes /\ c[2] \in 0 .. MaxBytes
        BY SlicesFit
    <2> QED
        BY <2>1, <2>2, SegmentPlace
<1> QED
    BY <1>1

\* At first nothing is received, stored or due.
LEMMA InitIInv == Init => IInv
<1> SUFFICES ASSUME Init PROVE IInv
    OBVIOUS
<1> USE LengthAssumption, RxAssumption
<1>0. MaxBytes \in Nat /\ LENGTH \in Nat /\ LENGTH >= 1 /\ RxWindowLength \in Nat /\ 0 \in Index
      /\ SegmentCount \in Nat
    BY DEF Index
<1>1. Seq(0) \in SeqNumber /\ 0 \in 0 .. MaxBytes
    <2>1. 0 \in 0 .. MaxBytes + 1
        BY <1>0
    <2> QED
        BY <2>1, <1>0, SeqValue
<1>2. allowed \in 0 .. MaxBytes /\ allowed <= LENGTH - 1
    BY <1>0 DEF Init, Least
<1>3. TypeOK
    BY <1>0, <1>1, <1>2 DEF Init, TypeOK
<1>4. NumbersFit
    BY <1>1 DEF Init, NumbersFit, Fin
<1>5. BufferFits
    BY <1>0 DEF Init, BufferFits, GetSize, Distance, Wrap
<1>6. PoolFits
    BY <1>0, FS_EmptySet DEF Init, PoolFits
<1> QED
    BY <1>0, <1>2, <1>3, <1>4, <1>5, <1>6 DEF Init, IInv, SegmentsFit, SegmentsHeld, HeadAtEnd, StreamIntact,
       WindowFits, SackTruthful

-----------------------------------------------------------------------------
(* What lTCPWindowRxCheck() makes of a segment *)

\* The run that ends at position n leaves no byte out: all of it is held.
LEMMA RunHeld ==
    ASSUME IInv, NEW segments \in SUBSET xRxSegments, NEW from \in headPosition .. MaxBytes
    PROVE  \E n \in from .. MaxBytes :
              /\ EndOfRun(segments, Seq(from)) = Seq(n)
              /\ \A p \in from .. n - 1 : Held(p)
              /\ n = from \/ \E c \in slices : c[1] < c[2] /\ c[2] = n
<1>1. /\ from \in 0 .. MaxBytes /\ headPosition \in Nat /\ MaxBytes \in Nat /\ headPosition <= from
      /\ \A t \in segments : IsSegment(t)
      /\ \A t \in segments : \E c \in slices : c[1] < c[2] /\ At(t) = c[1] /\ Upto(t) = c[2]
    BY Numbers, StoredSegments DEF IInv
<1>2. PICK n \in from .. MaxBytes :
         /\ EndOfRun(segments, Seq(from)) = Seq(n)
         /\ n = from \/ \E s \in Following(segments, Seq(from)) : n = Upto(s)
    BY <1>1, RunEnds
<1>3. CASE n = from
    BY <1>1, <1>2, <1>3
<1>4. CASE n # from
    <2>1. PICK s \in Following(segments, Seq(from)) : n = Upto(s)
        BY <1>2, <1>4
    <2>2. /\ s \in segments
          /\ \A p \in from .. n - 1 :
                \E t \in Following(segments, Seq(from)) : At(t) >= from /\ Covers(t, p)
        BY <1>1, <2>1, RunCovers
    <2>3. ASSUME NEW p \in from .. n - 1
          PROVE  Held(p)
        <3>1. PICK t \in Following(segments, Seq(from)) : At(t) >= from /\ Covers(t, p)
            BY <2>2
        <3>2. t \in segments /\ At(t) \in Nat /\ Upto(t) \in Nat
            <4>1. t \in segments
                BY <3>1, <1>1, RunCovers
            <4> QED
                BY <4>1, <1>1, SegmentIs
        <3>3. At(t) >= headPosition /\ p \in At(t) .. Upto(t) - 1
            BY <3>1, <3>2, <1>1 DEF Covers
        <3> QED
            BY <3>2, <3>3 DEF IInv, SegmentsHeld
    <2>4. \E c \in slices : c[1] < c[2] /\ c[2] = n
        BY <1>1, <2>1, <2>2
    <2> QED
        BY <1>2, <2>3, <2>4
<1> QED
    BY <1>3, <1>4

\* The segment s has been examined, and n is the position expected next.
Advances(s, check, n) ==
    /\ n = headPosition => check.userData = 0 /\ check.offset # 0
    /\ n # headPosition =>
          /\ s[1] = headPosition /\ check.offset = 0 /\ s[2] <= n /\ check.userData = n - s[2]
          /\ \E c \in slices : c[1] < c[2] /\ c[2] = n
          /\ \A p \in s[2] .. n - 1 : Held(p)

\* Data is only taken where there is room for it.
Writes(s, check) ==
    check.offset >= 0 =>
       s[1] < s[2] /\ check.offset = s[1] - headPosition /\ s[2] - headPosition <= GetSpace

\* A descriptor is added only for the data that is taken, or that began too early.
Stores(s, check) ==
    /\ \A t \in check.segments :
          \/ t \in xRxSegments
          \/ /\ t = [seq |-> Seq(s[1]), length |-> s[2] - s[1]] /\ s[1] < s[2]
             /\ check.offset >= 0 \/ s[1] < headPosition
    /\ IsFiniteSet(check.segments)
    /\ Cardinality(check.segments) <= Cardinality(xRxSegments) + freeSegments
    /\ bFinAccepted => check.segments = {}

\* The option names the segment and what is held behind it.
Selects(s, check) ==
    \/ check.option = << >>
    \/ \E m \in s[2] .. MaxBytes :
          /\ check.option = << Seq(s[1]), Seq(m) >>
          /\ s[1] < s[2] /\ headPosition < s[2]
          /\ \A p \in s[2] .. m - 1 : Held(p)
          /\ \/ check.offset >= 0
             \/ s[1] < headPosition
             \/ \E t \in xRxSegments : t.seq = Seq(s[1])

Outcome(s, check, n) ==
    /\ check.current = Seq(n + Fin)
    /\ check.offset \in Int
    /\ Advances(s, check, n)
    /\ Writes(s, check)
    /\ Stores(s, check)
    /\ Selects(s, check)

\* The numbers that occur in these lemmas.
LEMMA SliceNumbers ==
    ASSUME IInv, NEW s \in slices
    PROVE  /\ s[1] \in Nat /\ s[2] \in Nat /\ s[1] <= s[2] /\ s[2] <= MaxBytes
           /\ MaxBytes \in Nat /\ headPosition \in Nat /\ headPosition <= MaxBytes
           /\ GetSpace \in Nat /\ Fin \in 0 .. 1 /\ freeSegments \in Nat
           /\ IsFiniteSet(xRxSegments) /\ Cardinality(xRxSegments) \in Nat
           /\ ulCurrentSequenceNumber = Seq(headPosition + Fin)
           /\ headPosition + Fin \in 0 .. MaxBytes + 1
           /\ bFinAccepted => headPosition = MaxBytes /\ Fin = 1
           /\ ~bFinAccepted => Fin = 0
<1>1. s[1] \in Nat /\ s[2] \in Nat /\ s[1] <= s[2] /\ s[2] <= MaxBytes /\ MaxBytes \in Nat
    BY SlicesFit, RxAssumption DEF IInv
<1>2. headPosition \in Nat /\ headPosition <= MaxBytes /\ GetSpace \in Nat
    BY Numbers DEF IInv
<1>3. IsFiniteSet(xRxSegments) /\ Cardinality(xRxSegments) \in Nat
    BY FS_CardinalityType DEF IInv, PoolFits
<1>4. freeSegments \in Nat
    BY RxAssumption DEF IInv, TypeOK
<1>5. Fin \in 0 .. 1 /\ (bFinAccepted => Fin = 1) /\ (~bFinAccepted => Fin = 0)
    BY DEF Fin
<1>6. ulCurrentSequenceNumber = Seq(headPosition + Fin) /\ (bFinAccepted => headPosition = MaxBytes)
    BY DEF IInv, NumbersFit
<1>7. headPosition + Fin \in 0 .. MaxBytes + 1
    BY <1>1, <1>2, <1>5
<1> QED
    BY <1>1, <1>2, <1>3, <1>4, <1>5, <1>6, <1>7

\* Refused data changes nothing.
LEMMA RefusedOutcome ==
    ASSUME IInv, NEW s \in slices
    PROVE  Outcome(s, Refused, headPosition)
<1>1. freeSegments \in Nat /\ Cardinality(xRxSegments) \in Nat /\ IsFiniteSet(xRxSegments)
    BY SliceNumbers
<1>2. Refused.current = Seq(headPosition + Fin)
    BY SliceNumbers DEF Refused
<1>3. Stores(s, Refused)
    BY <1>1 DEF Stores, Refused, IInv, NumbersFit
<1> QED
    BY <1>2, <1>3 DEF Outcome, Advances, Writes, Selects, Refused

\* prvTCPWindowRx_ExpectedRX() takes the data that was expected, and what waited.
LEMMA ExpectedOutcome ==
    ASSUME IInv, NEW s \in slices, s[1] < s[2],
           Seq(s[1]) = ulCurrentSequenceNumber, s[2] - s[1] <= GetSpace
    PROVE  \E n \in headPosition .. MaxBytes : Outcome(s, Expected(s[2] - s[1]), n)
<1> DEFINE next == SeqAdd(ulCurrentSequenceNumber, s[2] - s[1])
<1> DEFINE left == xRxSegments \ Overlapped(xRxSegments, ulCurrentSequenceNumber, s[2] - s[1])
<1> DEFINE check == Expected(s[2] - s[1])
<1>0. /\ s[1] \in Nat /\ s[2] \in Nat /\ s[2] <= MaxBytes /\ MaxBytes \in Nat
      /\ headPosition \in Nat /\ headPosition <= MaxBytes /\ GetSpace \in Nat
      /\ freeSegments \in Nat /\ IsFiniteSet(xRxSegments) /\ Cardinality(xRxSegments) \in Nat
    BY SliceNumbers
<1>1. s[1] = headPosition /\ ~bFinAccepted /\ Fin = 0
    <2>1. s[1] = headPosition + Fin
        <3>1. /\ s[1] \in 0 .. MaxBytes + 1 /\ headPosition + Fin \in 0 .. MaxBytes + 1
              /\ Seq(s[1]) = Seq(headPosition + Fin)
            BY <1>0, SliceNumbers
        <3> QED
            BY <3>1, SeqDifference
    <2> QED
        BY <2>1, <1>0, SliceNumbers
<1>2. next = Seq(s[2])
    <2>1. /\ s[1] \in 0 .. MaxBytes + 1 /\ s[2] - s[1] \in Nat /\ s[1] + (s[2] - s[1]) = s[2]
          /\ s[1] + (s[2] - s[1]) <= MaxBytes + 1
        BY <1>0
    <2>2. SeqAdd(Seq(s[1]), s[2] - s[1]) = Seq(s[1] + (s[2] - s[1]))
        BY <2>1, SeqOnward
    <2> QED
        BY <2>1, <2>2
<1>3. left \in SUBSET xRxSegments /\ s[2] \in headPosition .. MaxBytes
    BY <1>0, <1>1
<1>4. PICK n \in s[2] .. MaxBytes :
         /\ EndOfRun(left, Seq(s[2])) = Seq(n)
         /\ \A p \in s[2] .. n - 1 : Held(p)
         /\ n = s[2] \/ \E c \in slices : c[1] < c[2] /\ c[2] = n
    <2> HIDE DEF left
    <2> QED
        BY <1>3, RunHeld
<1>5. n \in Nat /\ n # headPosition /\ s[2] <= n /\ n \in headPosition .. MaxBytes
    BY <1>0, <1>1, <1>4
<1>6. /\ check.offset = 0 /\ check.current = Seq(n) /\ check.option = << >>
      /\ check.segments \subseteq xRxSegments
      /\ check.userData = SeqSub(Seq(n), Seq(s[2]))
    <2>1. /\ check.offset = 0 /\ check.current = EndOfRun(left, next) /\ check.option = << >>
          /\ check.segments = left \ Following(left, next)
          /\ check.userData = SeqSub(EndOfRun(left, next), next)
        BY DEF Expected
    <2> QED
        BY <2>1, <1>2, <1>3, <1>4
<1>7. SeqSub(Seq(n), Seq(s[2])) = n - s[2]
    <2>1. n \in 0 .. MaxBytes + 1 /\ s[2] \in 0 .. MaxBytes + 1
        BY <1>0, <1>4
    <2> QED
        BY <2>1, <1>5, SeqDifference
<1>8. IsFiniteSet(check.segments) /\ Cardinality(check.segments) <= Cardinality(xRxSegments)
      /\ Cardinality(check.segments) \in Nat
    <2>1. check.segments \in SUBSET xRxSegments
        BY <1>6
    <2> HIDE DEF check
    <2> QED
        BY <1>0, <2>1, FS_Subset, FS_CardinalityType
<1> HIDE DEF check, next, left
<1>9. Advances(s, check, n)
    <2>1. \E c \in slices : c[1] < c[2] /\ c[2] = n
        BY <1>4
    <2> QED
        BY <2>1, <1>1, <1>4, <1>5, <1>6, <1>7 DEF Advances
<1>10. Writes(s, check)
    BY <1>0, <1>1, <1>6 DEF Writes
<1>11. Stores(s, check)
    <2>1. Cardinality(check.segments) <= Cardinality(xRxSegments) + freeSegments
        BY <1>0, <1>8
    <2> QED
        BY <2>1, <1>1, <1>6, <1>8 DEF Stores
<1>12. Selects(s, check)
    BY <1>6 DEF Selects
<1>13. check.current = Seq(n + Fin) /\ check.offset \in Int
    <2>1. n + Fin = n
        BY <1>1, <1>5
    <2> QED
        BY <2>1, <1>6
<1>14. Outcome(s, check, n)
    BY <1>9, <1>10, <1>11, <1>12, <1>13 DEF Outcome
<1> QED
    BY <1>5, <1>14 DEF check

\* prvTCPWindowRx_UnexpectedRX() stores a segment ahead of a gap, if it can.
LEMMA UnexpectedOutcome ==
    ASSUME IInv, NEW s \in slices, s[1] < s[2],
           Seq(s[1]) # ulCurrentSequenceNumber, ~bFinAccepted,
           headPosition < s[2], s[2] - headPosition <= GetSpace
    PROVE  Outcome(s, Unexpected(Seq(s[1]), s[2] - s[1]), headPosition)
<1> DEFINE new == [seq |-> Seq(s[1]), length |-> s[2] - s[1]]
<1> DEFINE check == Unexpected(Seq(s[1]), s[2] - s[1])
<1> DEFINE option == << Seq(s[1]), EndOfRun(xRxSegments, SeqAdd(Seq(s[1]), s[2] - s[1])) >>
<1>0. /\ s[1] \in Nat /\ s[2] \in Nat /\ s[2] <= MaxBytes /\ MaxBytes \in Nat
      /\ headPosition \in Nat /\ headPosition <= MaxBytes /\ GetSpace \in Nat
      /\ freeSegments \in Nat /\ IsFiniteSet(xRxSegments) /\ Cardinality(xRxSegments) \in Nat
      /\ Fin = 0 /\ ulCurrentSequenceNumber = Seq(headPosition)
    BY SliceNumbers
<1>1. SeqAdd(Seq(s[1]), s[2] - s[1]) = Seq(s[2])
    <2>1. /\ s[1] \in 0 .. MaxBytes + 1 /\ s[2] - s[1] \in Nat /\ s[1] + (s[2] - s[1]) = s[2]
          /\ s[1] + (s[2] - s[1]) <= MaxBytes + 1
        BY <1>0
    <2>2. SeqAdd(Seq(s[1]), s[2] - s[1]) = Seq(s[1] + (s[2] - s[1]))
        BY <2>1, SeqOnward
    <2> QED
        BY <2>1, <2>2
<1>2. PICK m \in s[2] .. MaxBytes :
         /\ EndOfRun(xRxSegments, Seq(s[2])) = Seq(m)
         /\ \A p \in s[2] .. m - 1 : Held(p)
    <2>1. s[2] \in headPosition .. MaxBytes
        BY <1>0
    <2> QED
        BY <2>1, RunHeld
<1>3. option = << Seq(s[1]), Seq(m) >>
    BY <1>1, <1>2
<1>4. Signed(SeqSub(Seq(s[1]), ulCurrentSequenceNumber)) = s[1] - headPosition
      /\ s[1] # headPosition
    <2>1. s[1] \in 0 .. MaxBytes + 1 /\ headPosition \in 0 .. MaxBytes + 1 /\ s[1] - headPosition <= MaxBytes
        BY <1>0
    <2> QED
        BY <2>1, <1>0, SeqDifference
<1>5. CASE \E t \in xRxSegments : t.seq = Seq(s[1])
    <2>1. check = [Refused EXCEPT !.option = option]
        BY <1>5 DEF Unexpected
    <2>2. /\ check.offset = -1 /\ check.current = ulCurrentSequenceNumber
          /\ check.segments = xRxSegments /\ check.userData = 0
          /\ check.option = << Seq(s[1]), Seq(m) >>
        BY <2>1, <1>3 DEF Refused
    <2> HIDE DEF check
    <2>3. Selects(s, check)
        BY <1>2, <1>5, <2>2 DEF Selects
    <2>4. Stores(s, check)
        BY <1>0, <2>2 DEF Stores
    <2>5. Outcome(s, check, headPosition)
        BY <1>0, <2>2, <2>3, <2>4 DEF Outcome, Advances, Writes
    <2> QED
        BY <2>5 DEF check
<1>6. CASE ~(\E t \in xRxSegments : t.seq = Seq(s[1])) /\ freeSegments = 0
    <2>1. check = Refused
        BY <1>6 DEF Unexpected
    <2> QED
        BY <2>1, RefusedOutcome
<1>7. CASE ~(\E t \in xRxSegments : t.seq = Seq(s[1])) /\ freeSegments # 0
    <2>1. check = [Refused EXCEPT !.offset = s[1] - headPosition,
                                  !.segments = @ \cup {new}, !.option = option]
        BY <1>4, <1>7 DEF Unexpected
    <2>2. /\ check.offset = s[1] - headPosition /\ check.current = ulCurrentSequenceNumber
          /\ check.segments = xRxSegments \cup {new} /\ check.userData = 0
          /\ check.option = << Seq(s[1]), Seq(m) >>
        BY <2>1, <1>3 DEF Refused
    <2> HIDE DEF check
    <2>3. Selects(s, check)
        <3>1. check.offset >= 0 \/ s[1] < headPosition
            BY <1>0, <2>2
        <3> QED
            BY <3>1, <1>2, <2>2 DEF Selects
    <2>4. Stores(s, check)
        <3>1. IsFiniteSet(xRxSegments \cup {new})
            BY <1>0, FS_AddElement
        <3>2. Cardinality(xRxSegments \cup {new}) \in Nat
            BY <3>1, FS_CardinalityType
        <3>3. \/ Cardinality(xRxSegments \cup {new}) = Cardinality(xRxSegments)
              \/ Cardinality(xRxSegments \cup {new}) = Cardinality(xRxSegments) + 1
            <4> HIDE DEF new
            <4> QED
                BY <1>0, FS_AddElement
        <3>4. Cardinality(xRxSegments \cup {new}) <= Cardinality(xRxSegments) + freeSegments
            BY <1>0, <1>7, <3>3
        <3>5. check.offset >= 0 \/ s[1] < headPosition
            BY <1>0, <2>2
        <3> QED
            BY <1>0, <2>2, <3>1, <3>4, <3>5 DEF Stores
    <2>5. Writes(s, check)
        BY <1>0, <2>2 DEF Writes
    <2>6. check.offset \in Int /\ check.offset # 0
        BY <1>0, <1>4, <2>2
    <2>7. check.current = Seq(headPosition + Fin)
        BY <1>0, <2>2
    <2>8. Outcome(s, check, headPosition)
        BY <2>2, <2>3, <2>4, <2>5, <2>6, <2>7 DEF Outcome, Advances
    <2> QED
        BY <2>8 DEF check
<1> QED
    BY <1>5, <1>6, <1>7

\* lTCPWindowRxCheck(), whatever it is given.
LEMMA CheckOutcome ==
    ASSUME IInv, NEW s \in slices, NEW check,
           check = IF s[2] - s[1] = 0 THEN Refused ELSE RxCheck(Seq(s[1]), s[2] - s[1], GetSpace)
    PROVE  \E n \in headPosition .. MaxBytes : Outcome(s, check, n)
<1> DEFINE length == s[2] - s[1]
<1>0. /\ s[1] \in Nat /\ s[2] \in Nat /\ s[1] <= s[2] /\ s[2] <= MaxBytes /\ MaxBytes \in Nat
      /\ headPosition \in Nat /\ headPosition <= MaxBytes /\ GetSpace \in Nat
      /\ headPosition + Fin \in 0 .. MaxBytes + 1 /\ Fin \in 0 .. 1
      /\ ulCurrentSequenceNumber = Seq(headPosition + Fin)
      /\ bFinAccepted => headPosition = MaxBytes /\ Fin = 1
      /\ ~bFinAccepted => Fin = 0
    BY SliceNumbers
<1>1. CASE check = Refused
    <2>1. headPosition \in headPosition .. MaxBytes
        BY <1>0
    <2> QED
        BY <1>1, <2>1, RefusedOutcome
<1>2. CASE length # 0 /\ Seq(s[1]) = ulCurrentSequenceNumber /\ length <= GetSpace
    <2>1. s[1] < s[2] /\ check = Expected(s[2] - s[1])
        BY <1>0, <1>2 DEF RxCheck
    <2> QED
        BY <1>2, <2>1, ExpectedOutcome
<1>3. CASE /\ length # 0 /\ Seq(s[1]) # ulCurrentSequenceNumber
           /\ check = Unexpected(Seq(s[1]), s[2] - s[1])
           /\ 0 < Signed(SeqSub(SeqAdd(Seq(s[1]), length), ulCurrentSequenceNumber))
           /\ Signed(SeqSub(SeqAdd(Seq(s[1]), length), ulCurrentSequenceNumber)) <= GetSpace
    <2>1. SeqAdd(Seq(s[1]), length) = Seq(s[2])
        <3>1. /\ s[1] \in 0 .. MaxBytes + 1 /\ length \in Nat /\ s[1] + length = s[2]
              /\ s[1] + length <= MaxBytes + 1
            BY <1>0
        <3>2. SeqAdd(Seq(s[1]), length) = Seq(s[1] + length)
            BY <3>1, SeqOnward
        <3> QED
            BY <3>1, <3>2
    <2>2. Signed(SeqSub(Seq(s[2]), Seq(headPosition + Fin))) = s[2] - (headPosition + Fin)
        <3>1. s[2] \in 0 .. MaxBytes + 1 /\ s[2] - (headPosition + Fin) <= MaxBytes
            BY <1>0
        <3> QED
            BY <1>0, <3>1, SeqDifference
    <2>3. 0 < s[2] - (headPosition + Fin) /\ s[2] - (headPosition + Fin) <= GetSpace
        BY <1>0, <1>3, <2>1, <2>2
    <2>4. ~bFinAccepted /\ headPosition < s[2] /\ s[2] - headPosition <= GetSpace /\ s[1] < s[2]
        BY <1>0, <1>3, <2>3
    <2>5. headPosition \in headPosition .. MaxBytes
        BY <1>0
    <2> QED
        BY <1>3, <2>4, <2>5, UnexpectedOutcome
<1>4. \/ check = Refused
      \/ length # 0 /\ Seq(s[1]) = ulCurrentSequenceNumber /\ length <= GetSpace
      \/ /\ length # 0 /\ Seq(s[1]) # ulCurrentSequenceNumber
         /\ check = Unexpected(Seq(s[1]), s[2] - s[1])
         /\ ~ (Signed(SeqSub(SeqAdd(Seq(s[1]), length), ulCurrentSequenceNumber)) <= 0)
         /\ ~ (Signed(SeqSub(SeqAdd(Seq(s[1]), length), ulCurrentSequenceNumber)) > GetSpace)
    <2>1. length \in Nat /\ GetSpace \in Nat
        BY <1>0
    <2> QED
        BY <2>1 DEF RxCheck
<1>5. Signed(SeqSub(SeqAdd(Seq(s[1]), length), ulCurrentSequenceNumber)) \in Int
    <2>1. SeqAdd(Seq(s[1]), length) \in Int /\ ulCurrentSequenceNumber \in Int
        <3>1. s[1] \in 0 .. MaxBytes + 1 /\ length \in 0 .. SeqRange
            BY <1>0, HalfRangeIsHalf
        <3>2. Seq(s[1]) \in SeqNumber
            BY <3>1, SeqValue
        <3>3. SeqAdd(Seq(s[1]), length) \in SeqNumber
            BY <3>1, <3>2, SeqAddOnce
        <3> QED
            BY <3>3, HalfRangeIsHalf DEF IInv, TypeOK, SeqNumber
    <2>2. SeqSub(SeqAdd(Seq(s[1]), length), ulCurrentSequenceNumber) \in Int
        <3> HIDE DEF length
        <3> QED
            BY <2>1, HalfRangeIsHalf DEF SeqSub
    <2> HIDE DEF length
    <2> QED
        BY <2>2, HalfRangeIsHalf DEF Signed
<1> QED
    <2>1. GetSpace \in Int
        BY <1>0
    <2> HIDE DEF length
    <2> QED
        BY <2>1, <1>1, <1>2, <1>3, <1>4, <1>5

-----------------------------------------------------------------------------
(* What a segment leaves in the buffer *)

\* Every slot lies at some distance from the tail.
LEMMA SlotAtDistance ==
    ASSUME NEW t \in Index, NEW i \in Index
    PROVE  Distance(t, i) \in 0 .. LENGTH - 1 /\ Wrap(t + Distance(t, i)) = i
BY LengthAssumption DEF Index, Wrap, Distance

\* What lies beyond the head is as far from it as the distances from the tail say.
LEMMA DistanceRest ==
    ASSUME NEW t \in Index, NEW h \in Index, NEW x \in Index, Distance(t, h) <= Distance(t, x)
    PROVE  Distance(h, x) = Distance(t, x) - Distance(t, h)
BY LengthAssumption DEF Index, Wrap, Distance

\* The buffer `b' holds what ucArray held, with the bytes of s written in their
\* slots, and its head stands for position n.
Filled(b, s, n, wrote) ==
    /\ b.tail = uxTail /\ b.head \in Index /\ b.front \in Index
    /\ b.array \in [Index -> (0 .. MaxBytes) \cup {Garbage}]
    /\ Distance(uxTail, b.head) = n - tailPosition
    /\ Distance(uxTail, b.head) <= Distance(uxTail, b.front)
    /\ \A k \in 0 .. LENGTH - 1 :
          b.array[Wrap(uxTail + k)] =
              IF wrote /\ s[1] <= tailPosition + k /\ tailPosition + k < s[2]
              THEN tailPosition + k ELSE ucArray[Wrap(uxTail + k)]

\* The buffer before the segment.
LEMMA NothingFilled ==
    ASSUME IInv, NEW s \in slices
    PROVE  Filled(rxStream, s, headPosition, FALSE)
<1>1. /\ uxHead \in Index /\ uxFront \in Index
      /\ ucArray \in [Index -> (0 .. MaxBytes) \cup {Garbage}]
      /\ Distance(uxTail, uxHead) = headPosition - tailPosition
      /\ Distance(uxTail, uxHead) <= Distance(uxTail, uxFront)
    BY DEF IInv, TypeOK, BufferFits, GetSize
<1> QED
    BY <1>1 DEF Filled, rxStream

\* The segment's own bytes.
LEMMA DataFilled ==
    ASSUME IInv, NEW s \in slices, NEW check, check.offset \in Nat, s[1] < s[2],
           check.offset = s[1] - headPosition, s[2] - headPosition <= GetSpace,
           NEW stored, stored = WithData(check, s[1], s[2] - s[1])
    PROVE  /\ StoredAll(check, s[2] - s[1])
           /\ s[2] - tailPosition <= LENGTH - 1
           /\ Filled(stored, s, IF check.offset = 0 THEN s[2] ELSE headPosition, TRUE)
<1> DEFINE length == s[2] - s[1]
<1> DEFINE data == [i \in 0 .. length - 1 |-> s[1] + i]
<1>0. /\ s[1] \in Nat /\ s[2] \in Nat /\ s[2] <= MaxBytes /\ MaxBytes \in Nat
      /\ headPosition \in Nat /\ tailPosition \in Nat /\ tailPosition <= headPosition
      /\ LENGTH \in Nat /\ LENGTH >= 1 /\ check.offset \in Nat /\ length \in Nat \ {0}
      /\ Distance(uxTail, uxHead) = headPosition - tailPosition
      /\ GetSpace = LENGTH - 1 - (headPosition - tailPosition)
      /\ uxHead \in Index /\ uxTail \in Index /\ uxFront \in Index
      /\ Distance(uxTail, uxHead) <= Distance(uxTail, uxFront)
      /\ Distance(uxTail, uxFront) \in 0 .. LENGTH - 1
    <2>1. s[1] \in Nat /\ s[2] \in Nat /\ s[2] <= MaxBytes
        BY SliceNumbers
    <2>2. /\ MaxBytes \in Nat /\ headPosition \in Nat /\ tailPosition \in Nat
          /\ tailPosition <= headPosition /\ LENGTH \in Nat /\ LENGTH >= 1
          /\ GetSize \in 0 .. LENGTH - 1 /\ headPosition = tailPosition + GetSize
          /\ GetSpace = LENGTH - 1 - GetSize
          /\ uxHead \in Index /\ uxTail \in Index /\ uxFront \in Index
          /\ Distance(uxTail, uxFront) \in 0 .. LENGTH - 1
        BY Numbers DEF IInv
    <2>3. GetSize = Distance(uxTail, uxHead) /\ GetSize <= Distance(uxTail, uxFront)
        BY DEF IInv, BufferFits, GetSize
    <2> QED
        BY <2>1, <2>2, <2>3
<1>1. s[2] - tailPosition <= LENGTH - 1
      /\ Distance(uxTail, uxHead) + check.offset + length <= LENGTH - 1
    BY <1>0
<1>2. StoredAll(check, s[2] - s[1])
    <2>1. rxStream.head = uxHead /\ rxStream.tail = uxTail
        BY DEF rxStream
    <2>2. AddedCount(rxStream, check.offset, length) = length
        <3> HIDE DEF length
        <3> QED
            BY <2>1, <1>0, <1>1, AddedWhole
    <2> QED
        BY <2>2 DEF StoredAll
<1>3. data # << >>
    <2>1. 0 \in DOMAIN data
        BY <1>0
    <2>2. DOMAIN << >> = {}
        OBVIOUS
    <2> QED
        BY <2>1, <2>2
<1>4. stored = StreamAdd(rxStream, check.offset, data, length)
    <2>1. ~ (check.offset < 0)
        BY <1>0
    <2> QED
        BY <2>1 DEF WithData
<1> DEFINE from == Distance(uxTail, uxHead) + check.offset
<1>5. /\ stored.tail = uxTail /\ stored.head \in Index /\ stored.front \in Index
      /\ Distance(uxTail, stored.head) =
            IF check.offset = 0 THEN from + length ELSE Distance(uxTail, uxHead)
      /\ Distance(uxTail, stored.head) <= Distance(uxTail, stored.front)
      /\ \A k \in 0 .. LENGTH - 1 :
            stored.array[Wrap(uxTail + k)] =
                IF data # << >> /\ from <= k /\ k < from + length
                THEN data[k - from] ELSE ucArray[Wrap(uxTail + k)]
      /\ stored.array = [i \in Index |-> stored.array[i]]
    <2>1. /\ rxStream.head = uxHead /\ rxStream.tail = uxTail /\ rxStream.front = uxFront
          /\ rxStream.array = ucArray
        BY DEF rxStream
    <2> HIDE DEF data, length
    <2>2. /\ Distance(rxStream.tail, rxStream.head) + check.offset + length <= LENGTH - 1
          /\ Distance(rxStream.tail, rxStream.head) <= Distance(rxStream.tail, rxStream.front)
          /\ rxStream.head \in Index /\ rxStream.tail \in Index /\ rxStream.front \in Index
          /\ check.offset \in Nat /\ length \in Nat \ {0}
        BY <2>1, <1>0, <1>1
    <2> DEFINE c == StreamAdd(rxStream, check.offset, data, length)
    <2>3. /\ c.tail = rxStream.tail /\ c.head \in Index /\ c.front \in Index
          /\ Distance(c.tail, c.head) =
                IF check.offset = 0 THEN Distance(rxStream.tail, rxStream.head) + check.offset + length
                ELSE Distance(rxStream.tail, rxStream.head)
          /\ Distance(c.tail, c.head) <= Distance(c.tail, c.front)
          /\ \A k \in 0 .. LENGTH - 1 :
                c.array[Wrap(rxStream.tail + k)] =
                    IF data # << >> /\ Distance(rxStream.tail, rxStream.head) + check.offset <= k
                       /\ k < Distance(rxStream.tail, rxStream.head) + check.offset + length
                    THEN data[k - (Distance(rxStream.tail, rxStream.head) + check.offset)]
                    ELSE rxStream.array[Wrap(rxStream.tail + k)]
          /\ c.array = [i \in Index |-> c.array[i]]
        BY <2>2, StreamAdds
    <2> QED
        BY <2>1, <2>3, <1>4
<1>6. from = s[1] - tailPosition /\ from + length = s[2] - tailPosition
    BY <1>0
<1>7. \A k \in 0 .. LENGTH - 1 :
          stored.array[Wrap(uxTail + k)] =
              IF s[1] <= tailPosition + k /\ tailPosition + k < s[2]
              THEN tailPosition + k ELSE ucArray[Wrap(uxTail + k)]
    <2>1. ASSUME NEW k \in 0 .. LENGTH - 1
          PROVE  stored.array[Wrap(uxTail + k)] =
                    IF s[1] <= tailPosition + k /\ tailPosition + k < s[2]
                    THEN tailPosition + k ELSE ucArray[Wrap(uxTail + k)]
        <3>1. stored.array[Wrap(uxTail + k)] =
                  IF from <= k /\ k < from + length THEN data[k - from] ELSE ucArray[Wrap(uxTail + k)]
            <4> HIDE DEF data, from, length
            <4> QED
                BY <1>3, <1>5
        <3>2. from <= k /\ k < from + length <=> s[1] <= tailPosition + k /\ tailPosition + k < s[2]
            BY <1>0, <1>6
        <3>3. from <= k /\ k < from + length => data[k - from] = tailPosition + k
            <4>1. SUFFICES ASSUME from <= k /\ k < from + length PROVE data[k - from] = tailPosition + k
                OBVIOUS
            <4>2. k - from \in 0 .. length - 1 /\ s[1] + (k - from) = tailPosition + k
                BY <4>1, <1>0, <1>6
            <4> QED
                BY <4>2
        <3> QED
            BY <3>1, <3>2, <3>3
    <2> QED
        BY <2>1
<1>8. stored.array \in [Index -> (0 .. MaxBytes) \cup {Garbage}]
    <2>1. ASSUME NEW i \in Index
          PROVE  stored.array[i] \in (0 .. MaxBytes) \cup {Garbage}
        <3>1. Distance(uxTail, i) \in 0 .. LENGTH - 1 /\ Wrap(uxTail + Distance(uxTail, i)) = i
            BY <1>0, SlotAtDistance
        <3>2. stored.array[i] =
                 IF s[1] <= tailPosition + Distance(uxTail, i) /\ tailPosition + Distance(uxTail, i) < s[2]
                 THEN tailPosition + Distance(uxTail, i) ELSE ucArray[i]
            BY <3>1, <1>7
        <3>3. ucArray[i] \in (0 .. MaxBytes) \cup {Garbage}
            BY DEF IInv, TypeOK
        <3> QED
            BY <3>1, <3>2, <3>3, <1>0
    <2> QED
        BY <2>1, <1>5
<1>9. Distance(uxTail, stored.head) = (IF check.offset = 0 THEN s[2] ELSE headPosition) - tailPosition
    BY <1>0, <1>5, <1>6
<1> QED
    BY <1>1, <1>2, <1>5, <1>7, <1>8, <1>9 DEF Filled

\* The bytes that waited behind it: the head moves over them.
LEMMA WaitingFilled ==
    ASSUME IInv, NEW s \in slices, NEW b, NEW m \in headPosition .. MaxBytes, Filled(b, s, m, TRUE),
           NEW n \in Nat, m < n, n - tailPosition <= LENGTH - 1
    PROVE  Filled(StreamAdd(b, 0, << >>, n - m), s, n, TRUE)
<1> DEFINE c == StreamAdd(b, 0, << >>, n - m)
<1> DEFINE empty == << >>
<1>0. /\ headPosition \in Nat /\ tailPosition \in Nat /\ tailPosition <= headPosition
      /\ m \in Nat /\ n \in Nat /\ tailPosition <= m /\ uxTail \in Index /\ n - m \in Nat \ {0}
      /\ LENGTH \in Nat /\ LENGTH >= 1
    <2>1. /\ headPosition \in Nat /\ tailPosition \in Nat /\ tailPosition <= headPosition
          /\ uxTail \in Index /\ MaxBytes \in Nat /\ LENGTH \in Nat /\ LENGTH >= 1
        BY Numbers DEF IInv
    <2> QED
        BY <2>1
<1>1. /\ b.tail = uxTail /\ b.head \in Index /\ b.front \in Index
      /\ b.array \in [Index -> (0 .. MaxBytes) \cup {Garbage}]
      /\ Distance(b.tail, b.head) = m - tailPosition
      /\ Distance(b.tail, b.head) <= Distance(b.tail, b.front)
    BY DEF Filled
<1>2. Distance(b.tail, b.head) + 0 + (n - m) <= LENGTH - 1
    BY <1>0, <1>1
<1>3. /\ c.tail = b.tail /\ c.head \in Index /\ c.front \in Index
      /\ Distance(c.tail, c.head) = Distance(b.tail, b.head) + 0 + (n - m)
      /\ Distance(c.tail, c.head) <= Distance(c.tail, c.front)
      /\ \A i \in Index : c.array[i] = b.array[i]
      /\ c.array = [i \in Index |-> c.array[i]]
    <2>1. b.tail \in Index /\ 0 \in Nat
        BY <1>0, <1>1
    <2> QED
        BY <2>1, <1>0, <1>1, <1>2, StreamAdds
<1> HIDE DEF c
<1>4. Distance(uxTail, c.head) = n - tailPosition
    BY <1>0, <1>1, <1>3
<1>5. c.array \in [Index -> (0 .. MaxBytes) \cup {Garbage}]
    BY <1>1, <1>3
<1>6. \A k \in 0 .. LENGTH - 1 : c.array[Wrap(uxTail + k)] = b.array[Wrap(uxTail + k)]
    <2>1. \A k \in 0 .. LENGTH - 1 : Wrap(uxTail + k) \in Index
        BY <1>0, DistanceBetween
    <2> QED
        BY <2>1, <1>3
<1>7. Filled(c, s, n, TRUE)
    BY <1>1, <1>3, <1>4, <1>5, <1>6 DEF Filled
<1> QED
    BY <1>7 DEF c

\* prvStoreRxData(): all of it is stored, and the head moves to the position
\* that is expected next.
LEMMA StreamEffect ==
    ASSUME IInv, NEW s \in slices, NEW check, NEW n \in headPosition .. MaxBytes,
           Outcome(s, check, n),
           NEW stored, stored = WithData(check, s[1], s[2] - s[1]),
           NEW filled, filled = IF StoredAll(check, s[2] - s[1]) THEN WithWaiting(check, stored)
                                ELSE stored
    PROVE  /\ StoredAll(check, s[2] - s[1])
           /\ Filled(filled, s, n, check.offset >= 0)
           /\ check.offset >= 0 => s[2] - tailPosition <= LENGTH - 1
           /\ Distance(uxHead, filled.head) = n - headPosition
           /\ n - tailPosition <= LENGTH - 1
<1>0. /\ headPosition \in Nat /\ tailPosition \in Nat /\ tailPosition <= headPosition
      /\ uxTail \in Index /\ uxHead \in Index /\ MaxBytes \in Nat /\ LENGTH \in Nat /\ LENGTH >= 1
      /\ n \in Nat /\ headPosition <= n
      /\ Distance(uxTail, uxHead) = headPosition - tailPosition
      /\ headPosition - tailPosition <= LENGTH - 1
      /\ s[1] \in Nat /\ s[2] \in Nat /\ s[2] <= MaxBytes /\ check.offset \in Int
    <2>1. /\ headPosition \in Nat /\ tailPosition \in Nat /\ tailPosition <= headPosition
          /\ uxTail \in Index /\ uxHead \in Index /\ MaxBytes \in Nat /\ LENGTH \in Nat /\ LENGTH >= 1
          /\ GetSize \in 0 .. LENGTH - 1 /\ headPosition = tailPosition + GetSize
        BY Numbers DEF IInv
    <2>2. s[1] \in Nat /\ s[2] \in Nat /\ s[2] <= MaxBytes
        BY SliceNumbers
    <2> QED
        BY <2>1, <2>2 DEF GetSize, Outcome
<1>1. CASE ~ (check.offset >= 0)
    <2>1. n = headPosition /\ check.userData = 0
        BY <1>1 DEF Outcome, Advances
    <2>2. stored = rxStream /\ StoredAll(check, s[2] - s[1])
        BY <1>0, <1>1 DEF WithData, StoredAll
    <2>3. filled = rxStream
        BY <2>1, <2>2 DEF WithWaiting
    <2>4. Filled(filled, s, n, FALSE)
        BY <2>1, <2>3, NothingFilled
    <2>5. filled.head = uxHead
        BY <2>3 DEF rxStream
    <2>6. Distance(uxHead, filled.head) = 0
        BY <2>5, <1>0, SpaceIsRest
    <2>7. Filled(filled, s, n, check.offset >= 0)
        BY <2>4, <1>1 DEF Filled
    <2> QED
        BY <1>0, <1>1, <2>1, <2>2, <2>6, <2>7
<1>2. CASE check.offset >= 0
    <2>1. /\ s[1] < s[2] /\ check.offset = s[1] - headPosition /\ s[2] - headPosition <= GetSpace
          /\ check.offset \in Nat
        BY <1>0, <1>2 DEF Outcome, Writes
    <2> DEFINE m == IF check.offset = 0 THEN s[2] ELSE headPosition
    <2>2. /\ StoredAll(check, s[2] - s[1]) /\ s[2] - tailPosition <= LENGTH - 1
          /\ Filled(stored, s, m, TRUE)
        BY <2>1, DataFilled
    <2>3. filled = WithWaiting(check, stored)
        BY <2>2
    <2>4. Filled(filled, s, n, TRUE) /\ n - tailPosition <= LENGTH - 1
        <3>1. CASE n = headPosition
            <4>1. check.userData = 0 /\ check.offset # 0
                BY <3>1 DEF Outcome, Advances
            <4>2. filled = stored /\ m = n
                BY <3>1, <4>1, <2>3 DEF WithWaiting
            <4> QED
                BY <4>2, <2>2, <3>1, <1>0
        <3>2. CASE n # headPosition /\ n = s[2]
            <4>1. check.userData = 0 /\ check.offset = 0
                BY <3>2, <1>0 DEF Outcome, Advances
            <4>2. filled = stored /\ m = n
                BY <3>2, <4>1, <2>3 DEF WithWaiting
            <4> QED
                BY <4>2, <2>2, <3>2, <1>0
        <3>3. CASE n # headPosition /\ n # s[2]
            <4>1. /\ check.userData = n - s[2] /\ check.offset = 0 /\ s[2] <= n
                  /\ s[1] = headPosition
                  /\ \A p \in s[2] .. n - 1 : Held(p)
                BY <3>3 DEF Outcome, Advances
            <4>2. s[2] < n /\ n - 1 \in s[2] .. n - 1 /\ ~ (n - 1 < headPosition)
                BY <3>3, <4>1, <2>1, <1>0
            <4>3. Held(n - 1)
                BY <4>1, <4>2
            <4>4. n - 1 - tailPosition < LENGTH - 1
                BY <4>2, <4>3 DEF Held
            <4>5. n - tailPosition <= LENGTH - 1
                BY <4>4, <1>0
            <4>6. filled = StreamAdd(stored, 0, << >>, n - s[2])
                <5>1. check.userData # 0
                    BY <4>1, <4>2, <1>0
                <5> QED
                    BY <5>1, <4>1, <2>3 DEF WithWaiting
            <4>7. s[2] \in headPosition .. MaxBytes /\ Filled(stored, s, s[2], TRUE)
                <5>1. s[2] \in headPosition .. MaxBytes
                    BY <4>1, <2>1, <1>0
                <5>2. m = s[2]
                    BY <4>1
                <5> QED
                    BY <5>1, <5>2, <2>2
            <4>8. Filled(StreamAdd(stored, 0, << >>, n - s[2]), s, n, TRUE)
                BY <4>2, <4>5, <4>7, <1>0, WaitingFilled
            <4> QED
                BY <4>5, <4>6, <4>8
        <3> QED
            BY <3>1, <3>2, <3>3
    <2>5. Distance(uxHead, filled.head) = n - headPosition
        <3>1. filled.head \in Index /\ Distance(uxTail, filled.head) = n - tailPosition
            BY <2>4 DEF Filled
        <3>2. Distance(uxTail, uxHead) <= Distance(uxTail, filled.head)
            BY <3>1, <1>0
        <3>3. Distance(uxHead, filled.head) = Distance(uxTail, filled.head) - Distance(uxTail, uxHead)
            BY <3>1, <3>2, <1>0, DistanceRest
        <3> QED
            BY <3>1, <3>3, <1>0
    <2>6. Filled(filled, s, n, check.offset >= 0)
        BY <1>2, <2>4 DEF Filled
    <2> QED
        BY <2>2, <2>4, <2>5, <2>6
<1> QED
    BY <1>1, <1>2

-----------------------------------------------------------------------------
(* The steps *)

\* The positions that two sequence numbers stand for.
LEMMA PositionsBetween ==
    ASSUME NEW a \in 0 .. MaxBytes, NEW b \in a .. MaxBytes
    PROVE  \A p \in Positions(Seq(a), SeqSub(Seq(b), Seq(a))) :
              p \in 0 .. MaxBytes - 1 /\ a <= p /\ p < b
<1>1. SeqSub(Seq(b), Seq(a)) = b - a
    <2>1. a \in 0 .. MaxBytes + 1 /\ b \in 0 .. MaxBytes + 1 /\ b >= a
        BY HalfRangeIsHalf
    <2> QED
        BY <2>1, SeqDifference
<1>2. ASSUME NEW p \in 0 .. MaxBytes - 1, SeqSub(Seq(p), Seq(a)) < b - a
      PROVE  a <= p /\ p < b
    <2>1. p \in 0 .. MaxBytes + 1 /\ a \in 0 .. MaxBytes + 1
        BY HalfRangeIsHalf
    <2>2. SeqSub(Seq(p), Seq(a)) = IF p >= a THEN p - a ELSE SeqRange + p - a
        BY <2>1, SeqDifference
    <2> QED
        BY <1>2, <2>2, HalfRangeIsHalf
<1> QED
    BY <1>1, <1>2 DEF Positions

\* What a selective acknowledgement names is held, or lies in the segment itself.
LEMMA SelectsHeld ==
    ASSUME IInv, KeepsCut, NEW s \in slices, NEW check, NEW n, Outcome(s, check, n),
           check.option # << >>
    PROVE  \A p \in Positions(check.option[1], SeqSub(check.option[2], check.option[1])) :
              /\ p \in 0 .. MaxBytes - 1
              /\ Held(p) \/ (check.offset >= 0 /\ s[1] <= p /\ p < s[2])
<1>1. PICK m \in s[2] .. MaxBytes :
         /\ check.option = << Seq(s[1]), Seq(m) >>
         /\ s[1] < s[2] /\ headPosition < s[2]
         /\ \A p \in s[2] .. m - 1 : Held(p)
         /\ \/ check.offset >= 0
            \/ s[1] < headPosition
            \/ \E t \in xRxSegments : t.seq = Seq(s[1])
    BY DEF Outcome, Selects
<1>2. /\ s[1] \in Nat /\ s[2] \in Nat /\ s[2] <= MaxBytes /\ MaxBytes \in Nat
      /\ headPosition \in Nat /\ headPosition <= MaxBytes
    BY SliceNumbers
<1>3. s[1] \in 0 .. MaxBytes /\ m \in s[1] .. MaxBytes /\ m \in Nat /\ s[2] <= m
    BY <1>1, <1>2
<1>4. \A p \in Positions(Seq(s[1]), SeqSub(Seq(m), Seq(s[1]))) :
         p \in 0 .. MaxBytes - 1 /\ s[1] <= p /\ p < m
    BY <1>3, PositionsBetween
<1>5. ~ (s[1] < headPosition)
    <2>1. SUFFICES ASSUME s[1] < headPosition PROVE FALSE
        OBVIOUS
    <2>2. PICK c \in slices : c[1] < c[2] /\ c[2] = headPosition
        BY <1>2, <2>1 DEF IInv, HeadAtEnd
    <2>3. c[1] \in Nat /\ c[2] \in Nat
        BY SliceNumbers
    <2>4. s = c \/ s[2] <= c[1] \/ c[2] <= s[1]
        BY DEF KeepsCut
    <2> QED
        BY <1>1, <1>2, <2>1, <2>2, <2>3, <2>4
<1>6. CASE check.offset >= 0
    <2>1. ASSUME NEW p \in 0 .. MaxBytes - 1, s[1] <= p, p < m
          PROVE  Held(p) \/ (s[1] <= p /\ p < s[2])
        <3>1. p < s[2] \/ p \in s[2] .. m - 1
            BY <2>1, <1>2, <1>3
        <3> QED
            BY <3>1, <2>1, <1>1
    <2> QED
        BY <1>1, <1>4, <1>6, <2>1
<1>7. CASE \E t \in xRxSegments : t.seq = Seq(s[1])
    <2>1. PICK t \in xRxSegments : t.seq = Seq(s[1])
        BY <1>7
    <2>2. /\ IsSegment(t)
          /\ \E c \in slices : c[1] < c[2] /\ At(t) = c[1] /\ Upto(t) = c[2]
        BY StoredSegments DEF IInv
    <2>3. At(t) = s[1]
        <3>1. At(t) \in 0 .. MaxBytes /\ t.seq = Seq(At(t))
            BY <2>2, SegmentIs
        <3> QED
            BY <3>1, <2>1, <1>3, SeqApart
    <2>4. PICK c \in slices : c[1] < c[2] /\ At(t) = c[1] /\ Upto(t) = c[2]
        BY <2>2
    <2>5. c[1] \in Nat /\ c[2] \in Nat
        BY SliceNumbers
    <2>6. s = c
        <3>1. s = c \/ s[2] <= c[1] \/ c[2] <= s[1]
            BY DEF KeepsCut
        <3> QED
            BY <3>1, <2>3, <2>4, <2>5, <1>1, <1>2
    <2>7. \A p \in s[1] .. s[2] - 1 : Held(p)
        <3>1. At(t) >= headPosition /\ Upto(t) = s[2]
            BY <2>3, <2>4, <2>6, <1>2, <1>5
        <3> QED
            BY <3>1, <2>3 DEF IInv, SegmentsHeld
    <2>8. ASSUME NEW p \in 0 .. MaxBytes - 1, s[1] <= p, p < m
          PROVE  Held(p)
        <3>1. p \in s[1] .. s[2] - 1 \/ p \in s[2] .. m - 1
            BY <2>8, <1>2, <1>3
        <3> QED
            BY <3>1, <2>7, <1>1
    <2> QED
        BY <1>1, <1>4, <2>8
<1> QED
    BY <1>1, <1>5, <1>6, <1>7

\* A FIN is accepted behind the last byte, with nothing left ahead of a gap.
LEMMA FinComplete ==
    ASSUME IInv, NEW s \in slices, NEW check, NEW n \in headPosition .. MaxBytes,
           check.current = Seq(n + Fin), NEW done, NEW highest,
           highest = IF Signed(SeqSub(Seq(s[2]), ulHighestSequenceNumber)) > 0
                     THEN Seq(s[2]) ELSE ulHighestSequenceNumber
    PROVE  /\ \E h \in 0 .. MaxBytes : highest = Seq(h)
           /\ s[2] = MaxBytes /\ MayClose(done, Seq(s[2]), highest, check, s[2] - s[1]) =>
                 n = MaxBytes /\ check.segments = {} /\ ~bFinAccepted
<1>1. /\ s[2] \in Nat /\ s[2] <= MaxBytes /\ MaxBytes \in Nat /\ headPosition \in Nat
      /\ ~bFinAccepted => Fin = 0
    BY SliceNumbers
<1>2. PICK h \in 0 .. MaxBytes : ulHighestSequenceNumber = Seq(h)
    BY DEF IInv, NumbersFit
<1>3. Signed(SeqSub(Seq(s[2]), Seq(h))) = s[2] - h
    <2>1. s[2] \in 0 .. MaxBytes + 1 /\ h \in 0 .. MaxBytes + 1 /\ s[2] - h <= MaxBytes
        BY <1>1
    <2> QED
        BY <2>1, SeqDifference
<1>4. \E i \in 0 .. MaxBytes : highest = Seq(i) /\ i >= s[2]
    <2>1. CASE s[2] - h > 0
        <3>1. s[2] \in 0 .. MaxBytes /\ highest = Seq(s[2]) /\ s[2] >= s[2]
            BY <1>1, <1>2, <1>3, <2>1
        <3> QED
            BY <3>1
    <2>2. CASE ~ (s[2] - h > 0)
        <3>1. h >= s[2] /\ highest = Seq(h)
            BY <1>1, <1>2, <1>3, <2>2
        <3> QED
            BY <3>1
    <2> QED
        BY <2>1, <2>2
<1>5. ASSUME s[2] = MaxBytes, MayClose(done, Seq(s[2]), highest, check, s[2] - s[1])
      PROVE  n = MaxBytes /\ check.segments = {} /\ ~bFinAccepted
    <2>1. /\ ~bFinAccepted /\ check.segments = {}
          /\ xSequenceGreaterThanOrEqual(check.current, highest)
        BY <1>5 DEF MayClose, RxEmpty
    <2>2. n + Fin = n /\ n \in 0 .. MaxBytes + 1 /\ MaxBytes \in 0 .. MaxBytes + 1
          /\ n - MaxBytes <= MaxBytes
        BY <1>1, <2>1
    <2>3. highest = Seq(MaxBytes)
        BY <1>1, <1>4, <1>5
    <2>4. xSequenceGreaterThanOrEqual(Seq(n), Seq(MaxBytes))
        BY <2>1, <2>2, <2>3
    <2>5. n >= MaxBytes
        BY <2>2, <2>4, SeqDifference
    <2> QED
        BY <2>1, <2>2, <2>5, <1>1
<1> QED
    BY <1>4, <1>5

\* The facts that tell what a step of Receive does; `wrote' says that the bytes
\* of the segment were taken, and `n' is the position expected next.
LEMMA ReceiveFacts ==
    ASSUME IInv, NEW s \in slices, NEW txDone \in BOOLEAN, Receive(s, txDone)
    PROVE  \E check, filled, n, mayClose :
              /\ n \in headPosition .. MaxBytes /\ mayClose \in BOOLEAN
              /\ Outcome(s, check, n)
              /\ Filled(filled, s, n, check.offset >= 0)
              /\ check.offset >= 0 => s[2] - tailPosition <= LENGTH - 1
              /\ n - tailPosition <= LENGTH - 1
              /\ mayClose => n = MaxBytes /\ check.segments = {} /\ ~bFinAccepted
              /\ xRxSegments' = check.segments
              /\ freeSegments' = freeSegments + Cardinality(xRxSegments) - Cardinality(check.segments)
              /\ sack' = check.option
              /\ ucArray' = filled.array /\ uxHead' = filled.head /\ uxFront' = filled.front
              /\ headPosition' = n
              /\ bLowWater' \in BOOLEAN
              /\ ulCurrentSequenceNumber' = IF mayClose THEN Seq(MaxBytes + 1) ELSE Seq(n + Fin)
              /\ bFinAccepted' = (bFinAccepted \/ mayClose)
              /\ ~resetSent'
              /\ resetSent' \in BOOLEAN
              /\ \E h \in 0 .. MaxBytes : ulHighestSequenceNumber' = Seq(h)
              /\ ackDue' = TRUE
              /\ UNCHANGED << uxTail, tailPosition, receiver, allowed, slices >>
<1> DEFINE last == SeqAdd(Seq(s[1]), s[2] - s[1])
<1> DEFINE highest == IF Signed(SeqSub(last, ulHighestSequenceNumber)) > 0
                      THEN last ELSE ulHighestSequenceNumber
<1>0. /\ s[1] \in Nat /\ s[2] \in Nat /\ s[1] <= s[2] /\ s[2] <= MaxBytes /\ MaxBytes \in Nat
      /\ headPosition \in Nat /\ bLowWater \in BOOLEAN /\ ~resetSent /\ resetSent \in BOOLEAN
    BY SliceNumbers DEF IInv, WindowFits, TypeOK
<1>1. PICK check, stored, filled, mayClose :
         /\ check = IF s[2] - s[1] = 0 THEN Refused ELSE RxCheck(Seq(s[1]), s[2] - s[1], GetSpace)
         /\ stored = WithData(check, s[1], s[2] - s[1])
         /\ filled = IF StoredAll(check, s[2] - s[1]) THEN WithWaiting(check, stored) ELSE stored
         /\ mayClose = MayClose(s[2] = MaxBytes /\ txDone, last, highest, check, s[2] - s[1])
         /\ xRxSegments' = check.segments
         /\ freeSegments' = freeSegments + Cardinality(xRxSegments) - Cardinality(check.segments)
         /\ sack' = check.option
         /\ ucArray' = filled.array /\ uxHead' = filled.head /\ uxFront' = filled.front
         /\ headPosition' = headPosition + Distance(uxHead, filled.head)
         /\ bLowWater' = (bLowWater \/ (check.offset = 0 /\ (RunsLow(stored) \/ RunsLow(filled))))
         /\ ulCurrentSequenceNumber' = IF mayClose THEN SeqAdd(last, 1) ELSE check.current
         /\ bFinAccepted' = (bFinAccepted \/ mayClose)
         /\ resetSent' = (resetSent \/ ~StoredAll(check, s[2] - s[1]))
         /\ ulHighestSequenceNumber' = highest
         /\ ackDue' = TRUE
         /\ UNCHANGED << uxTail, tailPosition, receiver, allowed, slices >>
    BY DEF Receive
<1>2. last = Seq(s[2])
    <2>1. /\ s[1] \in 0 .. MaxBytes + 1 /\ s[2] - s[1] \in Nat /\ s[1] + (s[2] - s[1]) = s[2]
          /\ s[1] + (s[2] - s[1]) <= MaxBytes + 1
        BY <1>0
    <2>2. SeqAdd(Seq(s[1]), s[2] - s[1]) = Seq(s[1] + (s[2] - s[1]))
        BY <2>1, SeqOnward
    <2> QED
        BY <2>1, <2>2
<1> HIDE DEF last
<1>3. PICK n \in headPosition .. MaxBytes : Outcome(s, check, n)
    BY <1>1, CheckOutcome
<1>4. /\ StoredAll(check, s[2] - s[1])
      /\ Filled(filled, s, n, check.offset >= 0)
      /\ check.offset >= 0 => s[2] - tailPosition <= LENGTH - 1
      /\ Distance(uxHead, filled.head) = n - headPosition
      /\ n - tailPosition <= LENGTH - 1
    BY <1>1, <1>3, StreamEffect
<1>5. check.current = Seq(n + Fin)
    BY <1>3 DEF Outcome
<1> DEFINE done == s[2] = MaxBytes /\ txDone
<1>6. /\ \E h \in 0 .. MaxBytes : highest = Seq(h)
      /\ s[2] = MaxBytes /\ MayClose(done, Seq(s[2]), highest, check, s[2] - s[1]) =>
            n = MaxBytes /\ check.segments = {} /\ ~bFinAccepted
    <2>1. highest = IF Signed(SeqSub(Seq(s[2]), ulHighestSequenceNumber)) > 0
                    THEN Seq(s[2]) ELSE ulHighestSequenceNumber
        BY <1>2
    <2> HIDE DEF done, highest
    <2> QED
        BY <1>3, <1>5, <2>1, FinComplete
<1> HIDE DEF highest
<1>7. MayClose(done, Seq(s[2]), highest, check, s[2] - s[1]) => s[2] = MaxBytes
    BY DEF MayClose
<1>8. mayClose \in BOOLEAN /\ (mayClose <=> MayClose(done, Seq(s[2]), highest, check, s[2] - s[1]))
    BY <1>1, <1>2 DEF MayClose
<1>9. mayClose => n = MaxBytes /\ s[2] = MaxBytes /\ check.segments = {} /\ ~bFinAccepted
    BY <1>6, <1>7, <1>8
<1>10. headPosition' = n
    BY <1>0, <1>1, <1>3, <1>4
<1>11. bLowWater' \in BOOLEAN
    BY <1>0, <1>1
<1>12. ~resetSent' /\ resetSent' \in BOOLEAN
    BY <1>0, <1>1, <1>4
<1>13. ulCurrentSequenceNumber' = IF mayClose THEN Seq(MaxBytes + 1) ELSE Seq(n + Fin)
    <2>1. SeqAdd(Seq(MaxBytes), 1) = Seq(MaxBytes + 1)
        <3>1. MaxBytes \in 0 .. MaxBytes + 1 /\ 1 \in Nat /\ MaxBytes + 1 <= MaxBytes + 1
            BY <1>0
        <3> QED
            BY <3>1, SeqOnward
    <2> QED
        BY <2>1, <1>1, <1>2, <1>5, <1>9
<1>14. \E h \in 0 .. MaxBytes : ulHighestSequenceNumber' = Seq(h)
    BY <1>1, <1>6
<1> QED
    BY <1>1, <1>3, <1>4, <1>8, <1>9, <1>10, <1>11, <1>12, <1>13, <1>14

LEMMA ReceiveKeeps ==
    ASSUME IInv, NEW s \in slices, NEW txDone \in BOOLEAN, Receive(s, txDone)
    PROVE  IInv'
<1>1. PICK check, filled, n, mayClose :
              /\ n \in headPosition .. MaxBytes /\ mayClose \in BOOLEAN
              /\ Outcome(s, check, n)
              /\ Filled(filled, s, n, check.offset >= 0)
              /\ check.offset >= 0 => s[2] - tailPosition <= LENGTH - 1
              /\ n - tailPosition <= LENGTH - 1
              /\ mayClose => n = MaxBytes /\ check.segments = {} /\ ~bFinAccepted
              /\ xRxSegments' = check.segments
              /\ freeSegments' = freeSegments + Cardinality(xRxSegments) - Cardinality(check.segments)
              /\ sack' = check.option
              /\ ucArray' = filled.array /\ uxHead' = filled.head /\ uxFront' = filled.front
              /\ headPosition' = n
              /\ bLowWater' \in BOOLEAN
              /\ ulCurrentSequenceNumber' = IF mayClose THEN Seq(MaxBytes + 1) ELSE Seq(n + Fin)
              /\ bFinAccepted' = (bFinAccepted \/ mayClose)
              /\ ~resetSent'
              /\ resetSent' \in BOOLEAN
              /\ \E h \in 0 .. MaxBytes : ulHighestSequenceNumber' = Seq(h)
              /\ ackDue' = TRUE
              /\ UNCHANGED << uxTail, tailPosition, receiver, allowed, slices >>
    BY ReceiveFacts
<1>2. /\ s[1] \in Nat /\ s[2] \in Nat /\ s[1] <= s[2] /\ s[2] <= MaxBytes /\ MaxBytes \in Nat
      /\ headPosition \in Nat /\ headPosition <= MaxBytes /\ Fin \in 0 .. 1 /\ freeSegments \in Nat
      /\ IsFiniteSet(xRxSegments) /\ Cardinality(xRxSegments) \in Nat
      /\ bFinAccepted => headPosition = MaxBytes /\ Fin = 1
      /\ ~bFinAccepted => Fin = 0
    BY SliceNumbers
<1>3. /\ tailPosition \in Nat /\ tailPosition <= headPosition /\ LENGTH \in Nat /\ LENGTH >= 1
      /\ n \in Nat /\ headPosition <= n /\ n <= MaxBytes
      /\ headPosition - tailPosition <= LENGTH - 1
    <2>1. /\ tailPosition \in Nat /\ tailPosition <= headPosition /\ LENGTH \in Nat /\ LENGTH >= 1
          /\ GetSize \in 0 .. LENGTH - 1 /\ headPosition = tailPosition + GetSize
        BY Numbers DEF IInv
    <2> QED
        BY <2>1, <1>1, <1>2
<1> DEFINE wrote == check.offset >= 0
<1>4. \A k \in 0 .. LENGTH - 1 :
         ucArray'[Wrap(uxTail' + k)] =
             IF wrote /\ s[1] <= tailPosition + k /\ tailPosition + k < s[2]
             THEN tailPosition + k ELSE ucArray[Wrap(uxTail + k)]
    <2>1. \A k \in 0 .. LENGTH - 1 :
             filled.array[Wrap(uxTail + k)] =
                 IF wrote /\ s[1] <= tailPosition + k /\ tailPosition + k < s[2]
                 THEN tailPosition + k ELSE ucArray[Wrap(uxTail + k)]
        BY <1>1 DEF Filled
    <2>2. ucArray' = filled.array /\ uxTail' = uxTail
        BY <1>1
    <2> QED
        BY <2>1, <2>2
<1>5. \A p \in 0 .. MaxBytes - 1 : Held(p) => Held(p)'
    <2>1. SUFFICES ASSUME NEW p \in 0 .. MaxBytes - 1, Held(p) PROVE Held(p)'
        OBVIOUS
    <2>2. CASE p < headPosition
        <3>1. p < headPosition'
            BY <2>2, <1>1, <1>2, <1>3
        <3> QED
            BY <3>1 DEF Held
    <2>3. CASE ~ (p < headPosition)
        <3>1. p - tailPosition < LENGTH - 1 /\ ucArray[Wrap(uxTail + (p - tailPosition))] = p
            BY <2>1, <2>3 DEF Held
        <3>2. p - tailPosition \in 0 .. LENGTH - 1 /\ tailPosition + (p - tailPosition) = p
            BY <2>3, <3>1, <1>2, <1>3
        <3>3. ucArray'[Wrap(uxTail' + (p - tailPosition))] = p
            BY <3>1, <3>2, <1>4
        <3>4. tailPosition' = tailPosition
            BY <1>1
        <3> QED
            BY <3>1, <3>3, <3>4 DEF Held
    <2> QED
        BY <2>2, <2>3
<1>6. wrote => \A p \in s[1] .. s[2] - 1 : Held(p)'
    <2>1. SUFFICES ASSUME wrote, NEW p \in s[1] .. s[2] - 1 PROVE Held(p)'
        OBVIOUS
    <2>2. p \in Nat /\ s[1] <= p /\ p < s[2] /\ tailPosition <= s[1] /\ s[2] - tailPosition <= LENGTH - 1
        <3>1. check.offset = s[1] - headPosition /\ s[2] - tailPosition <= LENGTH - 1
            BY <2>1, <1>1 DEF Outcome, Writes
        <3>2. headPosition <= s[1]
            BY <2>1, <3>1, <1>2
        <3> QED
            BY <3>1, <3>2, <1>2, <1>3
    <2>3. p - tailPosition \in 0 .. LENGTH - 1 /\ p - tailPosition < LENGTH - 1
          /\ tailPosition + (p - tailPosition) = p
        BY <2>2, <1>2, <1>3
    <2>4. ucArray'[Wrap(uxTail' + (p - tailPosition))] = p
        BY <2>1, <2>2, <2>3, <1>4
    <2>5. tailPosition' = tailPosition
        BY <1>1
    <2> QED
        BY <2>3, <2>4, <2>5 DEF Held
<1>7. IsFiniteSet(check.segments) /\ Cardinality(check.segments) \in Nat
      /\ Cardinality(check.segments) <= Cardinality(xRxSegments) + freeSegments
    <2>1. IsFiniteSet(check.segments) /\ Cardinality(check.segments) <= Cardinality(xRxSegments) + freeSegments
        BY <1>1 DEF Outcome, Stores
    <2> QED
        BY <2>1, FS_CardinalityType
<1>8. freeSegments' \in Nat /\ freeSegments' + Cardinality(check.segments) = freeSegments + Cardinality(xRxSegments)
      /\ freeSegments + Cardinality(xRxSegments) <= SegmentCount /\ SegmentCount \in Nat
    BY <1>1, <1>2, <1>7, RxAssumption DEF IInv, PoolFits
<1>9. PoolFits'
    BY <1>1, <1>7, <1>8 DEF PoolFits
<1>10. SegmentsFit'
    <2>1. ASSUME NEW t \in check.segments
          PROVE  \E c \in slices : c[1] < c[2] /\ t = [seq |-> Seq(c[1]), length |-> c[2] - c[1]]
        <3>1. \/ t \in xRxSegments
              \/ t = [seq |-> Seq(s[1]), length |-> s[2] - s[1]] /\ s[1] < s[2]
            BY <1>1 DEF Outcome, Stores
        <3>2. CASE t \in xRxSegments
            BY <3>2 DEF IInv, SegmentsFit
        <3>3. CASE t = [seq |-> Seq(s[1]), length |-> s[2] - s[1]] /\ s[1] < s[2]
            BY <3>3
        <3> QED
            BY <3>1, <3>2, <3>3
    <2>2. xRxSegments' = check.segments /\ slices' = slices
        BY <1>1
    <2> QED
        BY <2>1, <2>2 DEF SegmentsFit
<1>11. TypeOK'
    <2>1. ulCurrentSequenceNumber' \in SeqNumber
        <3>1. MaxBytes + 1 \in 0 .. MaxBytes + 1 /\ n + Fin \in 0 .. MaxBytes + 1
            BY <1>2, <1>3
        <3>2. Seq(MaxBytes + 1) \in SeqNumber /\ Seq(n + Fin) \in SeqNumber
            BY <3>1, SeqValue
        <3>3. ulCurrentSequenceNumber' = Seq(MaxBytes + 1) \/ ulCurrentSequenceNumber' = Seq(n + Fin)
            BY <1>1
        <3> QED
            BY <3>2, <3>3
    <2>2. ulHighestSequenceNumber' \in SeqNumber
        <3>1. PICK h \in 0 .. MaxBytes : ulHighestSequenceNumber' = Seq(h)
            BY <1>1
        <3>2. h \in 0 .. MaxBytes + 1
            BY <1>2
        <3> QED
            BY <3>1, <3>2, SeqValue
    <2>3. xRxSegments' \subseteq [seq : SeqNumber, length : 1 .. MaxBytes]
        <3>1. ASSUME NEW t \in check.segments
              PROVE  t \in [seq : SeqNumber, length : 1 .. MaxBytes]
            <4>1. \/ t \in xRxSegments
                  \/ t = [seq |-> Seq(s[1]), length |-> s[2] - s[1]] /\ s[1] < s[2]
                BY <1>1 DEF Outcome, Stores
            <4>2. CASE t \in xRxSegments
                BY <4>2 DEF IInv, TypeOK
            <4>3. CASE t = [seq |-> Seq(s[1]), length |-> s[2] - s[1]] /\ s[1] < s[2]
                <5>1. s[1] \in 0 .. MaxBytes + 1 /\ s[2] - s[1] \in 1 .. MaxBytes
                    BY <1>2, <4>3
                <5>2. Seq(s[1]) \in SeqNumber
                    BY <5>1, SeqValue
                <5> QED
                    BY <4>3, <5>1, <5>2
            <4> QED
                BY <4>1, <4>2, <4>3
        <3>2. xRxSegments' = check.segments
            BY <1>1
        <3> QED
            BY <3>1, <3>2
    <2>4. freeSegments' \in 0 .. SegmentCount
        BY <1>7, <1>8
    <2>5. sack' = << >> \/ sack' \in SeqNumber \X SeqNumber
        <3>1. CASE check.option = << >>
            BY <3>1, <1>1
        <3>2. CASE \E m \in s[2] .. MaxBytes : check.option = << Seq(s[1]), Seq(m) >>
            <4>1. PICK m \in s[2] .. MaxBytes : check.option = << Seq(s[1]), Seq(m) >>
                BY <3>2
            <4>2. s[1] \in 0 .. MaxBytes + 1 /\ m \in 0 .. MaxBytes + 1
                BY <1>2
            <4>3. Seq(s[1]) \in SeqNumber /\ Seq(m) \in SeqNumber
                BY <4>2, SeqValue
            <4> QED
                BY <4>1, <4>3, <1>1
        <3> QED
            BY <3>1, <3>2, <1>1 DEF Outcome, Selects
    <2>6. /\ ucArray' \in [Index -> (0 .. MaxBytes) \cup {Garbage}]
          /\ uxHead' \in Index /\ uxFront' \in Index
        BY <1>1 DEF Filled
    <2>7. headPosition' \in 0 .. MaxBytes /\ tailPosition' \in 0 .. headPosition'
        BY <1>1, <1>2, <1>3
    <2>8. bLowWater' \in BOOLEAN /\ bFinAccepted' \in BOOLEAN /\ ackDue' \in BOOLEAN
          /\ resetSent' \in BOOLEAN
        BY <1>1
    <2>9. uxTail' \in Index /\ receiver' \in {"idle", "check"} /\ allowed' \in 0 .. MaxBytes
          /\ slices' \in Cuts
        BY <1>1 DEF IInv, TypeOK
    <2> QED
        BY <2>1, <2>2, <2>3, <2>4, <2>5, <2>6, <2>7, <2>8, <2>9 DEF TypeOK
<1>12. NumbersFit'
    <2>1. ulCurrentSequenceNumber' = Seq(headPosition' + Fin')
        <3>1. CASE mayClose
            <4>1. bFinAccepted' = TRUE /\ n = MaxBytes
                BY <3>1, <1>1
            <4>2. Fin' = 1
                BY <4>1 DEF Fin
            <4> QED
                BY <3>1, <4>1, <4>2, <1>1
        <3>2. CASE ~mayClose
            <4>1. bFinAccepted' = bFinAccepted
                BY <3>2, <1>1 DEF IInv, TypeOK
            <4>2. Fin' = Fin
                BY <4>1 DEF Fin
            <4> QED
                BY <3>2, <4>2, <1>1
        <3> QED
            BY <3>1, <3>2
    <2>2. bFinAccepted' => headPosition' = MaxBytes /\ xRxSegments' = {}
        <3>1. CASE mayClose
            BY <3>1, <1>1
        <3>2. CASE ~mayClose /\ bFinAccepted
            <4>1. check.segments = {}
                BY <3>2, <1>1 DEF Outcome, Stores
            <4> QED
                BY <4>1, <3>2, <1>1, <1>2, <1>3
        <3>3. CASE ~mayClose /\ ~bFinAccepted
            BY <3>3, <1>1
        <3> QED
            BY <3>1, <3>2, <3>3
    <2> QED
        BY <2>1, <2>2, <1>1 DEF NumbersFit
<1>13. BufferFits'
    <2>1. /\ Distance(uxTail, filled.head) = n - tailPosition
          /\ Distance(uxTail, filled.head) <= Distance(uxTail, filled.front)
        BY <1>1 DEF Filled
    <2>2. /\ Distance(uxTail', uxHead') = headPosition' - tailPosition'
          /\ Distance(uxTail', uxHead') <= Distance(uxTail', uxFront')
        BY <2>1, <1>1
    <2>3. GetSize' = Distance(uxTail', uxHead')
        BY DEF GetSize
    <2> QED
        BY <2>2, <2>3 DEF BufferFits
<1>14. SegmentsHeld'
    <2>1. ASSUME NEW t \in check.segments, At(t) >= n
          PROVE  \A p \in At(t) .. Upto(t) - 1 : Held(p)'
        <3>0. /\ \/ t \in xRxSegments
                 \/ /\ t = [seq |-> Seq(s[1]), length |-> s[2] - s[1]] /\ s[1] < s[2]
                    /\ check.offset >= 0 \/ s[1] < headPosition
            BY <1>1 DEF Outcome, Stores
        <3>1. CASE t \in xRxSegments
            <4>1. At(t) \in 0 .. MaxBytes /\ Upto(t) \in 0 .. MaxBytes
                <5>1. IsSegment(t)
                    BY <3>1, StoredSegments DEF IInv
                <5> QED
                    BY <5>1, SegmentIs
            <4>2. At(t) >= headPosition
                BY <4>1, <2>1, <1>2, <1>3
            <4>3. \A p \in At(t) .. Upto(t) - 1 : Held(p)
                BY <3>1, <4>2 DEF IInv, SegmentsHeld
            <4>4. \A p \in At(t) .. Upto(t) - 1 : p \in 0 .. MaxBytes - 1
                BY <4>1, <1>2
            <4> QED
                BY <4>3, <4>4, <1>5
        <3>2. CASE /\ t = [seq |-> Seq(s[1]), length |-> s[2] - s[1]] /\ s[1] < s[2]
                   /\ check.offset >= 0 \/ s[1] < headPosition
            <4>1. s[1] \in 0 .. MaxBytes /\ s[2] \in 0 .. MaxBytes
                BY <1>2
            <4>2. At(t) = s[1] /\ Upto(t) = s[2]
                BY <4>1, <3>2, SegmentPlace
            <4>3. wrote
                BY <4>2, <3>2, <2>1, <1>2, <1>3
            <4> QED
                BY <4>2, <4>3, <1>6
        <3> QED
            BY <3>0, <3>1, <3>2
    <2>2. xRxSegments' = check.segments /\ headPosition' = n
        BY <1>1
    <2>3. SUFFICES ASSUME NEW t \in xRxSegments', At(t) >= headPosition',
                          NEW p \in At(t) .. Upto(t) - 1
                   PROVE  Held(p)'
        BY DEF SegmentsHeld, At, Upto
    <2> QED
        BY <2>1, <2>2, <2>3
<1>15. HeadAtEnd'
    <2>1. CASE n = headPosition
        <3>1. headPosition' = headPosition /\ slices' = slices
            BY <2>1, <1>1
        <3> QED
            BY <3>1 DEF IInv, HeadAtEnd
    <2>2. CASE n # headPosition
        <3>1. \E c \in slices : c[1] < c[2] /\ c[2] = n
            BY <2>2, <1>1 DEF Outcome, Advances
        <3>2. headPosition' = n /\ slices' = slices
            BY <1>1
        <3> QED
            BY <3>1, <3>2 DEF HeadAtEnd
    <2> QED
        BY <2>1, <2>2
<1>16. StreamIntact'
    <2>1. ASSUME NEW p \in tailPosition .. n - 1
          PROVE  ucArray'[Wrap(uxTail' + (p - tailPosition))] = p
        <3>1. p \in Nat /\ p - tailPosition \in 0 .. LENGTH - 1 /\ tailPosition + (p - tailPosition) = p
            BY <1>1, <1>3
        <3>2. CASE wrote /\ s[1] <= p /\ p < s[2]
            BY <3>1, <3>2, <1>4
        <3>3. CASE ~ (wrote /\ s[1] <= p /\ p < s[2]) /\ p < headPosition
            <4>1. p \in tailPosition .. headPosition - 1
                BY <3>1, <3>3, <1>2, <1>3
            <4>2. ucArray[Wrap(uxTail + (p - tailPosition))] = p
                BY <4>1 DEF IInv, StreamIntact
            <4> QED
                BY <4>2, <3>1, <3>3, <1>4
        <3>4. CASE ~ (wrote /\ s[1] <= p /\ p < s[2]) /\ ~ (p < headPosition)
            <4>1. n # headPosition
                BY <3>1, <3>4, <1>3
            <4>2. /\ s[1] = headPosition /\ check.offset = 0
                  /\ \A q \in s[2] .. n - 1 : Held(q)
                BY <4>1, <1>1 DEF Outcome, Advances
            <4>3. p \in s[2] .. n - 1
                BY <3>1, <3>4, <4>2, <1>2, <1>3
            <4>4. Held(p)
                BY <4>2, <4>3
            <4>5. ucArray[Wrap(uxTail + (p - tailPosition))] = p
                BY <4>4, <3>4 DEF Held
            <4> QED
                BY <4>5, <3>1, <3>4, <1>4
        <3> QED
            BY <3>2, <3>3, <3>4
    <2>2. tailPosition' = tailPosition /\ headPosition' = n
        BY <1>1
    <2> QED
        BY <2>1, <2>2 DEF StreamIntact
<1>17. WindowFits'
    <2>1. allowed' = allowed /\ tailPosition' = tailPosition /\ ~resetSent'
        BY <1>1
    <2> QED
        BY <2>1 DEF IInv, WindowFits
<1>18. SackTruthful'
    <2>1. SUFFICES ASSUME KeepsCut', sack' # << >>,
                          NEW p \in Positions(sack'[1], SeqSub(sack'[2], sack'[1]))
                   PROVE  Held(p)'
        BY DEF SackTruthful, Positions
    <2>2. slices' = slices /\ sack' = check.option
        BY <1>1
    <2>3. KeepsCut
        BY <2>1, <2>2 DEF KeepsCut
    <2>4. /\ p \in 0 .. MaxBytes - 1
          /\ Held(p) \/ (check.offset >= 0 /\ s[1] <= p /\ p < s[2])
        BY <2>1, <2>2, <2>3, <1>1, SelectsHeld
    <2>5. CASE Held(p)
        BY <2>4, <2>5, <1>5
    <2>6. CASE check.offset >= 0 /\ s[1] <= p /\ p < s[2]
        <3>1. p \in s[1] .. s[2] - 1
            BY <2>4, <2>6, <1>2
        <3> QED
            BY <3>1, <2>6, <1>6
    <2> QED
        BY <2>4, <2>5, <2>6
<1> QED
    BY <1>9, <1>10, <1>11, <1>12, <1>13, <1>14, <1>15, <1>16, <1>17, <1>18 DEF IInv

\* A step that leaves the buffer, the window and the option alone keeps all that
\* is said of them.
LEMMA WindowUntouched ==
    ASSUME IInv, UNCHANGED << ulCurrentSequenceNumber, ulHighestSequenceNumber, xRxSegments,
                              stream, bFinAccepted, slices >>
    PROVE  /\ NumbersFit' /\ BufferFits' /\ SegmentsFit' /\ SegmentsHeld' /\ HeadAtEnd' /\ StreamIntact'
           /\ sack' = sack => SackTruthful'
           /\ sack' = << >> => SackTruthful'
<1>1. /\ ulCurrentSequenceNumber' = ulCurrentSequenceNumber
      /\ ulHighestSequenceNumber' = ulHighestSequenceNumber
      /\ xRxSegments' = xRxSegments /\ bFinAccepted' = bFinAccepted /\ slices' = slices
      /\ ucArray' = ucArray /\ uxHead' = uxHead /\ uxTail' = uxTail /\ uxFront' = uxFront
      /\ headPosition' = headPosition /\ tailPosition' = tailPosition
    BY DEF stream
<1>2. Fin' = Fin /\ GetSize' = GetSize /\ Distance(uxTail, uxFront)' = Distance(uxTail, uxFront)
    BY <1>1 DEF Fin, GetSize
<1>3. NumbersFit' /\ BufferFits'
    BY <1>1, <1>2 DEF IInv, NumbersFit, BufferFits
<1>4. \A p : Held(p) => Held(p)'
    BY <1>1 DEF Held
<1>5. SegmentsFit' /\ HeadAtEnd' /\ StreamIntact'
    BY <1>1 DEF IInv, SegmentsFit, HeadAtEnd, StreamIntact
<1>6. SegmentsHeld'
    BY <1>1, <1>4 DEF IInv, SegmentsHeld
<1>7. sack' = sack => SackTruthful'
    BY <1>1, <1>4 DEF IInv, SackTruthful, KeepsCut
<1>8. sack' = << >> => SackTruthful'
    BY DEF SackTruthful
<1> QED
    BY <1>3, <1>5, <1>6, <1>7, <1>8

LEMMA PeerProbesKeeps == ASSUME IInv, PeerProbes PROVE IInv'
<1>1. /\ sack' = << >> /\ ackDue' = TRUE
      /\ UNCHANGED << ulCurrentSequenceNumber, ulHighestSequenceNumber, xRxSegments, freeSegments,
                      ucArray, uxHead, uxTail, uxFront, headPosition, tailPosition,
                      bLowWater, bFinAccepted, receiver, resetSent, allowed, slices >>
    BY DEF PeerProbes, stream
<1>2. /\ NumbersFit' /\ BufferFits' /\ SegmentsFit' /\ SegmentsHeld' /\ HeadAtEnd' /\ StreamIntact'
      /\ SackTruthful'
    BY <1>1, WindowUntouched DEF stream
<1>3. TypeOK'
    BY <1>1 DEF IInv, TypeOK
<1> QED
    BY <1>1, <1>2, <1>3 DEF IInv, PoolFits, WindowFits

\* What the peer is told is no more than what fits in front of uxFront, however
\* few bytes that is: the minimum of MSS is only announced when it fits.
LEMMA AcknowledgeKeeps == ASSUME IInv, Acknowledge PROVE IInv'
<1>1. /\ ackDue' = FALSE
      /\ allowed' = LET edge == Least(MaxBytes, headPosition + AdvertisedSpace)
                    IN  IF edge > allowed THEN edge ELSE allowed
      /\ UNCHANGED << ulCurrentSequenceNumber, ulHighestSequenceNumber, xRxSegments, freeSegments,
                      sack, ucArray, uxHead, uxTail, uxFront, headPosition, tailPosition,
                      bLowWater, bFinAccepted, receiver, resetSent, slices >>
    BY DEF Acknowledge, window, stream
<1>2. /\ NumbersFit' /\ BufferFits' /\ SegmentsFit' /\ SegmentsHeld' /\ HeadAtEnd' /\ StreamIntact'
      /\ SackTruthful'
    BY <1>1, WindowUntouched DEF stream
<1>3. /\ MaxBytes \in Nat /\ LENGTH \in Nat /\ headPosition \in Nat /\ tailPosition \in Nat
      /\ FrontSpace \in Nat /\ GetSize \in 0 .. LENGTH - 1 /\ headPosition = tailPosition + GetSize
      /\ FrontSpace <= LENGTH - 1 - GetSize
    BY Numbers DEF IInv
<1>4. AdvertisedSpace \in Nat /\ AdvertisedSpace <= FrontSpace
    <2>1. RxWindowLength \in Nat /\ MSS \in Nat
        BY RxAssumption
    <2> QED
        BY <2>1, <1>3 DEF AdvertisedSpace, Least
<1>5. allowed \in 0 .. MaxBytes /\ allowed <= tailPosition + LENGTH - 1 /\ ~resetSent
    BY DEF IInv, TypeOK, WindowFits
<1>6. allowed' \in 0 .. MaxBytes /\ allowed' <= tailPosition + LENGTH - 1
    <2>1. Least(MaxBytes, headPosition + AdvertisedSpace) \in 0 .. MaxBytes
          /\ Least(MaxBytes, headPosition + AdvertisedSpace) <= tailPosition + LENGTH - 1
        BY <1>3, <1>4 DEF Least
    <2> QED
        BY <2>1, <1>1, <1>5
<1>7. WindowFits'
    BY <1>1, <1>5, <1>6 DEF WindowFits
<1>8. TypeOK'
    BY <1>1, <1>6 DEF IInv, TypeOK
<1> QED
    BY <1>1, <1>2, <1>7, <1>8 DEF IInv, PoolFits

LEMMA AcknowledgementLostKeeps == ASSUME IInv, AcknowledgementLost PROVE IInv'
<1>1. /\ ackDue' = FALSE
      /\ UNCHANGED << ulCurrentSequenceNumber, ulHighestSequenceNumber, xRxSegments, freeSegments,
                      sack, ucArray, uxHead, uxTail, uxFront, headPosition, tailPosition,
                      bLowWater, bFinAccepted, receiver, resetSent, allowed, slices >>
    BY DEF AcknowledgementLost, window, stream
<1>2. /\ NumbersFit' /\ BufferFits' /\ SegmentsFit' /\ SegmentsHeld' /\ HeadAtEnd' /\ StreamIntact'
      /\ SackTruthful'
    BY <1>1, WindowUntouched DEF stream
<1>3. TypeOK'
    BY <1>1 DEF IInv, TypeOK
<1> QED
    BY <1>1, <1>2, <1>3 DEF IInv, PoolFits, WindowFits

\* Other sockets take descriptors from the pool and give them back.
LEMMA OthersKeep == ASSUME IInv, OthersTakeDescriptor \/ OthersFreeDescriptor PROVE IInv'
<1>1. UNCHANGED << ulCurrentSequenceNumber, ulHighestSequenceNumber, xRxSegments, sack,
                   ucArray, uxHead, uxTail, uxFront, headPosition, tailPosition,
                   bLowWater, bFinAccepted, receiver, ackDue, resetSent, allowed, slices >>
    BY DEF OthersTakeDescriptor, OthersFreeDescriptor, stream
<1>2. /\ NumbersFit' /\ BufferFits' /\ SegmentsFit' /\ SegmentsHeld' /\ HeadAtEnd' /\ StreamIntact'
      /\ SackTruthful'
    BY <1>1, WindowUntouched DEF stream
<1>3. /\ IsFiniteSet(xRxSegments) /\ Cardinality(xRxSegments) \in Nat
      /\ freeSegments \in 0 .. SegmentCount /\ SegmentCount \in Nat
      /\ freeSegments + Cardinality(xRxSegments) <= SegmentCount
    BY FS_CardinalityType, RxAssumption DEF IInv, PoolFits, TypeOK
<1>4. freeSegments' \in 0 .. SegmentCount /\ freeSegments' + Cardinality(xRxSegments) <= SegmentCount
    BY <1>3 DEF OthersTakeDescriptor, OthersFreeDescriptor
<1>5. PoolFits'
    BY <1>1, <1>3, <1>4 DEF PoolFits
<1>6. TypeOK'
    BY <1>1, <1>4 DEF IInv, TypeOK
<1> QED
    BY <1>1, <1>2, <1>5, <1>6 DEF IInv, WindowFits

\* FreeRTOS_recv() takes bytes away: those behind them stay in their slots.
LEMMA RecvGetKeeps == ASSUME IInv, NEW m \in 1 .. LENGTH, RecvGet(m) PROVE IInv'
<1> DEFINE count == Least(GetSize, m)
<1>1. /\ receiver' = "check"
      /\ uxTail' = Wrap(uxTail + count) /\ tailPosition' = tailPosition + count
      /\ UNCHANGED << ulCurrentSequenceNumber, ulHighestSequenceNumber, xRxSegments, freeSegments,
                      sack, ucArray, uxHead, uxFront, headPosition,
                      bLowWater, bFinAccepted, ackDue, resetSent, allowed, slices >>
    BY DEF RecvGet, window
<1>2. /\ MaxBytes \in Nat /\ LENGTH \in Nat /\ LENGTH >= 1
      /\ headPosition \in Nat /\ tailPosition \in Nat /\ tailPosition <= headPosition
      /\ uxHead \in Index /\ uxTail \in Index /\ uxFront \in Index
      /\ GetSize \in 0 .. LENGTH - 1 /\ headPosition = tailPosition + GetSize
      /\ GetSize = Distance(uxTail, uxHead) /\ GetSize <= Distance(uxTail, uxFront)
      /\ Distance(uxTail, uxFront) \in 0 .. LENGTH - 1
    BY Numbers DEF IInv, GetSize, BufferFits
<1>3. count \in Nat /\ count <= GetSize /\ count <= LENGTH - 1
    BY <1>2 DEF Least
<1>4. /\ uxTail' \in Index
      /\ Distance(uxTail', uxHead) = GetSize - count
      /\ Distance(uxTail', uxFront) = Distance(uxTail, uxFront) - count
    <2> HIDE DEF count
    <2>1. count <= Distance(uxTail, uxHead) /\ count <= Distance(uxTail, uxFront)
        BY <1>2, <1>3
    <2>2. Wrap(uxTail + count) \in Index /\ Distance(Wrap(uxTail + count), uxHead) = Distance(uxTail, uxHead) - count
        BY <2>1, <1>2, <1>3, DistanceShrinks
    <2>3. Distance(Wrap(uxTail + count), uxFront) = Distance(uxTail, uxFront) - count
        BY <2>1, <1>2, <1>3, DistanceShrinks
    <2> QED
        BY <2>2, <2>3, <1>1, <1>2
<1>5. \A p \in Nat : tailPosition' <= p /\ p - tailPosition <= LENGTH - 1 =>
         Wrap(uxTail' + (p - tailPosition')) = Wrap(uxTail + (p - tailPosition))
    <2>1. ASSUME NEW p \in Nat, tailPosition' <= p, p - tailPosition <= LENGTH - 1
          PROVE  Wrap(uxTail' + (p - tailPosition')) = Wrap(uxTail + (p - tailPosition))
        <3> HIDE DEF count
        <3>1. /\ p - tailPosition' \in Nat /\ count + (p - tailPosition') = p - tailPosition
              /\ count + (p - tailPosition') < LENGTH
            BY <2>1, <1>1, <1>2, <1>3
        <3>2. Wrap(Wrap(uxTail + count) + (p - tailPosition')) = Wrap(uxTail + (count + (p - tailPosition')))
            BY <3>1, <1>2, <1>3, WrapTwice
        <3> QED
            BY <3>1, <3>2, <1>1
    <2> QED
        BY <2>1
<1> HIDE DEF count
<1>6. tailPosition' \in Nat /\ tailPosition <= tailPosition' /\ tailPosition' <= headPosition
    BY <1>1, <1>2, <1>3
<1>7. \A p \in 0 .. MaxBytes - 1 : Held(p) => Held(p)'
    <2>1. SUFFICES ASSUME NEW p \in 0 .. MaxBytes - 1, Held(p) PROVE Held(p)'
        OBVIOUS
    <2>2. CASE p < headPosition
        BY <2>2, <1>1 DEF Held
    <2>3. CASE ~ (p < headPosition)
        <3>1. p - tailPosition < LENGTH - 1 /\ ucArray[Wrap(uxTail + (p - tailPosition))] = p
            BY <2>1, <2>3 DEF Held
        <3>2. /\ p \in Nat /\ tailPosition' <= p /\ p - tailPosition <= LENGTH - 1
              /\ p - tailPosition' < LENGTH - 1
            <4>1. p \in Nat /\ headPosition <= p /\ p - tailPosition < LENGTH - 1
                BY <2>3, <3>1, <1>2
            <4>2. tailPosition' <= p
                BY <4>1, <1>2, <1>6
            <4>3. /\ tailPosition \in Nat /\ tailPosition' \in Nat /\ LENGTH \in Nat
                  /\ tailPosition <= tailPosition'
                BY <1>2, <1>6
            <4>4. \A i, j, k, l \in Nat : j <= k /\ i - j < l - 1 => i - j <= l - 1 /\ i - k < l - 1
                OBVIOUS
            <4>5. p - tailPosition <= LENGTH - 1 /\ p - tailPosition' < LENGTH - 1
                BY <4>1, <4>3, <4>4
            <4> QED
                BY <4>1, <4>2, <4>5
        <3>3. ucArray'[Wrap(uxTail' + (p - tailPosition'))] = p
            BY <3>1, <3>2, <1>1, <1>5
        <3> QED
            BY <3>2, <3>3 DEF Held
    <2> QED
        BY <2>2, <2>3
<1>8. StreamIntact'
    <2>1. ASSUME NEW p \in tailPosition' .. headPosition - 1
          PROVE  ucArray'[Wrap(uxTail' + (p - tailPosition'))] = p
        <3>1. /\ p \in Nat /\ tailPosition' <= p /\ p - tailPosition <= LENGTH - 1
              /\ p \in tailPosition .. headPosition - 1
            BY <1>2, <1>6
        <3>2. ucArray[Wrap(uxTail + (p - tailPosition))] = p
            BY <3>1 DEF IInv, StreamIntact
        <3> QED
            BY <3>1, <3>2, <1>1, <1>5
    <2> QED
        BY <2>1, <1>1 DEF StreamIntact
<1>9. NumbersFit'
    <2>1. Fin' = Fin
        BY <1>1 DEF Fin
    <2> QED
        BY <2>1, <1>1 DEF IInv, NumbersFit
<1>10. BufferFits'
    <2>1. GetSize' = Distance(uxTail', uxHead')
        BY DEF GetSize
    <2>2. /\ Distance(uxTail', uxHead') = headPosition' - tailPosition'
          /\ Distance(uxTail', uxHead') <= Distance(uxTail', uxFront')
        BY <1>1, <1>2, <1>3, <1>4
    <2> QED
        BY <2>1, <2>2 DEF BufferFits
<1>11. SegmentsFit' /\ HeadAtEnd' /\ PoolFits'
    BY <1>1 DEF IInv, SegmentsFit, HeadAtEnd, PoolFits
<1>12. SegmentsHeld'
    <2>1. ASSUME NEW t \in xRxSegments, At(t) >= headPosition, NEW p \in At(t) .. Upto(t) - 1
          PROVE  Held(p)'
        <3>1. IsSegment(t)
            BY StoredSegments DEF IInv
        <3>2. At(t) \in 0 .. MaxBytes /\ Upto(t) \in 0 .. MaxBytes
            BY <3>1, SegmentIs
        <3>3. p \in 0 .. MaxBytes - 1
            BY <3>2, <1>2
        <3>4. Held(p)
            BY <2>1 DEF IInv, SegmentsHeld
        <3> QED
            BY <3>3, <3>4, <1>7
    <2> QED
        BY <2>1, <1>1 DEF SegmentsHeld, At, Upto
<1>13. SackTruthful'
    <2>1. SUFFICES ASSUME KeepsCut', sack' # << >>,
                          NEW p \in Positions(sack'[1], SeqSub(sack'[2], sack'[1]))
                   PROVE  Held(p)'
        BY DEF SackTruthful, Positions
    <2>2. KeepsCut /\ sack' = sack
        BY <2>1, <1>1 DEF KeepsCut
    <2>3. Held(p) /\ p \in 0 .. MaxBytes - 1
        BY <2>1, <2>2 DEF IInv, SackTruthful, Positions
    <2> QED
        BY <2>3, <1>7
<1>14. WindowFits'
    <2>1. allowed \in 0 .. MaxBytes /\ allowed <= tailPosition + LENGTH - 1 /\ ~resetSent
        BY DEF IInv, TypeOK, WindowFits
    <2>2. allowed' <= tailPosition' + LENGTH - 1
        BY <2>1, <1>1, <1>2, <1>6
    <2> QED
        BY <2>1, <2>2, <1>1 DEF WindowFits
<1>15. TypeOK'
    <2>1. tailPosition' \in 0 .. headPosition'
        BY <1>1, <1>2, <1>6
    <2> QED
        BY <2>1, <1>1, <1>4 DEF IInv, TypeOK
<1> QED
    BY <1>8, <1>9, <1>10, <1>11, <1>12, <1>13, <1>14, <1>15 DEF IInv

LEMMA RecvLowWaterKeeps == ASSUME IInv, RecvLowWater PROVE IInv'
<1>1. /\ receiver' = "idle"
      /\ LET enough == bLowWater /\ FrontSpace >= EnoughSpace
         IN  /\ bLowWater' = (bLowWater /\ ~enough)
             /\ ackDue' = (ackDue \/ enough)
      /\ UNCHANGED << ulCurrentSequenceNumber, ulHighestSequenceNumber, xRxSegments, freeSegments,
                      sack, ucArray, uxHead, uxTail, uxFront, headPosition, tailPosition,
                      bFinAccepted, resetSent, allowed, slices >>
    BY DEF RecvLowWater, window, stream
<1>2. /\ NumbersFit' /\ BufferFits' /\ SegmentsFit' /\ SegmentsHeld' /\ HeadAtEnd' /\ StreamIntact'
      /\ SackTruthful'
    BY <1>1, WindowUntouched DEF stream
<1>3. bLowWater' \in BOOLEAN /\ ackDue' \in BOOLEAN
    BY <1>1
<1>4. TypeOK'
    BY <1>1, <1>3 DEF IInv, TypeOK
<1> QED
    BY <1>1, <1>2, <1>4 DEF IInv, PoolFits, WindowFits

LEMMA UnchangedKeeps == ASSUME IInv, UNCHANGED vars PROVE IInv'
<1>1. UNCHANGED << ulCurrentSequenceNumber, ulHighestSequenceNumber, xRxSegments, freeSegments,
                   sack, ucArray, uxHead, uxTail, uxFront, headPosition, tailPosition,
                   bLowWater, bFinAccepted, receiver, ackDue, resetSent, allowed, slices >>
    BY DEF vars, window, stream
<1>2. /\ NumbersFit' /\ BufferFits' /\ SegmentsFit' /\ SegmentsHeld' /\ HeadAtEnd' /\ StreamIntact'
      /\ SackTruthful'
    BY <1>1, WindowUntouched DEF stream
<1>3. TypeOK'
    BY <1>1 DEF IInv, TypeOK
<1> QED
    BY <1>1, <1>2, <1>3 DEF IInv, PoolFits, WindowFits

-----------------------------------------------------------------------------
(* Theorems *)

\* The invariant holds in every state: the descriptors, the sequence numbers and
\* the indices of the buffer stand for the same positions of the peer's stream,
\* after any call of lTCPWindowRxCheck(), prvStoreRxData(), prvTCPReturnPacket()
\* and FreeRTOS_recv().
THEOREM Invariance == Spec => []IInv
<1>1. Init => IInv
    BY InitIInv
<1>2. IInv /\ [Next]_vars => IInv'
    <2>1. SUFFICES ASSUME IInv, [Next]_vars PROVE IInv'
        OBVIOUS
    <2>2. ASSUME NEW s \in slices, NEW txDone \in BOOLEAN, Receive(s, txDone)
          PROVE  IInv'
        BY <2>1, <2>2, ReceiveKeeps
    <2>3. CASE PeerProbes
        BY <2>1, <2>3, PeerProbesKeeps
    <2>4. CASE Acknowledge
        BY <2>1, <2>4, AcknowledgeKeeps
    <2>5. CASE AcknowledgementLost
        BY <2>1, <2>5, AcknowledgementLostKeeps
    <2>6. CASE OthersTakeDescriptor \/ OthersFreeDescriptor
        BY <2>1, <2>6, OthersKeep
    <2>7. ASSUME NEW n \in 1 .. LENGTH, RecvGet(n)
          PROVE  IInv'
        BY <2>1, <2>7, RecvGetKeeps
    <2>8. CASE RecvLowWater
        BY <2>1, <2>8, RecvLowWaterKeeps
    <2>9. CASE UNCHANGED vars
        BY <2>1, <2>9, UnchangedKeeps
    <2> QED
        BY <2>1, <2>2, <2>3, <2>4, <2>5, <2>6, <2>7, <2>8, <2>9 DEF Next, Recv
<1> QED
    BY <1>1, <1>2, PTL DEF Spec

\* Every variable keeps its type: no more descriptors are taken than the pool has,
\* and the indices stay inside the buffer.
THEOREM TypeCorrect == Spec => []TypeOK
<1>1. IInv => TypeOK
    BY DEF IInv
<1> QED
    BY <1>1, Invariance, PTL

\* FreeRTOS_recv() returns the peer's stream, in order and without a gap, however
\* the peer cuts it and whatever is lost, repeated or reordered.
THEOREM StreamArrivesIntact == Spec => []StreamIntact
<1>1. IInv => StreamIntact
    BY DEF IInv
<1> QED
    BY <1>1, Invariance, PTL

\* The window that prvTCPReturnPacket() announces is never more than the room there
\* is, and prvStoreRxData() never has to reset the connection.
THEOREM WindowIsKept == Spec => []WindowFits
<1>1. IInv => WindowFits
    BY DEF IInv
<1> QED
    BY <1>1, Invariance, PTL

\* What a selective acknowledgement names was received and is kept, for a peer that
\* repeats its segments as they were.
THEOREM SackIsTruthful == Spec => []SackTruthful
<1>1. IInv => SackTruthful
    BY DEF IInv
<1> QED
    BY <1>1, Invariance, PTL
=============================================================================
