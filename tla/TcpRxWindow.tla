---------------------------- MODULE TcpRxWindow -----------------------------
(***************************************************************************)
(* The receiving half of one established connection: what the IP task does *)
(* with a segment (prvStoreRxData() with lTCPWindowRxCheck() and           *)
(* lTCPAddRxdata(), then the FIN part of prvHandleEstablished()), what it  *)
(* advertises back (prvTCPReturnPacket()), and the user's FreeRTOS_recv(). *)
(*                                                                         *)
(* The peer sends the stream of bytes 0 .. MaxBytes - 1 followed by a FIN, *)
(* each byte standing for its position.  A segment may arrive whenever the *)
(* peer was ever allowed to send it, or to probe a closed window with it,  *)
(* any number of times and in any order: that is loss, duplication,        *)
(* reordering and retransmission at once.  A peer cuts its stream into     *)
(* segments in one of the ways that the constant Cuts lists.               *)
(*                                                                         *)
(* Add and Get are atomic here; that they behave so unlocked is the        *)
(* subject of StreamBuffer.                                                *)
(***************************************************************************)
EXTENDS StreamBufferOps, SequenceNumbers, FiniteSets

CONSTANTS
    MaxBytes,       \* length of the peer's stream (bound of the model)
    Cuts,           \* the sets of segments that a peer may send: pairs << first, end >>
    InitialSeq,     \* sequence number of byte 0
    SegmentCount,   \* ipconfigTCP_WIN_SEG_COUNT: descriptors all sockets share
    RxWindowLength, \* xSize.ulRxWindowLength
    MSS,            \* usMSS
    LittleSpace,    \* uxLittleSpace
    EnoughSpace,    \* uxEnoughSpace
    Garbage         \* what a slot of the buffer holds before it is written

ASSUME RxAssumption ==
    /\ MaxBytes \in Nat /\ MaxBytes < SeqRange \div 2
    /\ \A cut \in Cuts : cut \subseteq {s \in (0 .. MaxBytes) \X (0 .. MaxBytes) : s[1] <= s[2]}
    /\ InitialSeq \in SeqNumber
    /\ SegmentCount \in Nat /\ RxWindowLength \in Nat /\ MSS \in Nat \ {0}
    /\ LittleSpace < EnoughSpace /\ EnoughSpace < LENGTH
    /\ Garbage \notin Nat

VARIABLES
    ulCurrentSequenceNumber,    \* rx: the sequence number expected next
    ulHighestSequenceNumber,    \* rx: the highest one seen
    xRxSegments,                \* descriptors of segments stored ahead of a gap
    freeSegments,               \* length of xSegmentList
    sack,                       \* the SACK option prepared: << >> or << left, right >>
    ucArray, uxHead, uxTail, uxFront,   \* rxStream
    bLowWater,
    bFinAccepted,
    receiver,                   \* where FreeRTOS_recv() is: "idle" or "check"
    ackDue,                     \* an acknowledgement is due to the peer
    resetSent,                  \* prvStoreRxData() gave the connection up
    headPosition, tailPosition, \* stream positions of uxHead and uxTail
    allowed,                    \* stream position up to which the peer may send
    slices                      \* the segments it sends

window == << ulCurrentSequenceNumber, ulHighestSequenceNumber, xRxSegments, freeSegments, sack >>
stream == << ucArray, uxHead, uxTail, uxFront, headPosition, tailPosition >>
vars == << window, stream, bLowWater, bFinAccepted, receiver, ackDue, resetSent, allowed, slices >>

Seq(position) == SeqAdd(InitialSeq, position)

FrontSpace == Space(uxFront, uxTail)
GetSpace == Space(uxHead, uxTail)
GetSize == Distance(uxTail, uxHead)

Init ==
    /\ ulCurrentSequenceNumber = Seq(0)
    /\ ulHighestSequenceNumber = Seq(0)
    /\ xRxSegments = {}
    /\ freeSegments = SegmentCount
    /\ sack = << >>
    /\ ucArray = [i \in Index |-> Garbage]
    /\ uxHead = 0 /\ uxTail = 0 /\ uxFront = 0
    /\ headPosition = 0 /\ tailPosition = 0
    /\ bLowWater = FALSE /\ bFinAccepted = FALSE
    /\ receiver = "idle" /\ ackDue = FALSE /\ resetSent = FALSE
    /\ allowed = Least(MaxBytes, Least(RxWindowLength, LENGTH - 1))
    /\ slices \in Cuts

-----------------------------------------------------------------------------
(* FreeRTOS_TCP_WIN.c *)

\* xTCPWindowRxFind(), again and again: the stored segments that continue, one
\* after the other, from `from' ...
Following(segments, from) ==
    UNION {run \in SUBSET segments :
              \A s \in run : s.seq = from \/ \E t \in run : s.seq = SeqAdd(t.seq, t.length)}

\* ... and the sequence number after the last of them, the first one not found.
EndOfRun(segments, from) ==
    CHOOSE e \in {from} \cup {SeqAdd(s.seq, s.length) : s \in Following(segments, from)} :
        \A s \in segments : s.seq # e

\* xTCPWindowRxConfirm(), repeated: what starts inside the expected segment.
Overlapped(segments, seq, length) ==
    {s \in segments : /\ xSequenceGreaterThanOrEqual(s.seq, seq)
                      /\ xSequenceLessThan(s.seq, SeqAdd(seq, length))}

\* What lTCPWindowRxCheck() returns and leaves behind; offset -1 refuses the data.
Refused == [offset |-> -1, current |-> ulCurrentSequenceNumber, segments |-> xRxSegments,
            userData |-> 0, option |-> << >>]

\* Fault: the new segment is counted among the bytes that waited.
ExpectedCountedTwice(length) ==
    LET next == SeqAdd(ulCurrentSequenceNumber, length)
        left == xRxSegments \ Overlapped(xRxSegments, ulCurrentSequenceNumber, length)
        end == EndOfRun(left, next)
    IN  [offset |-> 0, current |-> end, segments |-> left \ Following(left, next),
         userData |-> SeqSub(end, ulCurrentSequenceNumber), option |-> << >>]

\* prvTCPWindowRx_ExpectedRX()
Expected(length) ==
    LET next == SeqAdd(ulCurrentSequenceNumber, length)
        left == xRxSegments \ Overlapped(xRxSegments, ulCurrentSequenceNumber, length)
        end == EndOfRun(left, next)
    IN  [offset |-> 0, current |-> end, segments |-> left \ Following(left, next),
         userData |-> SeqSub(end, next), option |-> << >>]

\* Fault: xTCPWindowRxNew() takes a descriptor although none is free.
UnexpectedWithoutPool(seq, length) ==
    LET option == << seq, EndOfRun(xRxSegments, SeqAdd(seq, length)) >>
    IN  IF \E s \in xRxSegments : s.seq = seq THEN [Refused EXCEPT !.option = option]
        ELSE [Refused EXCEPT !.offset = Signed(SeqSub(seq, ulCurrentSequenceNumber)),
                             !.segments = @ \cup {[seq |-> seq, length |-> length]},
                             !.option = option]

\* Fault: ucOptionLength is not reset when no descriptor is free.
UnexpectedAlwaysSacks(seq, length) ==
    LET option == << seq, EndOfRun(xRxSegments, SeqAdd(seq, length)) >>
    IN  IF freeSegments = 0 \/ \E s \in xRxSegments : s.seq = seq
          THEN [Refused EXCEPT !.option = option]
        ELSE [Refused EXCEPT !.offset = Signed(SeqSub(seq, ulCurrentSequenceNumber)),
                             !.segments = @ \cup {[seq |-> seq, length |-> length]},
                             !.option = option]

\* prvTCPWindowRx_UnexpectedRX()
Unexpected(seq, length) ==
    LET option == << seq, EndOfRun(xRxSegments, SeqAdd(seq, length)) >>
    IN  IF \E s \in xRxSegments : s.seq = seq THEN [Refused EXCEPT !.option = option]
        ELSE IF freeSegments = 0 THEN Refused
        ELSE [Refused EXCEPT !.offset = Signed(SeqSub(seq, ulCurrentSequenceNumber)),
                             !.segments = @ \cup {[seq |-> seq, length |-> length]},
                             !.option = option]

\* lTCPWindowRxCheck()
RxCheck(seq, length, space) ==
    LET distance == Signed(SeqSub(SeqAdd(seq, length), ulCurrentSequenceNumber))
    IN  IF seq = ulCurrentSequenceNumber
          THEN IF length > space THEN Refused ELSE Expected(length)
        ELSE IF ulCurrentSequenceNumber = SeqAdd(seq, 1) THEN Refused   \* keep-alive
        ELSE IF distance <= 0 \/ distance > space THEN Refused
        ELSE Unexpected(seq, length)

\* Fault: the last byte must be beyond the highest one seen.
RxEmptyStrict(current, segments, highest) ==
    segments = {} /\ xSequenceGreaterThan(current, highest)

\* xTCPWindowRxEmpty()
RxEmpty(current, segments, highest) ==
    segments = {} /\ xSequenceGreaterThanOrEqual(current, highest)

-----------------------------------------------------------------------------
(* The IP task *)

rxStream == [array |-> ucArray, head |-> uxHead, tail |-> uxTail, front |-> uxFront]

\* The low-water test lTCPAddRxdata() makes after data was added at the head.
RunsLow(b) == Space(b.front, b.tail) <= LittleSpace

\* prvStoreRxData(): the buffer after the segment's own bytes, then after the
\* bytes that were waiting behind it.
WithData(check, first, length) ==
    IF check.offset < 0 THEN rxStream
    ELSE StreamAdd(rxStream, check.offset, [i \in 0 .. length - 1 |-> first + i], length)

WithWaiting(check, b) ==
    IF check.userData = 0 THEN b ELSE StreamAdd(b, 0, << >>, check.userData)

\* What was stored of the segment; less than all of it ends the connection.
StoredAll(check, length) ==
    check.offset >= 0 => AddedCount(rxStream, check.offset, length) = length

\* prvHandleEstablished(): may the FIN that came with the segment be accepted?
MayClose(finAndTxDone, last, highest, check, length) ==
    /\ finAndTxDone
    /\ ~bFinAccepted
    /\ StoredAll(check, length)
    /\ RxEmpty(check.current, check.segments, highest)
    /\ Signed(SeqSub(last, check.current)) <= 1

\* A peer whose window is closed may try the next byte.
ProbesWindow(s) == s[1] = allowed /\ s[2] = s[1] + 1

\* prvTCPHandleState() in eESTABLISHED: the slice s arrives.  A slice that ends
\* the stream carries the FIN; `txDone' says that our own queues are empty.
Receive(s, txDone) ==
    LET seq == Seq(s[1])
        length == s[2] - s[1]
        last == SeqAdd(seq, length)
        highest == IF Signed(SeqSub(last, ulHighestSequenceNumber)) > 0
                   THEN last ELSE ulHighestSequenceNumber
    IN  /\ s[2] <= allowed \/ ProbesWindow(s)
        /\ \E check \in {IF length = 0 THEN Refused ELSE RxCheck(seq, length, GetSpace)} :
           \E stored \in {WithData(check, s[1], length)} :
           \E filled \in {IF StoredAll(check, length) THEN WithWaiting(check, stored) ELSE stored} :
           \E mayClose \in {MayClose(s[2] = MaxBytes /\ txDone, last, highest, check, length)} :
              /\ xRxSegments' = check.segments
              /\ freeSegments' = freeSegments + Cardinality(xRxSegments) - Cardinality(check.segments)
              /\ sack' = check.option
              /\ ucArray' = filled.array /\ uxHead' = filled.head /\ uxFront' = filled.front
              /\ headPosition' = headPosition + Distance(uxHead, filled.head)
              /\ bLowWater' = (bLowWater \/ (check.offset = 0 /\ (RunsLow(stored) \/ RunsLow(filled))))
              /\ ulCurrentSequenceNumber' = IF mayClose THEN SeqAdd(last, 1) ELSE check.current
              /\ bFinAccepted' = (bFinAccepted \/ mayClose)
              /\ resetSent' = (resetSent \/ ~StoredAll(check, length))
        /\ ulHighestSequenceNumber' = highest
        /\ ackDue' = TRUE
        /\ UNCHANGED << uxTail, tailPosition, receiver, allowed, slices >>

\* A keep-alive or window probe: one old byte, answered and not stored.
PeerProbes ==
    /\ sack' = << >>
    /\ ackDue' = TRUE
    /\ UNCHANGED << ulCurrentSequenceNumber, ulHighestSequenceNumber, xRxSegments, freeSegments,
                    stream, bLowWater, bFinAccepted, receiver, resetSent, allowed, slices >>

\* Fault: the whole receive window, whatever the buffer holds.
AdvertisedWindow == IF bLowWater THEN 0 ELSE RxWindowLength

\* prvTCPReturnPacket(): the window that goes out with an acknowledgement.
AdvertisedSpace ==
    LET space == IF bLowWater THEN 0 ELSE Least(RxWindowLength, FrontSpace)
    IN  IF space < MSS /\ FrontSpace >= MSS THEN MSS ELSE space

Acknowledge ==
    /\ ackDue
    /\ ackDue' = FALSE
    /\ allowed' = LET edge == Least(MaxBytes, headPosition + AdvertisedSpace)
                  IN  IF edge > allowed THEN edge ELSE allowed
    /\ UNCHANGED << window, stream, bLowWater, bFinAccepted, receiver, resetSent, slices >>

AcknowledgementLost ==
    /\ ackDue
    /\ ackDue' = FALSE
    /\ UNCHANGED << window, stream, bLowWater, bFinAccepted, receiver, resetSent, allowed, slices >>

\* xTCPWindowNew() and vTCPWindowFree() for this socket's own transmission and
\* for other sockets: the descriptors come from one pool.
OthersTakeDescriptor ==
    /\ freeSegments > 0
    /\ freeSegments' = freeSegments - 1
    /\ UNCHANGED << ulCurrentSequenceNumber, ulHighestSequenceNumber, xRxSegments, sack, stream,
                    bLowWater, bFinAccepted, receiver, ackDue, resetSent, allowed, slices >>

OthersFreeDescriptor ==
    /\ freeSegments + Cardinality(xRxSegments) < SegmentCount
    /\ freeSegments' = freeSegments + 1
    /\ UNCHANGED << ulCurrentSequenceNumber, ulHighestSequenceNumber, xRxSegments, sack, stream,
                    bLowWater, bFinAccepted, receiver, ackDue, resetSent, allowed, slices >>

-----------------------------------------------------------------------------
(* The user's task *)

\* FreeRTOS_recv() takes up to n bytes ...
RecvGet(n) ==
    /\ receiver = "idle"
    /\ GetSize > 0
    /\ uxTail' = Wrap(uxTail + Least(GetSize, n))
    /\ tailPosition' = tailPosition + Least(GetSize, n)
    /\ receiver' = "check"
    /\ UNCHANGED << window, ucArray, uxHead, uxFront, headPosition, bLowWater, bFinAccepted,
                    ackDue, resetSent, allowed, slices >>

\* ... and then sees whether the peer may be told to go on.
RecvLowWater ==
    /\ receiver = "check"
    /\ receiver' = "idle"
    /\ LET enough == bLowWater /\ FrontSpace >= EnoughSpace
       IN  /\ bLowWater' = (bLowWater /\ ~enough)
           /\ ackDue' = (ackDue \/ enough)
    /\ UNCHANGED << window, stream, bFinAccepted, resetSent, allowed, slices >>

Recv == (\E n \in 1 .. LENGTH : RecvGet(n)) \/ RecvLowWater

-----------------------------------------------------------------------------

Next ==
    \/ \E s \in slices, txDone \in BOOLEAN : Receive(s, txDone)
    \/ PeerProbes
    \/ Acknowledge \/ AcknowledgementLost
    \/ OthersTakeDescriptor \/ OthersFreeDescriptor
    \/ Recv

Spec == Init /\ [][Next]_vars

\* The peer retransmits what is not acknowledged, and probes when it may not
\* send; not every acknowledgement is lost; our own transmission ends; the
\* user's task keeps reading.
Fairness ==
    /\ WF_vars(\E s \in slices : s[1] = headPosition /\ Receive(s, TRUE))
    /\ WF_vars(PeerProbes)
    /\ SF_vars(Acknowledge)
    /\ WF_vars(Recv)

FairSpec == Spec /\ Fairness

-----------------------------------------------------------------------------
(* Properties *)

\* Types; the pool is never overdrawn, and the indices stay inside the buffer.
TypeOK ==
    /\ ulCurrentSequenceNumber \in SeqNumber /\ ulHighestSequenceNumber \in SeqNumber
    /\ xRxSegments \subseteq [seq : SeqNumber, length : 1 .. MaxBytes]
    /\ freeSegments \in 0 .. SegmentCount
    /\ sack = << >> \/ sack \in SeqNumber \X SeqNumber
    /\ ucArray \in [Index -> (0 .. MaxBytes) \cup {Garbage}]
    /\ uxHead \in Index /\ uxTail \in Index /\ uxFront \in Index
    /\ bLowWater \in BOOLEAN /\ bFinAccepted \in BOOLEAN
    /\ receiver \in {"idle", "check"} /\ ackDue \in BOOLEAN /\ resetSent \in BOOLEAN
    /\ headPosition \in 0 .. MaxBytes /\ tailPosition \in 0 .. headPosition
    /\ allowed \in 0 .. MaxBytes
    /\ slices \in Cuts

\* Is byte p with us: handed to the user's side, or lying in its slot ahead of the head?
Held(p) ==
    \/ p < headPosition
    \/ p - tailPosition < LENGTH - 1 /\ ucArray[Wrap(uxTail + (p - tailPosition))] = p

\* The stream positions that a range of sequence numbers stands for.
Positions(seq, length) == {p \in 0 .. MaxBytes - 1 : SeqSub(Seq(p), seq) < length}

\* What FreeRTOS_recv() will return is the peer's stream, in order and without
\* a gap, whatever was lost, repeated or reordered on the way.
StreamIntact ==
    \A p \in tailPosition .. headPosition - 1 : ucArray[Wrap(uxTail + (p - tailPosition))] = p

\* The peer sends its segments again as they were, and does not cut anew.
KeepsCut == \A s, t \in slices : s = t \/ s[2] <= t[1] \/ t[2] <= s[1]

\* A selective acknowledgement names bytes that were received and kept, for a peer
\* that does not cut anew (prvTCPWindowRx_UnexpectedRX()).
SackTruthful ==
    KeepsCut /\ sack # << >> => \A p \in Positions(sack[1], SeqSub(sack[2], sack[1])) : Held(p)

\* The peer is never invited to send more than there is room for, and nothing that
\* lTCPWindowRxCheck() accepts is then too much for uxStreamBufferAdd(), so that the
\* connection is never given up in prvStoreRxData().
WindowFits == allowed <= tailPosition + LENGTH - 1 /\ ~resetSent

\* However segments are lost and reordered, such a peer gets its whole stream to
\* the user and its FIN accepted: low water, a full pool and lost acknowledgements
\* end (FreeRTOS_recv(), prvTCPReturnPacket()).
Delivered == KeepsCut => <>(tailPosition = MaxBytes /\ bFinAccepted)
=============================================================================
