---------------------------- MODULE TcpTxWindow -----------------------------
(***************************************************************************)
(* The sending half of one established connection: the segments that      *)
(* FreeRTOS_TCP_WIN.c cuts the transmit stream into, its three queues, the *)
(* acknowledgements, selective or not, and fast retransmission, driven by  *)
(* FreeRTOS_send(), xTCPSocketCheck() and prvHandleEstablished().          *)
(*                                                                         *)
(* The user writes the bytes 0 .. MaxBytes - 1.  Packets in flight may be  *)
(* lost, delivered twice and overtaken; so may acknowledgements.  The peer *)
(* has a window that closes, and keeps of a packet what fits in it.        *)
(*                                                                         *)
(* Time is not counted: how many of the segments at the head of the wait   *)
(* queue are due is chosen whenever the queue is looked at.  A packet for  *)
(* which no network buffer is found is one that was lost.                  *)
(***************************************************************************)
EXTENDS StreamBufferOps, SequenceNumbers, SequencesExt

CONSTANTS
    MaxBytes,           \* bytes the user writes (bound of the model)
    WriteSizes,         \* how many of them with one call
    InitialSeq,         \* sequence number of byte 0
    MSS,                \* usMSS
    SegmentCount,       \* ipconfigTCP_WIN_SEG_COUNT: descriptors all sockets share
    TxWindowLength,     \* xSize.ulTxWindowLength at first
    MaxTransmitCount,   \* MAX_TRANSMIT_COUNT_USING_LARGE_WINDOW
    DuplicateAcks,      \* DUPLICATE_ACKS_BEFORE_FAST_RETRANSMIT
    SendRepeatedCount,  \* SEND_REPEATED_COUNT
    PeerWindow,         \* bytes the peer buffers
    MaxAcks,            \* acknowledgements in flight (bound of the model)
    Garbage             \* what a slot of the buffer holds before it is written

ASSUME TxAssumption ==
    /\ MaxBytes \in Nat /\ MaxBytes < HalfRange
    /\ WriteSizes \subseteq 1 .. MaxBytes
    /\ InitialSeq \in SeqNumber
    /\ MSS \in Nat /\ MSS > 1
    /\ SegmentCount \in Nat /\ TxWindowLength \in Nat /\ PeerWindow \in Nat
    /\ MaxTransmitCount \in Nat \ {0} /\ DuplicateAcks \in Nat \ {0}
    /\ SendRepeatedCount \in Nat \ {0} /\ MaxAcks \in Nat \ {0}
    /\ Garbage \notin Nat

VARIABLES
    pxWindow,       \* the sending part of the socket's TCPWindow_t
    txStream,       \* array, head, tail and mid of its stream buffer
    ulWindowSize,   \* the window the peer announced last
    freeSegments,   \* length of xSegmentList
    wire,           \* packets in flight to the peer
    acks,           \* acknowledgements in flight to us
    received,       \* stream positions the peer holds or has consumed
    edge,           \* the peer takes positions below this one
    overtaken       \* was an acknowledgement ever overtaken by another?

vars == << pxWindow, txStream, ulWindowSize, freeSegments, wire, acks, received, edge, overtaken >>

NoSegment == -1

Init ==
    /\ \E full \in BOOLEAN :
          pxWindow = [ulCurrentSequenceNumber |-> InitialSeq, ulHighestSequenceNumber |-> InitialSeq,
                      ulNextTxSequenceNumber |-> InitialSeq, xTxSegments |-> << >>,
                      xPriorityQueue |-> << >>, xWaitQueue |-> << >>, xTxQueue |-> << >>,
                      pxHeadSegment |-> NoSegment, ulTxWindowLength |-> TxWindowLength,
                      bSendFullSize |-> full]
    /\ txStream = [array |-> [i \in Index |-> Garbage], head |-> 0, tail |-> 0, mid |-> 0]
    /\ ulWindowSize = PeerWindow
    /\ freeSegments = SegmentCount
    /\ wire = {} /\ acks = << >>
    /\ received = {} /\ edge = PeerWindow
    /\ overtaken = FALSE

-----------------------------------------------------------------------------
(* FreeRTOS_TCP_WIN.c.  A segment is known by its sequence number, and the *)
(* queues are sequences of these.  What a handler works on is a record of  *)
(* the window, the stream, the pool, the packets sent so far and the       *)
(* number of segments of the wait queue that are due.                      *)

End(segment) == SeqAdd(segment.ulSequenceNumber, segment.lDataLength)

Segment(w, seq) == CHOOSE s \in ToSet(w.xTxSegments) : s.ulSequenceNumber = seq

\* The segment `seq' changed to what f makes of it.
Update(w, seq, f(_)) ==
    [w EXCEPT !.xTxSegments = [i \in DOMAIN @ |-> IF @[i].ulSequenceNumber = seq THEN f(@[i]) ELSE @[i]]]

\* uxListRemove() of a segment's xQueueItem, which is in one queue at most.
Unlink(w, seq) == [w EXCEPT !.xPriorityQueue = RemoveFirst(@, seq),
                            !.xWaitQueue = RemoveFirst(@, seq), !.xTxQueue = RemoveFirst(@, seq)]

\* prvTCPWindowTxAdd_FrontSegment(): what the last segment can still take.
FrontRoom(w) ==
    IF w.pxHeadSegment = NoSegment THEN 0
    ELSE LET s == Segment(w, w.pxHeadSegment)
         IN  IF s.bOutstanding \/ s.lDataLength = 0 THEN 0 ELSE MSS - s.lDataLength

FillFront(w, n) ==
    IF n = 0 THEN w
    ELSE LET filled == Update(w, w.pxHeadSegment, LAMBDA s : [s EXCEPT !.lDataLength = @ + n])
         IN  [filled EXCEPT !.ulNextTxSequenceNumber = SeqAdd(@, n),
                            !.pxHeadSegment = IF n = FrontRoom(w) THEN NoSegment ELSE @]

\* xTCPWindowTxNew() and what lTCPWindowTxAdd() does with it.
NewSegment(w, n, position) ==
    LET seq == w.ulNextTxSequenceNumber
    IN  [w EXCEPT !.xTxSegments = Append(@, [ulSequenceNumber |-> seq, lDataLength |-> n,
                                             lStreamPos |-> position, bOutstanding |-> FALSE,
                                             ucTransmitCount |-> 0, ucDupAckCount |-> 0,
                                             bAcked |-> FALSE]),
                  !.xTxQueue = Append(@, seq),
                  !.ulNextTxSequenceNumber = SeqAdd(@, n),
                  !.pxHeadSegment = IF n < MSS THEN seq ELSE NoSegment]

\* Fault: xTCPWindowTxNew() is taken to succeed.
AddSegmentWithoutPool(a) ==
    LET n == Least(MSS, a.left)
    IN  IF a.left = 0 THEN a
        ELSE [a EXCEPT !.window = NewSegment(@, n, a.position), !.left = @ - n,
                       !.position = Wrap(@ + n), !.free = @ - 1]

\* A turn of the loop of lTCPWindowTxAdd(): a new segment for a.left bytes from
\* a.position on, if there are bytes and there is a descriptor.
AddSegment(a) ==
    LET n == Least(MSS, a.left)
    IN  IF a.left = 0 \/ a.free = 0 THEN a
        ELSE [a EXCEPT !.window = NewSegment(@, n, a.position), !.left = @ - n,
                       !.position = Wrap(@ + n), !.free = @ - 1]

\* lTCPWindowTxAdd() of `length' bytes from `position' on, with `free' descriptors
\* left: fill the last segment, then new ones until the bytes or the pool end.
TxAdd(w, length, position, free) ==
    LET first == Least(length, FrontRoom(w))
        loop[n \in 0 .. length] ==
            IF n = 0 THEN [window |-> FillFront(w, first), left |-> length - first,
                           position |-> Wrap(position + first), free |-> free]
            ELSE AddSegment(loop[n - 1])
    IN  loop[length]

\* Fault: uxMid goes to the head, whatever lTCPWindowTxAdd() took.
MidToHead(stream, done) == stream.head

\* vStreamBufferMoveMid()
MovedMid(stream, done) == Wrap(stream.mid + Least(Distance(stream.mid, stream.head), done))

\* prvTCPAddTxData()
AddTxData(c) ==
    LET length == Distance(c.stream.mid, c.stream.head)
        added == TxAdd(c.window, length, c.stream.mid, c.free)
    IN  [c EXCEPT !.window = added.window, !.free = added.free,
                  !.stream.mid = MovedMid(c.stream, length - added.left)]

\* Fault: what is outstanding does not count.
HasSpaceIfFits(w, windowSize) ==
    LET length == Segment(w, Head(w.xTxQueue)).lDataLength
    IN  length <= windowSize /\ length <= w.ulTxWindowLength

\* prvTCPWindowTxHasSpace(), for the head of xTxQueue.  The sequence numbers are
\* compared as they are, not modulo SeqRange.
HasSpace(w, windowSize) ==
    LET length == Segment(w, Head(w.xTxQueue)).lDataLength
        ulTxOutstanding ==
            IF w.ulHighestSequenceNumber >= w.ulCurrentSequenceNumber
            THEN w.ulHighestSequenceNumber - w.ulCurrentSequenceNumber ELSE 0
    IN  /\ windowSize - Least(windowSize, ulTxOutstanding) >= length
        /\ ulTxOutstanding = 0 \/ ulTxOutstanding + length <= w.ulTxWindowLength

\* pxTCPWindowTx_GetTXQueue(): may the head of xTxQueue go?
MaySendNew(w, windowSize) ==
    /\ w.xTxQueue # << >>
    /\ w.bSendFullSize => Segment(w, Head(w.xTxQueue)).lDataLength = MSS
    /\ HasSpace(w, windowSize)

\* Fault: a segment whose time is up is not looked for.
NextToSendOnce(w, windowSize, due) ==
    IF w.xPriorityQueue # << >> THEN Head(w.xPriorityQueue)
    ELSE IF MaySendNew(w, windowSize) THEN Head(w.xTxQueue)
    ELSE NoSegment

\* ulTCPWindowTxGet(): the segment to be sent now, of the first queue that has one.
NextToSend(w, windowSize, due) ==
    IF w.xPriorityQueue # << >> THEN Head(w.xPriorityQueue)
    ELSE IF due > 0 /\ w.xWaitQueue # << >> THEN Head(w.xWaitQueue)
    ELSE IF MaySendNew(w, windowSize) THEN Head(w.xTxQueue)
    ELSE NoSegment

\* ... which goes to the tail of the wait queue.
Waiting(w, seq) == [Unlink(w, seq) EXCEPT !.xWaitQueue = Append(@, seq)]

\* The rest of ulTCPWindowTxGet(), with what its helpers change for each queue.
TxGet(w, seq) ==
    LET s == Segment(w, seq)
        fresh == w.xPriorityQueue = << >> /\ ~s.bOutstanding
        late == w.xPriorityQueue = << >> /\ s.bOutstanding
        sent == Update(w, seq, LAMBDA t :
                    [t EXCEPT !.bOutstanding = TRUE,
                              !.ucTransmitCount = Least(@ + 1, MaxTransmitCount),
                              !.ucDupAckCount = IF late THEN 0 ELSE @])
    IN  [Waiting(sent, seq) EXCEPT
            !.pxHeadSegment = IF fresh /\ @ = seq THEN NoSegment ELSE @,
            !.ulHighestSequenceNumber = IF fresh THEN End(s) ELSE @,
            !.ulTxWindowLength =
                IF s.ucTransmitCount = MaxTransmitCount - 1 THEN Least(@, 2 * MSS) ELSE @]

\* Fault: the position in the stream is used as an offset from its tail.
DataAtPosition(stream, s) ==
    LET got == Least(Beyond(Distance(stream.tail, stream.head), s.lStreamPos), s.lDataLength)
    IN  [i \in 1 .. s.lDataLength |->
            IF i <= got THEN stream.array[Wrap(Wrap(stream.tail + s.lStreamPos) + i - 1)] ELSE Garbage]

\* The bytes prvTCPPrepareSend() peeks out of the stream.
Data(stream, s) ==
    LET offset == Distance(stream.tail, s.lStreamPos)
        got == Least(Beyond(Distance(stream.tail, stream.head), offset), s.lDataLength)
    IN  [i \in 1 .. s.lDataLength |->
            IF i <= got THEN stream.array[Wrap(Wrap(stream.tail + offset) + i - 1)] ELSE Garbage]

\* prvTCPPrepareSend() and prvTCPReturnPacket(): c.sent tells whether a packet went.
PrepareSend(c) ==
    LET seq == NextToSend(c.window, c.windowSize, c.due)
        late == c.window.xPriorityQueue = << >> /\ c.due > 0 /\ c.window.xWaitQueue # << >>
    IN  IF seq = NoSegment THEN [c EXCEPT !.sent = FALSE]
        ELSE [c EXCEPT !.window = TxGet(@, seq),
                       !.packets = @ \cup {[seq |-> seq, data |-> Data(c.stream, Segment(c.window, seq))]},
                       !.due = IF late THEN @ - 1 ELSE @,
                       !.sent = TRUE]

\* A turn of the loop of prvTCPSendRepeated(), which ends when nothing is sent.
SendOnce(c) == IF c.sent THEN PrepareSend(c) ELSE c

\* prvTCPSendRepeated()
SendRepeated(c) ==
    LET loop[n \in 0 .. SendRepeatedCount] ==
            IF n = 0 THEN [c EXCEPT !.sent = TRUE] ELSE SendOnce(loop[n - 1])
    IN  loop[SendRepeatedCount]

-----------------------------------------------------------------------------
(* Acknowledgements *)

\* vTCPWindowFree() of the first segment, with which the window moves on.
FreeFirst(w) ==
    LET s == Head(w.xTxSegments)
    IN  [Unlink(w, s.ulSequenceNumber) EXCEPT
            !.xTxSegments = Tail(@), !.ulCurrentSequenceNumber = SeqAdd(@, s.lDataLength)]

\* A segment that was received before the ones below it.
MarkAcked(w, s) ==
    IF s.bAcked THEN w
    ELSE Unlink(Update(w, s.ulSequenceNumber, LAMBDA t : [t EXCEPT !.bAcked = TRUE]), s.ulSequenceNumber)

\* Was `s' received in part only?
Partial(s, last) == ~s.bAcked /\ xSequenceGreaterThan(End(s), last)

\* The loop of prvTCPWindowTxCheckAck() at segment s; a.at is its ulSequenceNumber.
CheckAckOf(a, s) ==
    IF a.ended \/ ~xSequenceLessThan(a.at, a.last) \/ xSequenceGreaterThan(a.at, s.ulSequenceNumber)
      THEN a
    ELSE IF a.at # s.ulSequenceNumber \/ Partial(s, a.last) THEN [a EXCEPT !.ended = TRUE]
    ELSE IF a.at = a.window.ulCurrentSequenceNumber
      THEN [a EXCEPT !.at = End(s), !.window = FreeFirst(@), !.confirmed = @ + s.lDataLength]
    ELSE [a EXCEPT !.at = End(s), !.window = MarkAcked(@, s)]

\* prvTCPWindowTxCheckAck(), after which the callers move the tail of txStream.
CheckAck(c, first, last) ==
    LET segments == c.window.xTxSegments
        loop[i \in 0 .. Len(segments)] ==
            IF i = 0 THEN [window |-> c.window, at |-> first, last |-> last,
                           confirmed |-> 0, ended |-> FALSE]
            ELSE CheckAckOf(loop[i - 1], segments[i])
        a == loop[Len(segments)]
        size == Distance(c.stream.tail, c.stream.head)
    IN  [c EXCEPT !.window = a.window,
                  !.free = @ + Len(segments) - Len(a.window.xTxSegments),
                  !.stream.tail = Wrap(@ + Least(size, a.confirmed))]

\* A segment goes from the wait queue to the priority queue.
Requeue(w, seq) == [Unlink(w, seq) EXCEPT !.xPriorityQueue = Append(@, seq)]

\* A turn of the loop of prvTCPWindowFastRetransmit(), for the segment `seq' of the
\* wait queue: DuplicateAcks acknowledgements of something beyond it put it back
\* into the priority queue.
CountDupAck(w, seq, first) ==
    LET n == Segment(w, seq).ucDupAckCount + 1
        counted == Update(w, seq, LAMBDA s : [s EXCEPT !.ucDupAckCount = Least(n, DuplicateAcks + 1),
                                                       !.ucTransmitCount = IF n = DuplicateAcks THEN 0 ELSE @])
    IN  IF ~xSequenceLessThan(seq, first) THEN w
        ELSE IF n = DuplicateAcks THEN Requeue(counted, seq) ELSE counted

\* prvTCPWindowFastRetransmit()
FastRetransmit(w, first) ==
    LET loop[i \in 0 .. Len(w.xWaitQueue)] ==
            IF i = 0 THEN w ELSE CountDupAck(loop[i - 1], w.xWaitQueue[i], first)
    IN  loop[Len(w.xWaitQueue)]

\* Fault: a selective acknowledgement counts from the current number on.
TxSackFromCurrent(c, first, last) ==
    LET checked == CheckAck(c, c.window.ulCurrentSequenceNumber, last)
    IN  [checked EXCEPT !.window = FastRetransmit(@, first)]

\* ulTCPWindowTxSack()
TxSack(c, first, last) ==
    LET checked == CheckAck(c, first, last)
    IN  [checked EXCEPT !.window = FastRetransmit(@, first)]

\* prvReadSackOption(), if there is such an option
ReadSackOption(c, sack) == IF sack = << >> THEN c ELSE TxSack(c, sack[1], sack[2])

\* ulTCPWindowTxAck()
TxAck(c, seq) ==
    IF xSequenceLessThanOrEqual(seq, c.window.ulCurrentSequenceNumber) THEN c
    ELSE CheckAck(c, c.window.ulCurrentSequenceNumber, seq)

-----------------------------------------------------------------------------
(* The IP task and the user's task *)

Handling(due) == [window |-> pxWindow, stream |-> txStream, windowSize |-> ulWindowSize,
                  free |-> freeSegments, packets |-> wire, due |-> due, sent |-> FALSE]

Becomes(c) ==
    /\ pxWindow' = c.window /\ txStream' = c.stream /\ ulWindowSize' = c.windowSize
    /\ freeSegments' = c.free /\ wire' = c.packets

\* FreeRTOS_send(): as many of the next n bytes as there is room for.
Send(n) ==
    LET written == SeqSub(pxWindow.ulCurrentSequenceNumber, InitialSeq) + Distance(txStream.tail, txStream.head)
        length == Least(n, MaxBytes - written)
        added == StreamAdd([array |-> txStream.array, head |-> txStream.head,
                            tail |-> txStream.tail, front |-> txStream.head],
                           0, [i \in 0 .. length - 1 |-> written + i], length)
    IN  /\ length > 0 /\ Space(txStream.head, txStream.tail) > 0
        /\ txStream' = [txStream EXCEPT !.array = added.array, !.head = added.head]
        /\ UNCHANGED << pxWindow, ulWindowSize, freeSegments, wire, acks, received, edge, overtaken >>

\* FREERTOS_SO_SET_FULL_SIZE is switched off.
ClearFullSize ==
    /\ pxWindow.bSendFullSize
    /\ pxWindow' = [pxWindow EXCEPT !.bSendFullSize = FALSE]
    /\ UNCHANGED << txStream, ulWindowSize, freeSegments, wire, acks, received, edge, overtaken >>

\* The peer's answer, as it is now; with too many in flight the oldest is lost.
Prefix(got) == CHOOSE p \in 0 .. MaxBytes : p \notin got /\ (0 .. p - 1) \subseteq got

Answer(got, block) ==
    [ack |-> SeqAdd(InitialSeq, Prefix(got)), window |-> edge - Prefix(got), sack |-> block]

Sent(queue, answer) == Append(IF Len(queue) = MaxAcks THEN Tail(queue) ELSE queue, answer)

\* xTCPSocketCheck(), called when the socket's timer expires: `due' segments at the
\* head of the wait queue are to be sent again.  With nothing left to send it
\* may be time for a keep-alive, which the peer answers.
SocketCheck(due, keepAlive) ==
    /\ UNCHANGED << received, edge, overtaken >>
    /\ acks' = IF keepAlive THEN Sent(acks, Answer(received, << >>)) ELSE acks
    /\ \E c \in {SendRepeated(AddTxData(Handling(due)))} : Becomes(c) /\ (keepAlive => ~c.sent)

\* xProcessReceivedTCPPacket() for an acknowledgement: its SACK option first, then
\* prvHandleEstablished(), and more if that sent something.
ReceiveAck(i, due) ==
    LET m == acks[i]
    IN  /\ acks' = RemoveAt(acks, i)
        /\ overtaken' = (overtaken \/ i > 1)
        /\ UNCHANGED << received, edge >>
        /\ \E c \in {ReadSackOption(Handling(due), m.sack)} :
           \E d \in {PrepareSend(AddTxData(TxAck([c EXCEPT !.windowSize = m.window], m.ack)))} :
              Becomes(IF d.sent THEN SendRepeated(d) ELSE d)

\* xTCPWindowTxNew() and vTCPWindowFree() for other sockets.
OthersTakeDescriptor ==
    /\ freeSegments > 0
    /\ freeSegments' = freeSegments - 1
    /\ UNCHANGED << pxWindow, txStream, ulWindowSize, wire, acks, received, edge, overtaken >>

OthersFreeDescriptor ==
    /\ freeSegments + Len(pxWindow.xTxSegments) < SegmentCount
    /\ freeSegments' = freeSegments + 1
    /\ UNCHANGED << pxWindow, txStream, ulWindowSize, wire, acks, received, edge, overtaken >>

-----------------------------------------------------------------------------
(* The network and the peer *)

\* Stream positions of a range of sequence numbers.
Positions(seq, length) == {p \in 0 .. MaxBytes - 1 : SeqSub(SeqAdd(InitialSeq, p), seq) < length}

\* The block of received bytes that p lies in, as a SACK option.
Block(got, p) ==
    LET left == CHOOSE l \in 0 .. p : (l .. p) \subseteq got /\ l - 1 \notin got
        right == CHOOSE r \in p + 1 .. MaxBytes : (p .. r - 1) \subseteq got /\ r \notin got
    IN  << SeqAdd(InitialSeq, left), SeqAdd(InitialSeq, right) >>

\* A packet arrives, perhaps not for the last time: the peer keeps what lies in
\* its window and answers, naming the block if it lies beyond a gap.
Deliver(packet, again) ==
    LET taken == {p \in Positions(packet.seq, Len(packet.data)) : p < edge}
        got == received \cup taken
        beyond == {p \in taken : p > Prefix(got)}
    IN  /\ received' = got
        /\ \E block \in IF beyond = {} THEN {<< >>} ELSE {Block(got, p) : p \in beyond} :
              acks' = Sent(acks, Answer(got, block))
        /\ wire' = IF again THEN wire ELSE wire \ {packet}
        /\ UNCHANGED << pxWindow, txStream, ulWindowSize, freeSegments, edge, overtaken >>

\* The peer's user reads all there is, and the peer tells of its new window.
PeerReads ==
    /\ edge < Least(MaxBytes, Prefix(received) + PeerWindow)
    /\ edge' = Prefix(received) + PeerWindow
    /\ acks' = Sent(acks, [Answer(received, << >>) EXCEPT !.window = PeerWindow])
    /\ UNCHANGED << pxWindow, txStream, ulWindowSize, freeSegments, wire, received, overtaken >>

LosePacket ==
    /\ \E packet \in wire : wire' = wire \ {packet}
    /\ UNCHANGED << pxWindow, txStream, ulWindowSize, freeSegments, acks, received, edge, overtaken >>

LoseAck ==
    /\ \E i \in 1 .. Len(acks) : acks' = RemoveAt(acks, i)
    /\ UNCHANGED << pxWindow, txStream, ulWindowSize, freeSegments, wire, received, edge, overtaken >>

-----------------------------------------------------------------------------

Expired == SocketCheck(Len(pxWindow.xWaitQueue), FALSE)

Next ==
    \/ \E n \in WriteSizes : Send(n)
    \/ ClearFullSize
    \/ \E due \in 0 .. Len(pxWindow.xWaitQueue), keepAlive \in BOOLEAN : SocketCheck(due, keepAlive)
    \/ \E i \in 1 .. Len(acks), due \in 0 .. Len(pxWindow.xWaitQueue) : ReceiveAck(i, due)
    \/ OthersTakeDescriptor \/ OthersFreeDescriptor
    \/ \E packet \in wire, again \in BOOLEAN : Deliver(packet, again)
    \/ PeerReads
    \/ LosePacket \/ LoseAck

Spec == Init /\ [][Next]_vars

\* Timers expire, and a descriptor is free at one of those times again and
\* again; a packet, or an acknowledgement, that is sent again and again arrives;
\* both users keep going.  For the handlers this is WF_vars and SF_vars written
\* out, with a predicate in the place of ENABLED that says the same of the
\* handler's result.
Changes(c) == << c.window, c.stream, c.free, c.packets >> # << pxWindow, txStream, freeSegments, wire >>

ExpiredChanges == Changes(SendRepeated(AddTxData(Handling(Len(pxWindow.xWaitQueue)))))
NothingToSend == ~SendRepeated(AddTxData(Handling(0))).sent
UpToDate(m) == m.ack = SeqAdd(InitialSeq, Prefix(received)) /\ m.window = edge - Prefix(received)
ReceiveUpToDate == \E i \in 1 .. Len(acks) : UpToDate(acks[i]) /\ ReceiveAck(i, 0)

Fairness ==
    /\ WF_vars(\E n \in WriteSizes : Send(n))
    /\ WF_vars(ClearFullSize)
    /\ <>[]ExpiredChanges => []<><<Expired>>_vars
    /\ []<>(freeSegments > 0 /\ ExpiredChanges) => []<><<freeSegments > 0 /\ Expired>>_vars
    /\ <>[](NothingToSend /\ \A i \in 1 .. Len(acks) : ~UpToDate(acks[i])) => []<><<SocketCheck(0, TRUE)>>_vars
    /\ SF_vars(\E packet \in wire :
                  /\ Prefix(received) \in Positions(packet.seq, Len(packet.data))
                  /\ Deliver(packet, FALSE))
    /\ []<>(\E i \in 1 .. Len(acks) : UpToDate(acks[i])) => []<><<ReceiveUpToDate>>_vars
    /\ WF_vars(PeerReads)
    /\ WF_vars(OthersFreeDescriptor)

FairSpec == Spec /\ Fairness

-----------------------------------------------------------------------------
(* Properties *)

Segments == ToSet(pxWindow.xTxSegments)

Position(seq) == SeqSub(seq, InitialSeq)

\* Types; descriptors are never handed out twice, and the oldest of too many
\* acknowledgements is dropped.
TypeOK ==
    /\ {pxWindow.ulCurrentSequenceNumber, pxWindow.ulHighestSequenceNumber,
        pxWindow.ulNextTxSequenceNumber} \subseteq SeqNumber
    /\ Segments \subseteq [ulSequenceNumber : SeqNumber, lDataLength : 1 .. MSS, lStreamPos : Index,
                           bOutstanding : BOOLEAN, ucTransmitCount : 0 .. MaxTransmitCount,
                           ucDupAckCount : 0 .. DuplicateAcks + 1, bAcked : BOOLEAN]
    /\ pxWindow.pxHeadSegment \in {s.ulSequenceNumber : s \in Segments} \cup {NoSegment}
    /\ freeSegments \in Nat /\ freeSegments + Len(pxWindow.xTxSegments) <= SegmentCount
    /\ txStream.head \in Index /\ txStream.tail \in Index /\ txStream.mid \in Index
    /\ received \subseteq 0 .. MaxBytes - 1 /\ Len(acks) <= MaxAcks

\* How often a segment stands in one of the three queues.
Queued(seq) ==
    LET queues == pxWindow.xPriorityQueue \o pxWindow.xWaitQueue \o pxWindow.xTxQueue
    IN  Cardinality({i \in DOMAIN queues : queues[i] = seq})

\* A segment that is not acknowledged stands in one of the three queues, once,
\* and one that is acknowledged in none: what the assertion in
\* ulTCPWindowTxGet() and the removal by vTCPWindowFree() rely on, and what
\* makes sure that a lost segment is sent again.
QueuesPartition ==
    \A s \in Segments :
        /\ Queued(s.ulSequenceNumber) = IF s.bAcked THEN 0 ELSE 1
        /\ s.bOutstanding <=> s.ulSequenceNumber \notin ToSet(pxWindow.xTxQueue)

\* The segments lie in the stream one after the other, from the tail of
\* txStream to its uxMid, each where lStreamPos says, also when part of them was
\* acknowledged, the last one was filled up or the pool ran out.
SegmentsTile ==
    LET at(seq) == SeqSub(seq, pxWindow.ulCurrentSequenceNumber)
        covered == Distance(txStream.tail, txStream.mid)
    IN  /\ at(pxWindow.ulNextTxSequenceNumber) = covered
        /\ covered <= Distance(txStream.tail, txStream.head)
        /\ \A p \in 0 .. covered - 1 :
              \E s \in Segments : at(s.ulSequenceNumber) <= p /\ p < at(s.ulSequenceNumber) + s.lDataLength
        /\ \A s \in Segments : /\ at(End(s)) <= covered
                               /\ s.lStreamPos = Wrap(txStream.tail + at(s.ulSequenceNumber))

\* Each byte the window has taken over is in the segment it belongs to, and that
\* one in a queue from which it will be sent, or sent again, until the peer has it.
StreamCovered == SegmentsTile /\ QueuesPartition

\* A packet holds the bytes of the user's stream that its sequence number
\* promises, also when it is sent again after the tail has moved.
SentIsStream ==
    \A packet \in wire : \A i \in 1 .. Len(packet.data) :
        packet.data[i] = Position(packet.seq) + i - 1

\* What was dropped from txStream, or is no longer sent, is with the peer.
ConfirmedReceived ==
    /\ Position(pxWindow.ulCurrentSequenceNumber) <= Prefix(received)
    /\ \A s \in Segments : s.bAcked => Positions(s.ulSequenceNumber, s.lDataLength) \subseteq received

\* Nothing is sent beyond what the peer ever allowed, if its acknowledgements
\* come in order: prvTCPWindowTxHasSpace() takes off what "has been sent but not
\* yet acknowledged".
WindowKept == ~overtaken => Position(pxWindow.ulHighestSequenceNumber) <= edge

\* Have the sequence numbers sent so far not passed 0?
Unwrapped == InitialSeq + Position(pxWindow.ulHighestSequenceNumber) < SeqRange

\* The same, as long as the sequence numbers do not wrap.
NeverOverruns == Unwrapped => WindowKept

\* All that the user writes reaches the peer and is acknowledged, whatever is
\* lost: no segment is forgotten, and a closed window, a full pool and a window
\* update that is lost come to an end.
Delivered == <>(Position(pxWindow.ulCurrentSequenceNumber) = MaxBytes)
=============================================================================
