-------------------------- MODULE DmaStream_proof ---------------------------
(***************************************************************************)
(* The interrupt of the DMA is never lost, for any number and size of      *)
(* buffers and however the hardware runs beside xdma_handler(); and a      *)
(* reader that keeps up counts no false error, if what waits in the FIFO   *)
(* before the DMA runs is read by the time the words are compared.         *)
(***************************************************************************)
EXTENDS DmaStream, TLAPS

\* Where the acknowledgement will not clear the bit, because the handler looked
\* before the bit was set, the edge it rose with is still held.
UnseenIsHeld == handler = "ack" /\ irqStatus /\ ~ackStatus => pending

\* The bit and the flags are Booleans.
FlagsOK == irqStatus \in BOOLEAN /\ pending \in BOOLEAN /\ ackStatus \in BOOLEAN

EdgeInv == FlagsOK /\ NoLostEdge /\ UnseenIsHeld

\* No interrupt is up before the DMA runs.
LEMMA InitEdgeInv == Init => EdgeInv
BY DEF Init, EdgeInv, FlagsOK, NoLostEdge, UnseenIsHeld

\* Each step of the hardware, the handler and the reader keeps the edge.
LEMMA StepEdgeInv == EdgeInv /\ [Next]_vars => EdgeInv'
<1> SUFFICES ASSUME EdgeInv, [Next]_vars PROVE EdgeInv'
    OBVIOUS
<1> USE DEF EdgeInv, FlagsOK, NoLostEdge, UnseenIsHeld
<1>1. CASE Transfer
    <2>1. UNCHANGED << handler, ackStatus >>
        BY <1>1 DEF Transfer, isr
    <2>2. CASE EndsBuffer(Head(fifo))
        \* A bit that was down rises with an edge; one that was up has its edge.
        <3>1. irqStatus' = TRUE /\ pending' = (pending \/ ~irqStatus)
            BY <1>1, <2>2 DEF Transfer
        <3> QED
            BY <2>1, <3>1
    <2>3. CASE ~EndsBuffer(Head(fifo))
        <3>1. UNCHANGED << irqStatus, pending >>
            BY <1>1, <2>3 DEF Transfer
        <3> QED
            BY <2>1, <3>1
    <2> QED
        BY <2>2, <2>3
<1>2. CASE Enter
    BY <1>2 DEF Enter
<1>3. CASE GetIrq
    BY <1>3 DEF GetIrq
<1>4. CASE AckIrq
    BY <1>4 DEF AckIrq
<1>5. CASE FindBuffer \/ Signal
    BY <1>5 DEF FindBuffer, Signal
<1>6. CASE Generate \/ Start \/ Reader
    <2>1. UNCHANGED << irqStatus, pending, handler, ackStatus >>
        BY <1>6 DEF Generate, Start, Reader, SeeFlag, ClearFlag, TakePointer, Receive,
           ReadWord, EndPass, isr
    <2> QED
        BY <2>1
<1>7. CASE UNCHANGED vars
    BY <1>7 DEF vars, isr
<1> QED
    BY <1>1, <1>2, <1>3, <1>4, <1>5, <1>6, <1>7 DEF Next, Handler

-----------------------------------------------------------------------------
(* The reader's data.  As long as it is never late each buffer that is     *)
(* completed is signalled once and read once, so that Done counts them     *)
(* all.  The buffers that hold what had waited in the FIFO are short, or   *)
(* not filled, or have a jump in them; they come first, and there are no   *)
(* more than WarmUp - 1 of them if the FIFO holds less than as many.       *)

W == WordsPerBuffer

\* Buffers completed so far, as long as the passes are counted.
Done == intr_count + (IF reader = "read" THEN 1 ELSE 0) + completed

Prev == XAxiDma_BdRingPrev(currBd)

Shapes ==
    /\ tdata \in Word /\ fifo \in Seq([data : Word, tlast : BOOLEAN]) /\ count \in 0 .. frame_size
    /\ running \in BOOLEAN /\ currBd \in Ring /\ word \in 0 .. frame_size
    /\ bufarray \in [Ring -> [0 .. frame_size -> Word]]
    /\ handler \in {"idle", "get", "ack", "find", "signal"} /\ BufReadyPtr \in Ring
    /\ xdma_intr_detected \in BOOLEAN /\ xDmaQueue \in Seq(Ring)
    /\ program \in {"zed", "uzed"} /\ reader \in {"wait", "clear", "take", "read"}
    /\ buffer \in Ring /\ index \in 0 .. W /\ temp1 \in Word
    /\ intr_count \in 0 .. WarmUp + 1 /\ data_error \in BOOLEAN
    /\ completed \in Nat /\ late \in BOOLEAN

\* Has the reader been told of the buffer that was completed?
Told ==
    /\ handler = "idle" /\ ~pending
    /\ BufReadyPtr = Prev
    /\ program = "zed" => IF reader = "take" THEN ~xdma_intr_detected
                          ELSE xdma_intr_detected /\ reader \in {"wait", "clear", "read"}
    /\ program = "uzed" => xDmaQueue = << Prev >> /\ reader \in {"wait", "read"}

\* Is nobody told of a buffer?
Quiet ==
    /\ program = "zed" => ~xdma_intr_detected
    /\ program = "uzed" => xDmaQueue = << >>
    /\ reader \in {"wait", "read"}

\* A buffer that was completed is on its way to the reader, once.
Signalled ==
    \/ /\ completed = 0
       /\ handler = "idle" /\ ~pending /\ ~irqStatus
       /\ Quiet
    \/ /\ completed = 1
       /\ \/ handler = "idle" /\ pending /\ irqStatus /\ Quiet
          \/ handler = "get" /\ ~pending /\ irqStatus /\ Quiet
          \/ handler = "ack" /\ ~pending /\ irqStatus /\ ackStatus /\ Quiet
          \/ handler = "find" /\ ~pending /\ ~irqStatus /\ Quiet
          \/ handler = "signal" /\ ~pending /\ ~irqStatus /\ BufReadyPtr = Prev /\ Quiet
          \/ Told /\ ~irqStatus

\* The reader is at the buffer completed last, or at the one before.
AtBuffer == reader = "read" =>
    buffer = IF completed = 0 THEN Prev ELSE XAxiDma_BdRingPrev(Prev)

\* How many words on, in the generator, the frame ends.
FrameEndsIn == IF count = 0 THEN W ELSE count

\* The first frame is a word short.
Short == IF Done = 0 THEN 1 ELSE 0

Ends == {p \in DOMAIN fifo : fifo[p].tlast}

\* The words that wait from before the DMA was started are whole frames, from
\* where the buffer in progress begins, and no more than the FIFO holds.
Filled ==
    /\ word + Short < W
    /\ Done * W + word + Len(fifo) <= FifoDepth + 1 - Short
    /\ \A p \in Ends : word + Short + p >= W
    /\ W - Short - word \in DOMAIN fifo => W - Short - word \in Ends
    /\ \A p, q \in Ends : p < q => p + W <= q
    /\ \A p \in Ends : p + W \in DOMAIN fifo => p + W \in Ends
    /\ ~running =>
          /\ word = 0 /\ Done = 0
          /\ Len(fifo) < FifoDepth =>
                LET next == Len(fifo) + FrameEndsIn
                IN  /\ next = W - 1 \/ next - W \in Ends
                    /\ next >= W - 1
                    /\ \A p \in Ends : p + W <= next

\* How many words on, in what the DMA gets, the frame ends.
ToGo == IF fifo = << >> THEN FrameEndsIn ELSE IF fifo[1].tlast THEN 1 ELSE 1 + FrameEndsIn

\* Each word goes to the DMA before the next comes.  A buffer that will be full
\* before the frame ends, or ends before it is full, is one of the first.
Steady ==
    /\ running /\ Len(fifo) <= 1
    /\ fifo # << >> => fifo[1].data = tdata /\ (fifo[1].tlast => FrameEndsIn = W)
    /\ ToGo <= W
    /\ word + ToGo > W => Done + 2 <= WarmUp
    /\ word + ToGo < W => Done + 1 <= WarmUp

\* The word the DMA gets next.
NextWord == IF fifo = << >> THEN After(tdata) ELSE tdata

\* The buffer in progress counts on, once the first ones are over.
CurrentCounts == Done >= WarmUp =>
    /\ \A i \in 0 .. frame_size : i + 1 < word => bufarray[currBd][i + 1] = After(bufarray[currBd][i])
    /\ word > 0 => NextWord = After(bufarray[currBd][word - 1])

\* The words of a buffer are a count.
Counts(b) == \A i \in 0 .. frame_size - 1 : bufarray[b][i + 1] = After(bufarray[b][i])

\* The first word of the buffer in progress, and of the one to be read next.
FirstWord == IF word = 0 THEN NextWord ELSE bufarray[currBd][0]
FirstToRead == IF completed = 0 THEN FirstWord ELSE bufarray[Prev][0]

PreviousCounts == Done > WarmUp =>
    Counts(Prev) /\ FirstWord = After(bufarray[Prev][frame_size])

BufferCounts == reader = "read" /\ intr_count >= WarmUp =>
    Counts(buffer) /\ FirstToRead = After(bufarray[buffer][frame_size])

\* temp1 is the word read last, and what is read next is the one after it.
LastRead ==
    /\ reader = "read" /\ index > 0 => temp1 = bufarray[buffer][index - 1]
    /\ program = "zed" /\ intr_count > WarmUp /\ reader # "read" => FirstToRead = After(temp1)
    /\ program = "zed" /\ intr_count > WarmUp /\ reader = "read" /\ index = 0 =>
          bufarray[buffer][0] = After(temp1)

DataInv ==
    /\ Signalled
    /\ AtBuffer
    /\ Filled \/ Steady
    /\ CurrentCounts
    /\ PreviousCounts
    /\ BufferCounts
    /\ LastRead
    /\ ~data_error

ReaderInv == EdgeInv /\ Shapes /\ (~late => DataInv)

\* As many passes are let go by as the FIFO may fill buffers, and one more; and
\* the DMA, the buffer that is read and the one between them are three.
WarmEnough == FifoDepth < (WarmUp - 1) * W
RingLongEnough == NUM_BD >= 3

LEMMA WordsFacts == W \in Nat /\ W >= 2 /\ frame_size = W - 1
BY DmaAssumption DEF W, WordsPerBuffer

LEMMA RingFacts ==
    ASSUME NEW b \in Ring
    PROVE  /\ XAxiDma_BdRingPrev(b) = IF b = 0 THEN NUM_BD - 1 ELSE b - 1
           /\ XAxiDma_BdRingNext(b) = IF b = NUM_BD - 1 THEN 0 ELSE b + 1
           /\ XAxiDma_BdRingPrev(b) \in Ring /\ XAxiDma_BdRingNext(b) \in Ring
           /\ XAxiDma_BdRingPrev(XAxiDma_BdRingNext(b)) = b
           /\ RingLongEnough => /\ XAxiDma_BdRingPrev(b) # b
                                /\ XAxiDma_BdRingPrev(XAxiDma_BdRingPrev(b)) # b
<1> USE DmaAssumption
<1>1. ASSUME NEW c \in Ring
      PROVE  /\ XAxiDma_BdRingPrev(c) = IF c = 0 THEN NUM_BD - 1 ELSE c - 1
             /\ XAxiDma_BdRingPrev(c) \in Ring
    <2>1. c \in Int /\ 0 <= c /\ c < NUM_BD
        BY DEF Ring
    <2>2. (c - 1) % NUM_BD = IF c = 0 THEN NUM_BD - 1 ELSE c - 1
        BY <2>1
    <2> QED
        BY <2>1, <2>2 DEF XAxiDma_BdRingPrev, Ring
<1>2. /\ XAxiDma_BdRingNext(b) = IF b = NUM_BD - 1 THEN 0 ELSE b + 1
      /\ XAxiDma_BdRingNext(b) \in Ring
    <2>1. b \in Int /\ 0 <= b /\ b < NUM_BD
        BY DEF Ring
    <2>2. (b + 1) % NUM_BD = IF b = NUM_BD - 1 THEN 0 ELSE b + 1
        BY <2>1
    <2> QED
        BY <2>1, <2>2 DEF XAxiDma_BdRingNext, Ring
<1>3. b \in Int /\ 0 <= b /\ b < NUM_BD
    BY DEF Ring
<1>4. XAxiDma_BdRingPrev(XAxiDma_BdRingNext(b)) = b
    <2>1. XAxiDma_BdRingPrev(XAxiDma_BdRingNext(b)) =
              IF XAxiDma_BdRingNext(b) = 0 THEN NUM_BD - 1 ELSE XAxiDma_BdRingNext(b) - 1
        BY <1>1, <1>2
    <2> QED
        BY <2>1, <1>2, <1>3
<1>5. XAxiDma_BdRingPrev(XAxiDma_BdRingPrev(b)) =
          IF XAxiDma_BdRingPrev(b) = 0 THEN NUM_BD - 1 ELSE XAxiDma_BdRingPrev(b) - 1
    BY <1>1
<1>6. /\ XAxiDma_BdRingPrev(b) = IF b = 0 THEN NUM_BD - 1 ELSE b - 1
      /\ XAxiDma_BdRingPrev(b) \in Ring
    BY <1>1
<1> QED
    BY <1>2, <1>3, <1>4, <1>5, <1>6 DEF RingLongEnough

\* The first element of a queue, and the others.
LEMMA HeadAndTail ==
    ASSUME NEW S, NEW s \in Seq(S), s # << >>
    PROVE  /\ Head(s) \in S /\ Tail(s) \in Seq(S)
           /\ Len(s) \in Nat /\ Len(s) >= 1 /\ Head(s) = s[1]
           /\ Len(Tail(s)) = Len(s) - 1
           /\ \A p \in 1 .. Len(s) - 1 : Tail(s)[p] = s[p + 1]
OBVIOUS

\* After a word comes a word.
LEMMA AfterIsWord == ASSUME NEW w \in Word PROVE After(w) \in Word
BY DmaAssumption DEF Word, After

LEMMA InitReaderInv == Init => ReaderInv
<1> SUFFICES ASSUME Init PROVE ReaderInv
    OBVIOUS
<1> USE DmaAssumption, WordsFacts
<1>1. fifo = << >> /\ fifo \in Seq([data : Word, tlast : BOOLEAN]) /\ xDmaQueue \in Seq(Ring)
    BY DEF Init
<1>2. Shapes
    BY <1>1 DEF Init, Shapes, Word, Ring
<1>3. Done = 0 /\ Short = 1 /\ Ends = {} /\ Len(fifo) = 0 /\ 0 \notin DOMAIN fifo
    BY <1>1 DEF Init, Done, Short, Ends
<1>4. Filled
    <2>1. word + Short < W /\ Done * W + word + Len(fifo) <= FifoDepth + 1 - Short
        BY <1>3 DEF Init
    <2>2. W - Short - word \notin DOMAIN fifo
        BY <1>1
    <2>3. FrameEndsIn = W - 1
        BY DEF Init, FrameEndsIn
    <2> QED
        BY <1>3, <2>1, <2>2, <2>3 DEF Init, Filled
<1>5. Signalled /\ AtBuffer
    BY <1>1 DEF Init, Signalled, Quiet, AtBuffer
<1>6. CurrentCounts /\ PreviousCounts /\ BufferCounts /\ LastRead
    <2>1. Done >= WarmUp => word = 0
        BY DEF Init
    <2>2. Done <= WarmUp
        BY <1>3
    <2>3. \A i \in 0 .. frame_size : ~ (i + 1 < word)
        BY DEF Init
    <2> QED
        BY <1>3, <2>2, <2>3 DEF Init, CurrentCounts, PreviousCounts, BufferCounts, LastRead
<1> QED
    BY <1>2, <1>4, <1>5, <1>6, InitEdgeInv DEF ReaderInv, DataInv, Init

-----------------------------------------------------------------------------
(* Types *)

LEMMA StepShapes == Shapes /\ [Next]_vars => Shapes'
<1> SUFFICES ASSUME Shapes, [Next]_vars PROVE Shapes'
    OBVIOUS
<1> USE DmaAssumption, WordsFacts DEF Shapes
<1>1. CASE Generate
    <2>1. After(tdata) \in Word
        BY AfterIsWord
    <2>2. [data |-> After(tdata), tlast |-> count = 1] \in [data : Word, tlast : BOOLEAN]
        BY <2>1
    <2>3. fifo' \in Seq([data : Word, tlast : BOOLEAN]) /\ tdata' \in Word
        <3>1. Append(fifo, [data |-> After(tdata), tlast |-> count = 1]) \in Seq([data : Word, tlast : BOOLEAN])
            BY <2>2
        <3> QED
            BY <1>1, <2>1, <3>1 DEF Generate
    <2>4. count' \in 0 .. frame_size
        BY <1>1 DEF Generate
    <2> QED
        BY <1>1, <2>3, <2>4 DEF Generate, dma, isr, signals, checker, pace
<1>2. CASE Transfer
    <2>1. /\ Head(fifo) \in [data : Word, tlast : BOOLEAN]
          /\ fifo' \in Seq([data : Word, tlast : BOOLEAN])
          /\ tdata' \in Word
        <3>1. fifo # << >> /\ fifo' = Tail(fifo)
            BY <1>2 DEF Transfer
        <3>2. /\ Head(fifo) \in [data : Word, tlast : BOOLEAN]
              /\ fifo' \in Seq([data : Word, tlast : BOOLEAN])
            BY <3>1, HeadAndTail
        <3>3. fifo' # << >> => Head(fifo') \in [data : Word, tlast : BOOLEAN]
            BY <3>2, HeadAndTail
        <3> QED
            BY <1>2, <3>2, <3>3 DEF Transfer
    <2>2. bufarray' \in [Ring -> [0 .. frame_size -> Word]]
        <3>1. bufarray' = [bufarray EXCEPT ![currBd][word] = Head(fifo).data]
            BY <1>2 DEF Transfer
        <3>2. Head(fifo).data \in Word
            BY <2>1
        <3> QED
            BY <3>1, <3>2
    <2>3. currBd' \in Ring /\ word' \in 0 .. frame_size /\ completed' \in Nat /\ late' \in BOOLEAN
        <3>1. CASE EndsBuffer(Head(fifo))
            BY <1>2, <3>1, RingFacts DEF Transfer
        <3>2. CASE ~EndsBuffer(Head(fifo))
            BY <1>2, <3>2 DEF Transfer, EndsBuffer, pace
        <3> QED
            BY <3>1, <3>2
    <2> QED
        BY <1>2, <2>1, <2>2, <2>3 DEF Transfer, isr, signals, checker
<1>3. CASE Handler
    <2>1. XAxiDma_BdRingPrev(currBd) \in Ring
        BY RingFacts
    <2>2. << BufReadyPtr >> \in Seq(Ring)
        OBVIOUS
    <2>3. CASE Enter \/ GetIrq \/ AckIrq \/ FindBuffer
        BY <2>3, <2>1 DEF Enter, GetIrq, AckIrq, FindBuffer, generator, dma, signals, checker, pace
    <2>4. CASE Signal
        BY <2>4, <2>2 DEF Signal, generator, dma, checker, pace
    <2> QED
        BY <1>3, <2>3, <2>4 DEF Handler
<1>4. CASE Start \/ SeeFlag \/ ClearFlag \/ TakePointer
    <2>1. CASE Start
        BY <2>1 DEF Start, generator, isr, signals, checker, pace
    <2>2. CASE SeeFlag
        BY <2>2 DEF SeeFlag, generator, dma, isr, signals, pace
    <2>3. CASE ClearFlag
        BY <2>3 DEF ClearFlag, generator, dma, isr, pace
    <2>4. CASE TakePointer
        BY <2>4 DEF TakePointer, generator, dma, isr, signals
    <2> QED
        BY <1>4, <2>1, <2>2, <2>3, <2>4
<1>5. CASE Receive
    <2>1. Head(xDmaQueue) \in Ring /\ << >> \in Seq(Ring)
        BY <1>5 DEF Receive
    <2> QED
        BY <1>5, <2>1 DEF Receive, generator, dma, isr
<1>6. CASE ReadWord
    <2>1. index \in 0 .. frame_size
        BY <1>6 DEF ReadWord, WordsRead, WordsPerBuffer
    <2>2. temp1' \in Word /\ data_error' \in BOOLEAN
        <3>1. bufarray[buffer][index] \in Word
            BY <2>1
        <3> QED
            BY <1>6, <3>1 DEF ReadWord
    <2> QED
        BY <1>6, <2>1, <2>2 DEF ReadWord, generator, dma, isr, signals, pace
<1>7. CASE EndPass
    BY <1>7 DEF EndPass, generator, dma, isr, signals, pace
<1>8. CASE UNCHANGED vars
    BY <1>8 DEF vars, generator, dma, isr, signals, checker, pace
<1> QED
    BY <1>1, <1>2, <1>3, <1>4, <1>5, <1>6, <1>7, <1>8 DEF Next, Reader

-----------------------------------------------------------------------------
(* The handler *)

\* What the handler does leaves the data, and where the reader is, alone.
LEMMA HandlerKeepsData ==
    ASSUME DataInv, UNCHANGED << generator, dma, program, checker, pace >>, Signalled'
    PROVE  DataInv'
<1> USE DEF DataInv, generator, dma, checker, pace
<1>1. Done' = Done /\ Prev' = Prev /\ Short' = Short /\ FrameEndsIn' = FrameEndsIn /\ Ends' = Ends
    BY DEF Done, Prev, Short, FrameEndsIn, Ends
<1>2. ToGo' = ToGo /\ NextWord' = NextWord /\ FirstWord' = FirstWord /\ FirstToRead' = FirstToRead
    BY <1>1 DEF ToGo, NextWord, FirstWord, FirstToRead
<1>3. (Filled \/ Steady)'
    BY <1>1, <1>2 DEF Filled, Steady
<1>4. AtBuffer' /\ CurrentCounts'
    BY <1>1, <1>2 DEF AtBuffer, CurrentCounts
<1>5. PreviousCounts' /\ BufferCounts' /\ LastRead'
    BY <1>1, <1>2 DEF PreviousCounts, BufferCounts, Counts, LastRead
<1> QED
    BY <1>3, <1>4, <1>5

LEMMA HandlerKeeps ==
    ASSUME Shapes, DataInv, Handler
    PROVE  DataInv'
<1> USE DEF Signalled, Told, Quiet, generator, dma, isr, signals, checker, pace
<1>1. Signalled
    BY DEF DataInv
<1>2. Prev' = Prev
    BY DEF Handler, Enter, GetIrq, AckIrq, FindBuffer, Signal, Prev
<1>3. CASE Enter
    BY <1>1, <1>2, <1>3, HandlerKeepsData DEF Enter
<1>4. CASE GetIrq
    BY <1>1, <1>2, <1>4, HandlerKeepsData DEF GetIrq
<1>5. CASE AckIrq
    BY <1>1, <1>2, <1>5, HandlerKeepsData DEF AckIrq
<1>6. CASE FindBuffer
    <2>1. BufReadyPtr' = Prev
        BY <1>6 DEF FindBuffer, Prev
    <2> QED
        BY <1>1, <1>2, <1>6, <2>1, HandlerKeepsData DEF FindBuffer
<1>7. CASE Signal
    <2>1. /\ completed = 1 /\ ~pending /\ ~irqStatus /\ BufReadyPtr = Prev /\ Quiet
        BY <1>1, <1>7 DEF Signal
    <2>2. program \in {"zed", "uzed"}
        BY DEF Shapes
    <2>3. /\ handler' = "idle" /\ xdma_intr_detected' = TRUE /\ ~pending' /\ ~irqStatus' /\ completed' = 1
          /\ BufReadyPtr' = Prev /\ program' = program /\ reader' = reader
        BY <1>7, <2>1 DEF Signal
    <2>4. program = "uzed" => xDmaQueue' = << Prev >>
        BY <1>7, <2>1 DEF Signal
    <2>5. Told'
        BY <1>2, <2>1, <2>2, <2>3, <2>4
    <2> HIDE DEF Told, Quiet
    <2>6. Signalled'
        BY <2>3, <2>5
    <2>7. UNCHANGED << generator, dma, program, checker, pace >>
        BY <1>7 DEF Signal
    <2> QED
        BY <2>6, <2>7, HandlerKeepsData
<1> QED
    BY <1>3, <1>4, <1>5, <1>6, <1>7 DEF Handler

LEMMA StartKeeps ==
    ASSUME DataInv, Start
    PROVE  DataInv'
<1> USE DEF DataInv, Start, generator, dma, isr, signals, checker, pace
<1>1. Done' = Done /\ Prev' = Prev /\ Short' = Short /\ FrameEndsIn' = FrameEndsIn /\ Ends' = Ends
    BY DEF Done, Prev, Short, FrameEndsIn, Ends
<1>2. NextWord' = NextWord /\ FirstWord' = FirstWord /\ FirstToRead' = FirstToRead
    BY <1>1 DEF NextWord, FirstWord, FirstToRead
<1>3. Filled'
    BY <1>1 DEF Filled, Steady
<1>4. AtBuffer' /\ CurrentCounts' /\ Signalled'
    BY <1>1, <1>2 DEF AtBuffer, CurrentCounts, Signalled, Told, Quiet
<1>5. PreviousCounts' /\ BufferCounts' /\ LastRead'
    BY <1>1, <1>2 DEF PreviousCounts, BufferCounts, Counts, LastRead
<1> QED
    BY <1>3, <1>4, <1>5

-----------------------------------------------------------------------------
(* The reader *)

\* Buffers are counted by numbers.
LEMMA DoneIsNumber == ASSUME Shapes PROVE Done \in Nat
BY DmaAssumption DEF Done, Shapes

\* What the DMA has to do does not change while only Done does, downwards.
LEMMA ReaderKeepsStream ==
    ASSUME Shapes, Filled \/ Steady, UNCHANGED << generator, dma >>,
           NEW done \in Nat, Done' = done, done <= Done, done = 0 <=> Done = 0
    PROVE  (Filled \/ Steady)'
<1> USE DEF generator, dma
<1>1. Short' = Short /\ FrameEndsIn' = FrameEndsIn /\ Ends' = Ends
    BY DEF Short, FrameEndsIn, Ends
<1>2. ToGo' = ToGo
    BY <1>1 DEF ToGo
<1>3. Done \in Nat
    BY DoneIsNumber
<1>4. done * W <= Done * W
    BY <1>3, WordsFacts
<1>5. /\ Done * W \in Int /\ done * W \in Int /\ word \in Int /\ Len(fifo) \in Int
      /\ Short \in Int /\ FifoDepth \in Int
    BY <1>3, WordsFacts, DmaAssumption DEF Shapes, Short
<1>6. Filled => Filled'
    <2> SUFFICES ASSUME Filled PROVE Filled'
        OBVIOUS
    <2>1. done * W + word + Len(fifo) <= FifoDepth + 1 - Short
        BY <1>4, <1>5 DEF Filled
    <2> QED
        BY <1>1, <2>1 DEF Filled
<1>7. Steady => Steady'
    <2> SUFFICES ASSUME Steady PROVE Steady'
        OBVIOUS
    <2>1. word + ToGo > W => done + 2 <= WarmUp
        BY <1>3, DmaAssumption DEF Steady
    <2>2. word + ToGo < W => done + 1 <= WarmUp
        BY <1>3, DmaAssumption DEF Steady
    <2> QED
        BY <1>1, <1>2, <2>1, <2>2 DEF Steady
<1> QED
    BY <1>6, <1>7

\* A step of the reader before it takes the buffer.
LEMMA FlagKeeps ==
    ASSUME Shapes, Shapes', DataInv, SeeFlag \/ ClearFlag
    PROVE  DataInv'
<1> USE DEF DataInv, generator, dma, isr, pace
<1>1. /\ UNCHANGED << generator, dma, irqStatus, pending, isr, program, buffer, index, temp1,
                      intr_count, data_error, pace >>
      /\ reader # "read" /\ reader' # "read"
    BY DEF SeeFlag, ClearFlag
<1>2. Done' = Done /\ Prev' = Prev
    BY <1>1 DEF Done, Prev
<1>3. NextWord' = NextWord /\ FirstWord' = FirstWord /\ FirstToRead' = FirstToRead
    BY <1>1, <1>2 DEF NextWord, FirstWord, FirstToRead
<1>4. (Filled \/ Steady)'
    <2>1. Done \in Nat
        BY DoneIsNumber
    <2> QED
        BY <1>1, <1>2, <2>1, ReaderKeepsStream
<1>5. Signalled'
    <2>1. Told /\ completed = 1 /\ ~irqStatus
        BY DEF SeeFlag, ClearFlag, Signalled, Quiet
    <2>2. program = "zed"
        BY <2>1 DEF SeeFlag, ClearFlag, Told, Shapes
    <2>3. Told'
        BY <1>1, <1>2, <2>1, <2>2 DEF SeeFlag, ClearFlag, signals, Told
    <2> QED
        BY <1>1, <2>1, <2>3 DEF Signalled
<1>6. AtBuffer' /\ CurrentCounts'
    BY <1>1, <1>2, <1>3 DEF AtBuffer, CurrentCounts
<1>7. PreviousCounts' /\ BufferCounts' /\ LastRead'
    BY <1>1, <1>2, <1>3 DEF PreviousCounts, BufferCounts, Counts, LastRead
<1> QED
    BY <1>1, <1>4, <1>5, <1>6, <1>7

\* The reader takes the buffer that was completed last.
LEMMA TakeKeeps ==
    ASSUME Shapes, Shapes', DataInv, TakePointer \/ Receive
    PROVE  DataInv'
<1> USE DEF DataInv, generator, dma, isr
<1>1. /\ UNCHANGED << generator, dma, irqStatus, pending, isr, xdma_intr_detected, program, temp1,
                      intr_count, data_error, late >>
      /\ handler = "idle" /\ reader # "read" /\ reader' = "read" /\ index' = 0 /\ completed' = 0
    BY DEF TakePointer, Receive, signals
<1>2. Told /\ completed = 1 /\ ~irqStatus
    BY DEF TakePointer, Receive, Signalled, Quiet
<1>3. buffer' = Prev
    <2>1. CASE TakePointer
        BY <2>1, <1>2 DEF TakePointer, Told
    <2>2. CASE Receive
        <3>1. xDmaQueue = << Prev >>
            BY <2>2, <1>2 DEF Receive, Told
        <3> QED
            BY <2>2, <3>1 DEF Receive
    <2> QED
        BY <2>1, <2>2
<1>4. Done' = Done /\ Prev' = Prev
    BY <1>1, <1>2 DEF Done, Prev, Shapes
<1>5. NextWord' = NextWord /\ FirstWord' = FirstWord
      /\ FirstToRead = bufarray[Prev][0] /\ FirstToRead' = FirstWord
    BY <1>1, <1>2, <1>4 DEF NextWord, FirstWord, FirstToRead
<1>6. (Filled \/ Steady)'
    <2>1. Done \in Nat
        BY DoneIsNumber
    <2> QED
        BY <1>1, <1>4, <2>1, ReaderKeepsStream
<1>7. Signalled'
    <2>1. Quiet'
        BY <1>1, <1>2 DEF TakePointer, Receive, signals, Told, Quiet, Shapes
    <2> QED
        BY <1>1, <1>2, <2>1 DEF Told, Signalled
<1>8. AtBuffer' /\ CurrentCounts'
    BY <1>1, <1>3, <1>4, <1>5 DEF AtBuffer, CurrentCounts
<1>9. PreviousCounts'
    BY <1>1, <1>4, <1>5 DEF PreviousCounts, Counts
<1>10. BufferCounts'
    <2>1. intr_count >= WarmUp => Done > WarmUp
        BY <1>2, <1>1, DmaAssumption DEF Done, Shapes
    <2> QED
        BY <1>1, <1>3, <1>4, <1>5, <2>1 DEF PreviousCounts, BufferCounts, Counts
<1>11. LastRead'
    BY <1>1, <1>3, <1>5 DEF LastRead
<1> QED
    BY <1>1, <1>6, <1>7, <1>8, <1>9, <1>10, <1>11

LEMMA ReadKeeps ==
    ASSUME Shapes, Shapes', DataInv, ReadWord
    PROVE  DataInv'
<1> USE DEF DataInv, generator, dma, isr, signals, pace
<1>1. /\ UNCHANGED << generator, dma, irqStatus, pending, isr, signals, program, reader, buffer,
                      intr_count, pace >>
      /\ reader = "read" /\ handler = "idle" /\ index' = index + 1
      /\ temp1' = bufarray[buffer][index]
    BY DEF ReadWord
<1>2. index \in 0 .. frame_size /\ index' - 1 = index /\ index' > 0
    BY <1>1, WordsFacts DEF ReadWord, WordsRead, W, WordsPerBuffer, Shapes
<1>3. Done' = Done /\ Prev' = Prev
    BY <1>1 DEF Done, Prev
<1>4. NextWord' = NextWord /\ FirstWord' = FirstWord /\ FirstToRead' = FirstToRead
    BY <1>1, <1>3 DEF NextWord, FirstWord, FirstToRead
<1>5. (Filled \/ Steady)'
    <2>1. Done \in Nat
        BY DoneIsNumber
    <2> QED
        BY <1>1, <1>3, <2>1, ReaderKeepsStream
<1>6. Signalled' /\ AtBuffer' /\ CurrentCounts'
    BY <1>1, <1>3, <1>4 DEF Signalled, Told, Quiet, AtBuffer, CurrentCounts
<1>7. PreviousCounts' /\ BufferCounts'
    BY <1>1, <1>3, <1>4 DEF PreviousCounts, BufferCounts, Counts
<1>8. LastRead'
    BY <1>1, <1>2 DEF LastRead
<1>9. ~data_error'
    <2>1. SUFFICES ASSUME intr_count > WarmUp, program = "uzed" => index > 0
                   PROVE  temp1' = After(temp1)
        BY DEF ReadWord
    <2>2. Counts(buffer)
        BY <1>1, <2>1, DmaAssumption DEF BufferCounts, Shapes
    <2>3. CASE index > 0
        <3>1. index - 1 \in 0 .. frame_size - 1 /\ (index - 1) + 1 = index
            BY <1>2, <2>3, WordsFacts
        <3>2. bufarray[buffer][(index - 1) + 1] = After(bufarray[buffer][index - 1])
            BY <2>2, <3>1 DEF Counts
        <3> QED
            BY <1>1, <2>3, <3>1, <3>2 DEF LastRead
    <2>4. CASE index = 0
        BY <1>1, <2>1, <2>4 DEF LastRead, Shapes
    <2> QED
        BY <1>2, <2>3, <2>4
<1> QED
    BY <1>5, <1>6, <1>7, <1>8, <1>9

LEMMA PassKeeps ==
    ASSUME Shapes, Shapes', DataInv, EndPass
    PROVE  DataInv'
<1> USE DEF DataInv, generator, dma, isr, signals, pace
<1>1. /\ UNCHANGED << generator, dma, irqStatus, pending, isr, signals, program, buffer, index, temp1,
                      data_error, pace >>
      /\ reader = "read" /\ handler = "idle" /\ reader' = "wait"
      /\ intr_count' = IF intr_count > WarmUp THEN intr_count ELSE intr_count + 1
    BY DEF EndPass
<1>2. PICK done \in Nat : Done' = done /\ done <= Done /\ Done > 0 /\ done > 0
    <2>1. Done = intr_count + 1 + completed
        BY <1>1 DEF Done
    <2>2. Done' = (IF intr_count > WarmUp THEN intr_count ELSE intr_count + 1) + completed
        BY <1>1, DmaAssumption DEF Done, Shapes
    <2> DEFINE n == (IF intr_count > WarmUp THEN intr_count ELSE intr_count + 1) + completed
    <2>3. n \in Nat /\ n <= Done /\ Done > 0 /\ n > 0
        BY <2>1, DmaAssumption DEF Shapes
    <2> HIDE DEF n
    <2> QED
        BY <2>2, <2>3 DEF n
<1>3. Prev' = Prev
    BY <1>1 DEF Prev
<1>4. NextWord' = NextWord /\ FirstWord' = FirstWord /\ FirstToRead' = FirstToRead
    BY <1>1, <1>3 DEF NextWord, FirstWord, FirstToRead
<1>5. (Filled \/ Steady)'
    <2>1. done = 0 <=> Done = 0
        BY <1>2, DoneIsNumber
    <2> QED
        BY <1>1, <1>2, <2>1, ReaderKeepsStream
<1>6. Signalled'
    BY <1>1, <1>3 DEF Signalled, Told, Quiet
<1>7. (Done' >= WarmUp => Done >= WarmUp) /\ (Done' > WarmUp => Done > WarmUp)
    BY <1>2, DoneIsNumber, DmaAssumption
<1>8. AtBuffer' /\ CurrentCounts' /\ PreviousCounts' /\ BufferCounts'
    BY <1>1, <1>3, <1>4, <1>7 DEF AtBuffer, CurrentCounts, PreviousCounts, BufferCounts, Counts
<1>9. LastRead'
    <2>1. SUFFICES ASSUME program = "zed", intr_count' > WarmUp
                   PROVE  FirstToRead = After(temp1)
        BY <1>1, <1>4 DEF LastRead
    <2>2. index = W /\ index - 1 = frame_size /\ index > 0
        BY <2>1, WordsFacts DEF EndPass, WordsRead, W
    <2>3. temp1 = bufarray[buffer][frame_size]
        BY <1>1, <2>2 DEF LastRead
    <2>4. intr_count >= WarmUp
        BY <1>1, <2>1, DmaAssumption DEF Shapes
    <2> QED
        BY <1>1, <2>3, <2>4 DEF BufferCounts
<1> QED
    BY <1>1, <1>5, <1>6, <1>7, <1>8, <1>9

-----------------------------------------------------------------------------
(* The generator *)

\* As many buffers as fit.
LEMMA FewBuffers ==
    ASSUME NEW d \in Nat, NEW r \in Nat, NEW w \in Nat, w >= 2, NEW v \in Int, d * w + r <= v * w
    PROVE  d <= v /\ (d = v => r = 0)
<1>1. CASE d > v
    <2>1. PICK k \in Nat : d = v + 1 + k
        <3> DEFINE k == d - v - 1
        <3>1. k \in Nat /\ d = v + 1 + k
            BY <1>1
        <3> HIDE DEF k
        <3> QED
            BY <3>1
    <2>2. d * w = v * w + w + k * w
        BY <2>1
    <2>3. k * w \in Nat /\ v * w \in Int
        OBVIOUS
    <2> QED
        BY <2>2, <2>3
<1>2. CASE d <= v
    <2>1. d * w \in Int
        OBVIOUS
    <2> QED
        BY <1>2, <2>1
<1> QED
    BY <1>1, <1>2

LEMMA FilledSmall ==
    ASSUME WarmEnough, Shapes, Filled
    PROVE  /\ fifo # << >> => Done + 2 <= WarmUp
           /\ Done + 1 <= WarmUp
           /\ fifo = << >> /\ word > 0 => Done + 2 <= WarmUp
<1>1. Done \in Nat /\ WarmUp \in Nat /\ WarmUp - 1 \in Int /\ FifoDepth \in Nat
    BY DoneIsNumber, DmaAssumption
<1>2. /\ word \in Nat /\ Len(fifo) \in Nat /\ word + Len(fifo) \in Nat /\ Short \in Nat
      /\ fifo # << >> => Len(fifo) > 0
    BY HeadAndTail, DmaAssumption DEF Shapes, Short
<1>3. Done * W + (word + Len(fifo)) <= (WarmUp - 1) * W
    <2>1. (WarmUp - 1) * W \in Int /\ Done * W \in Int
        BY <1>1, WordsFacts
    <2> QED
        BY <1>1, <1>2, <2>1 DEF Filled, WarmEnough
<1>4. Done <= WarmUp - 1 /\ (Done = WarmUp - 1 => word + Len(fifo) = 0)
    BY <1>1, <1>2, <1>3, WordsFacts, FewBuffers
<1> QED
    BY <1>1, <1>2, <1>4

LEMMA FrameEndsInFacts ==
    ASSUME Shapes
    PROVE  FrameEndsIn \in 1 .. W /\ (FrameEndsIn = 1 <=> count = 1)
BY WordsFacts DEF Shapes, FrameEndsIn

\* When all that had waited is with the DMA the words go on one by one.
LEMMA FilledThenSteady ==
    ASSUME WarmEnough, Shapes, Filled, running, fifo = << >>
    PROVE  Steady
<1>1. ToGo = FrameEndsIn /\ FrameEndsIn \in 1 .. W
    BY FrameEndsInFacts DEF ToGo
<1>2. word \in Nat /\ W \in Nat /\ Done \in Nat /\ WarmUp \in Nat
    BY WordsFacts, DoneIsNumber, DmaAssumption DEF Shapes
<1>3. word + ToGo > W => Done + 2 <= WarmUp
    BY <1>1, <1>2, FilledSmall
<1>4. Done + 1 <= WarmUp
    BY FilledSmall
<1> QED
    BY <1>1, <1>3, <1>4 DEF Steady

\* A word more in the FIFO, the last one of its frame or not.
LEMMA FrameGrows ==
    ASSUME NEW n \in Nat, NEW E \in SUBSET (1 .. n), NEW next \in Nat, next > n, NEW w \in Nat, w >= 2,
           \A p \in E : 1 + p >= w,
           w - 1 \in 1 .. n => w - 1 \in E,
           \A p, q \in E : p < q => p + w <= q,
           \A p \in E : p + w \in 1 .. n => p + w \in E,
           next = w - 1 \/ next - w \in E,
           next >= w - 1,
           \A p \in E : p + w <= next,
           NEW F, F = IF next = n + 1 THEN E \cup {n + 1} ELSE E,
           NEW later, later = IF next = n + 1 THEN next + w ELSE next
    PROVE  /\ \A p \in F : 1 + p >= w
           /\ w - 1 \in 1 .. n + 1 => w - 1 \in F
           /\ \A p, q \in F : p < q => p + w <= q
           /\ \A p \in F : p + w \in 1 .. n + 1 => p + w \in F
           /\ later = w - 1 \/ later - w \in F
           /\ later >= w - 1
           /\ \A p \in F : p + w <= later
<1>1. CASE next = n + 1
    BY <1>1
<1>2. CASE next # n + 1
    BY <1>2
<1> QED
    BY <1>1, <1>2

LEMMA GenerateKeeps ==
    ASSUME WarmEnough, Shapes, Shapes', DataInv, Generate
    PROVE  DataInv'
<1> USE DmaAssumption, WordsFacts DEF DataInv, dma, isr, signals, checker, pace
<1> DEFINE w == [data |-> After(tdata), tlast |-> count = 1]
<1>1. /\ UNCHANGED << dma, irqStatus, pending, isr, signals, program, checker, pace >>
      /\ running => fifo = << >>
      /\ fifo' = IF Len(fifo) < FifoDepth THEN Append(fifo, w) ELSE fifo
      /\ tdata' = IF fifo = << >> THEN After(tdata) ELSE tdata
      /\ count' = IF count = 0 THEN frame_size ELSE count - 1
    BY DEF Generate
<1>2. Done' = Done /\ Prev' = Prev /\ Short' = Short
    BY <1>1 DEF Done, Prev, Short
<1>3. /\ Len(fifo) \in Nat /\ Len(Append(fifo, w)) = Len(fifo) + 1
      /\ Append(fifo, w)[Len(fifo) + 1] = w
      /\ \A p \in 1 .. Len(fifo) : Append(fifo, w)[p] = fifo[p]
      /\ DOMAIN fifo = 1 .. Len(fifo) /\ DOMAIN Append(fifo, w) = 1 .. Len(fifo) + 1
      /\ fifo = << >> <=> Len(fifo) = 0
    BY DEF Shapes
<1>4. fifo' # << >>
    BY <1>1, <1>3
<1>5. NextWord' = NextWord
    BY <1>1, <1>4 DEF NextWord
<1>6. FirstWord' = FirstWord /\ FirstToRead' = FirstToRead
    BY <1>1, <1>2, <1>5 DEF FirstWord, FirstToRead
<1>7. Signalled' /\ AtBuffer' /\ CurrentCounts'
    BY <1>1, <1>2, <1>5 DEF Signalled, Told, Quiet, AtBuffer, CurrentCounts
<1>8. PreviousCounts' /\ BufferCounts' /\ LastRead'
    BY <1>1, <1>2, <1>6 DEF PreviousCounts, BufferCounts, Counts, LastRead
<1>9. FrameEndsIn' = IF count = 1 THEN W ELSE FrameEndsIn - 1
    BY <1>1 DEF FrameEndsIn, Shapes
<1>10. w.data = After(tdata) /\ (w.tlast <=> count = 1)
    OBVIOUS
<1> HIDE DEF w
<1>11. CASE running
    <2>1. Steady
        BY <1>1, <1>11, FilledThenSteady
    <2>2. Len(fifo) = 0 /\ fifo' = Append(fifo, w) /\ Len(fifo') = 1 /\ fifo'[1] = w
        BY <1>1, <1>3, <1>11
    <2>3. ToGo' = ToGo
        <3>1. ToGo' = IF count = 1 THEN 1 ELSE 1 + FrameEndsIn'
            BY <1>4, <1>10, <2>2 DEF ToGo
        <3>2. ToGo = FrameEndsIn
            BY <1>1, <1>11 DEF ToGo
        <3> QED
            BY <1>9, <3>1, <3>2, FrameEndsInFacts
    <2>4. fifo'[1].data = tdata' /\ (fifo'[1].tlast => FrameEndsIn' = W)
        BY <1>1, <1>10, <1>9, <1>11, <2>2
    <2>5. Steady'
        BY <1>1, <1>2, <2>1, <2>2, <2>3, <2>4 DEF Steady
    <2> QED
        BY <1>1, <1>7, <1>8, <2>5
<1>12. CASE ~running
    <2>1. Filled /\ word = 0 /\ Done = 0 /\ Short = 1
        BY <1>12 DEF Filled, Steady, Short
    <2>2. CASE Len(fifo) < FifoDepth
        <3> DEFINE next == Len(fifo) + FrameEndsIn
        <3>1. fifo' = Append(fifo, w) /\ DOMAIN fifo' = 1 .. Len(fifo) + 1 /\ Len(fifo') = Len(fifo) + 1
            BY <1>1, <1>3, <2>2
        <3>2. /\ Ends \in SUBSET (1 .. Len(fifo)) /\ next \in Nat /\ next > Len(fifo)
              /\ next = Len(fifo) + 1 <=> count = 1
            BY <1>3, FrameEndsInFacts DEF Ends
        <3>3. Ends' = IF next = Len(fifo) + 1 THEN Ends \cup {Len(fifo) + 1} ELSE Ends
            <4>1. /\ Ends' = {p \in 1 .. Len(fifo) + 1 : Append(fifo, w)[p].tlast}
                  /\ Ends = {p \in 1 .. Len(fifo) : fifo[p].tlast}
                BY <1>3, <3>1 DEF Ends
            <4>2. Append(fifo, w)[Len(fifo) + 1].tlast <=> next = Len(fifo) + 1
                BY <1>3, <1>10, <3>2
            <4> HIDE DEF next
            <4> QED
                BY <1>3, <4>1, <4>2
        <3>4. (Len(fifo) + FrameEndsIn)' = IF next = Len(fifo) + 1 THEN next + W ELSE next
            BY <1>9, <3>1, <3>2, FrameEndsInFacts
        <3>5. /\ \A p \in Ends : 1 + p >= W
              /\ W - 1 \in 1 .. Len(fifo) => W - 1 \in Ends
              /\ \A p, q \in Ends : p < q => p + W <= q
              /\ \A p \in Ends : p + W \in 1 .. Len(fifo) => p + W \in Ends
              /\ next = W - 1 \/ next - W \in Ends
              /\ next >= W - 1
              /\ \A p \in Ends : p + W <= next
            BY <1>3, <1>12, <2>1, <2>2 DEF Filled
        <3> DEFINE after == Len(fifo') + FrameEndsIn'
        <3> HIDE DEF next
        <3>6. /\ \A p \in Ends' : 1 + p >= W
              /\ W - 1 \in 1 .. Len(fifo) + 1 => W - 1 \in Ends'
              /\ \A p, q \in Ends' : p < q => p + W <= q
              /\ \A p \in Ends' : p + W \in 1 .. Len(fifo) + 1 => p + W \in Ends'
              /\ after = W - 1 \/ after - W \in Ends'
              /\ after >= W - 1
              /\ \A p \in Ends' : p + W <= after
            BY <1>3, <3>2, <3>3, <3>4, <3>5, FrameGrows
        <3>7. word' = 0 /\ Done' = 0 /\ Short' = 1 /\ Done' * W = 0
            BY <1>1, <1>2, <2>1
        <3>8. Done' * W + word' + Len(fifo') <= FifoDepth + 1 - Short'
            BY <1>3, <2>2, <3>1, <3>7
        <3>9. Filled'
            BY <3>1, <3>6, <3>7, <3>8 DEF Filled
        <3> QED
            BY <1>1, <1>7, <1>8, <3>9
    <2>3. CASE ~ (Len(fifo) < FifoDepth)
        <3>1. fifo' = fifo
            BY <1>1, <2>3
        <3>2. Ends' = Ends
            BY <3>1 DEF Ends
        <3>3. Filled'
            BY <1>1, <1>2, <2>1, <2>3, <3>1, <3>2 DEF Filled
        <3> QED
            BY <1>1, <1>7, <1>8, <3>3
    <2> QED
        BY <2>2, <2>3
<1> QED
    BY <1>11, <1>12 DEF Shapes

-----------------------------------------------------------------------------
(* The DMA *)

\* A word less in the FIFO, and one more in a buffer that has m of a frame.
LEMMA FrameShrinks ==
    ASSUME NEW n \in Nat, n > 0, NEW E \in SUBSET (1 .. n), NEW m \in Nat, NEW w \in Nat, w >= 2, m < w,
           \A p \in E : m + p >= w,
           w - m \in 1 .. n => w - m \in E,
           \A p, q \in E : p < q => p + w <= q,
           \A p \in E : p + w \in 1 .. n => p + w \in E,
           NEW F, F = {p \in 1 .. n - 1 : p + 1 \in E}
    PROVE  /\ 1 \in E <=> m = w - 1
           /\ 1 \notin E =>
                 /\ m + 1 < w
                 /\ \A p \in F : m + 1 + p >= w
                 /\ w - (m + 1) \in 1 .. n - 1 => w - (m + 1) \in F
           /\ 1 \in E =>
                 /\ \A p \in F : p >= w
                 /\ w \in 1 .. n - 1 => w \in F
           /\ \A p, q \in F : p < q => p + w <= q
           /\ \A p \in F : p + w \in 1 .. n - 1 => p + w \in F
<1>1. 1 \in E <=> m = w - 1
    OBVIOUS
<1>2. \A p \in F : p + 1 \in E /\ p \in 1 .. n - 1
    OBVIOUS
<1>3. 1 \notin E =>
         /\ m + 1 < w
         /\ \A p \in F : m + 1 + p >= w
         /\ w - (m + 1) \in 1 .. n - 1 => w - (m + 1) \in F
    BY <1>1, <1>2
<1>4. 1 \in E => \A p \in F : p >= w
    BY <1>2
<1>5. 1 \in E /\ w \in 1 .. n - 1 => w \in F
    <2> SUFFICES ASSUME 1 \in E, w \in 1 .. n - 1 PROVE w \in F
        OBVIOUS
    <2>1. 1 + w \in E
        OBVIOUS
    <2> QED
        BY <2>1
<1>6. \A p, q \in F : p < q => p + w <= q
    BY <1>2
<1>7. ASSUME NEW p \in F, p + w \in 1 .. n - 1 PROVE p + w \in F
    <2>1. (p + 1) + w \in E
        BY <1>2, <1>7
    <2> QED
        BY <1>2, <1>7, <2>1
<1> QED
    BY <1>1, <1>3, <1>4, <1>5, <1>6, <1>7

\* What a transfer changes.
LEMMA TransferFacts ==
    ASSUME Shapes, Transfer
    PROVE  /\ fifo # << >> /\ fifo' = Tail(fifo) /\ running' = running /\ count' = count
           /\ Len(fifo) \in Nat /\ Len(fifo) > 0 /\ Len(fifo') = Len(fifo) - 1
           /\ Ends \in SUBSET (1 .. Len(fifo)) /\ (1 \in Ends <=> Head(fifo).tlast)
           /\ Ends' = {p \in 1 .. Len(fifo) - 1 : p + 1 \in Ends}
           /\ DOMAIN fifo = 1 .. Len(fifo) /\ DOMAIN fifo' = 1 .. Len(fifo) - 1
           /\ EndsBuffer(Head(fifo)) <=> 1 \in Ends \/ word = frame_size
           /\ FrameEndsIn' = FrameEndsIn
<1>1. fifo # << >> /\ fifo' = Tail(fifo) /\ running' = running /\ count' = count
    BY DEF Transfer
<1>2. /\ Len(fifo) \in Nat /\ Len(fifo) >= 1 /\ Head(fifo) = fifo[1] /\ Len(Tail(fifo)) = Len(fifo) - 1
      /\ \A p \in 1 .. Len(fifo) - 1 : Tail(fifo)[p] = fifo[p + 1]
      /\ Tail(fifo) \in Seq([data : Word, tlast : BOOLEAN])
    BY <1>1, HeadAndTail DEF Shapes
<1>3. DOMAIN fifo = 1 .. Len(fifo) /\ DOMAIN Tail(fifo) = 1 .. Len(fifo) - 1
    BY <1>2 DEF Shapes
<1>4. Ends = {p \in 1 .. Len(fifo) : fifo[p].tlast}
    BY <1>3 DEF Ends
<1>5. Ends' = {p \in 1 .. Len(fifo) - 1 : fifo[p + 1].tlast}
    BY <1>1, <1>2, <1>3 DEF Ends
<1>6. \A p \in 1 .. Len(fifo) - 1 : p + 1 \in 1 .. Len(fifo)
    BY <1>2
<1>7. Ends' = {p \in 1 .. Len(fifo) - 1 : p + 1 \in Ends}
    BY <1>4, <1>5, <1>6
<1>8. 1 \in Ends <=> Head(fifo).tlast
    BY <1>2, <1>4
<1> QED
    BY <1>1, <1>2, <1>3, <1>4, <1>7, <1>8 DEF EndsBuffer, FrameEndsIn

\* Done counts what is completed.
LEMMA TransferDone ==
    ASSUME Shapes, Transfer
    PROVE  /\ EndsBuffer(Head(fifo)) => Done' = Done + 1 /\ Short' = 0
           /\ ~EndsBuffer(Head(fifo)) => Done' = Done /\ Short' = Short
<1>1. reader' = reader /\ intr_count' = intr_count
    BY DEF Transfer, checker
<1>2. intr_count \in Nat /\ completed \in Nat
    BY DmaAssumption DEF Shapes
<1>3. CASE EndsBuffer(Head(fifo))
    <2>1. completed' = completed + 1
        BY <1>3 DEF Transfer
    <2>2. Done' = Done + 1
        BY <1>1, <1>2, <2>1 DEF Done
    <2>3. Done + 1 # 0
        BY DoneIsNumber
    <2> QED
        BY <1>3, <2>2, <2>3 DEF Short
<1>4. CASE ~EndsBuffer(Head(fifo))
    <2>1. completed' = completed
        BY <1>4 DEF Transfer, pace
    <2> QED
        BY <1>1, <1>4, <2>1 DEF Done, Short
<1> QED
    BY <1>3, <1>4

LEMMA TransferKeepsFilled ==
    ASSUME Shapes, Filled, Transfer
    PROVE  Filled'
<1> USE DmaAssumption, WordsFacts
<1>1. running'
    BY DEF Transfer
<1>2. /\ word \in Nat /\ word <= frame_size /\ Short \in {0, 1} /\ Done \in Nat /\ Done * W \in Nat
      /\ FifoDepth \in Nat
    BY DoneIsNumber DEF Shapes, Short
<1>3. /\ Len(fifo) \in Nat /\ Len(fifo) > 0 /\ Len(fifo') = Len(fifo) - 1
      /\ Ends \in SUBSET (1 .. Len(fifo))
      /\ Ends' = {p \in 1 .. Len(fifo) - 1 : p + 1 \in Ends}
      /\ DOMAIN fifo = 1 .. Len(fifo) /\ DOMAIN fifo' = 1 .. Len(fifo) - 1
      /\ EndsBuffer(Head(fifo)) <=> 1 \in Ends \/ word = frame_size
    BY TransferFacts
<1> DEFINE m == word + Short
<1>4. /\ m \in Nat /\ m < W
      /\ \A p \in Ends : m + p >= W
      /\ W - m \in 1 .. Len(fifo) => W - m \in Ends
      /\ \A p, q \in Ends : p < q => p + W <= q
      /\ \A p \in Ends : p + W \in 1 .. Len(fifo) => p + W \in Ends
    <2>1. W - Short - word = W - m
        BY <1>2
    <2> QED
        BY <1>2, <1>3, <2>1 DEF Filled
<1> HIDE DEF m
<1>5. /\ 1 \in Ends <=> m = W - 1
      /\ 1 \notin Ends =>
            /\ m + 1 < W
            /\ \A p \in Ends' : m + 1 + p >= W
            /\ W - (m + 1) \in 1 .. Len(fifo) - 1 => W - (m + 1) \in Ends'
      /\ 1 \in Ends =>
            /\ \A p \in Ends' : p >= W
            /\ W \in 1 .. Len(fifo) - 1 => W \in Ends'
      /\ \A p, q \in Ends' : p < q => p + W <= q
      /\ \A p \in Ends' : p + W \in 1 .. Len(fifo) - 1 => p + W \in Ends'
    BY <1>3, <1>4, FrameShrinks
<1>6. EndsBuffer(Head(fifo)) <=> 1 \in Ends
    BY <1>2, <1>3, <1>4, <1>5 DEF m
<1>7. CASE 1 \in Ends
    <2>1. Done' = Done + 1 /\ Short' = 0 /\ word' = 0
        BY <1>6, <1>7, TransferDone DEF Transfer
    <2>2. (Done + 1) * W = Done * W + W
        BY <1>2
    <2>3. Done' * W + word' + Len(fifo') <= FifoDepth + 1 - Short'
        BY <1>2, <1>3, <1>5, <1>7, <2>1, <2>2 DEF m, Filled
    <2>4. word' + Short' < W /\ (\A p \in Ends' : word' + Short' + p >= W) /\ W - Short' - word' = W
        BY <1>3, <1>5, <1>7, <2>1
    <2> QED
        BY <1>1, <1>3, <1>5, <1>7, <2>3, <2>4 DEF Filled
<1>8. CASE 1 \notin Ends
    <2>1. Done' = Done /\ Short' = Short /\ word' = word + 1
        BY <1>6, <1>8, TransferDone DEF Transfer
    <2>2. word' + Short' = m + 1 /\ W - Short' - word' = W - (m + 1)
        BY <1>2, <2>1 DEF m
    <2>3. Done' * W + word' + Len(fifo') <= FifoDepth + 1 - Short'
        BY <1>2, <1>3, <2>1 DEF Filled
    <2> QED
        BY <1>1, <1>3, <1>5, <1>8, <2>2, <2>3 DEF Filled
<1> QED
    BY <1>7, <1>8

LEMMA TransferKeepsSteady ==
    ASSUME Shapes, Steady, Transfer
    PROVE  Steady'
<1> USE DmaAssumption, WordsFacts
<1>1. /\ running' = running /\ fifo # << >> /\ Len(fifo') = 0 /\ fifo' = << >>
      /\ EndsBuffer(Head(fifo)) <=> fifo[1].tlast \/ word = frame_size
    <2>1. /\ fifo # << >> /\ running' = running /\ Len(fifo) \in Nat /\ Len(fifo) > 0
          /\ Len(fifo') = Len(fifo) - 1 /\ fifo' = Tail(fifo)
        BY TransferFacts
    <2>2. Len(fifo') = 0
        BY <2>1 DEF Steady
    <2>3. Tail(fifo) \in Seq([data : Word, tlast : BOOLEAN]) /\ Head(fifo) = fifo[1]
        BY <2>1, HeadAndTail DEF Shapes
    <2>4. fifo' = << >>
        BY <2>1, <2>2, <2>3
    <2> QED
        BY <2>1, <2>2, <2>3, <2>4 DEF EndsBuffer
<1>2. ToGo' = FrameEndsIn /\ FrameEndsIn \in 1 .. W
    BY <1>1, TransferFacts, FrameEndsInFacts DEF ToGo
<1>3. ToGo = IF fifo[1].tlast THEN 1 ELSE 1 + FrameEndsIn
    BY <1>1 DEF ToGo
<1>4. word \in Nat /\ word <= frame_size /\ Done \in Nat /\ WarmUp \in Nat
    BY DoneIsNumber DEF Shapes
<1>5. CASE EndsBuffer(Head(fifo))
    <2>1. Done' = Done + 1 /\ word' = 0
        BY <1>5, TransferDone DEF Transfer
    <2>2. fifo[1].tlast => FrameEndsIn = W
        BY <1>1 DEF Steady
    <2>3. ~fifo[1].tlast => Done + 2 <= WarmUp
        BY <1>1, <1>2, <1>3, <1>4, <1>5 DEF Steady
    <2> QED
        BY <1>1, <1>2, <1>4, <2>1, <2>2, <2>3 DEF Steady
<1>6. CASE ~EndsBuffer(Head(fifo))
    <2>1. Done' = Done /\ word' = word + 1
        BY <1>6, TransferDone DEF Transfer
    <2>2. word' + ToGo' = word + ToGo
        BY <1>1, <1>2, <1>3, <1>4, <1>6, <2>1
    <2> QED
        BY <1>1, <1>2, <1>4, <2>1, <2>2 DEF Steady
<1> QED
    BY <1>5, <1>6

\* Once the first buffers are over a buffer ends exactly when it is full, and the
\* word that goes to the DMA is the one that is the output of the FIFO.
LEMMA TransferAligned ==
    ASSUME WarmEnough, Shapes, Filled \/ Steady, Transfer, Done >= WarmUp
    PROVE  /\ EndsBuffer(Head(fifo)) <=> word = frame_size
           /\ NextWord = Head(fifo).data /\ NextWord' = After(NextWord)
<1> USE DmaAssumption, WordsFacts
<1>1. Done \in Nat /\ word \in Nat /\ word <= frame_size /\ WarmUp \in Nat
    BY DoneIsNumber DEF Shapes
<1>2. Steady
    BY <1>1, FilledSmall
<1>3. /\ fifo # << >> /\ Head(fifo) = fifo[1] /\ Tail(fifo) \in Seq([data : Word, tlast : BOOLEAN])
      /\ Len(Tail(fifo)) = Len(fifo) - 1 /\ Len(fifo) \in Nat /\ Len(fifo) >= 1 /\ fifo' = Tail(fifo)
    BY TransferFacts, HeadAndTail DEF Shapes
<1>4. fifo' = << >>
    BY <1>2, <1>3 DEF Steady
<1>5. tdata' = tdata
    BY <1>4 DEF Transfer
<1>6. word + ToGo = W
    <2>1. ToGo \in Nat
        BY <1>3, FrameEndsInFacts DEF ToGo
    <2> QED
        BY <1>1, <1>2, <2>1 DEF Steady
<1>7. fifo[1].tlast <=> word = frame_size
    BY <1>1, <1>3, <1>6, FrameEndsInFacts DEF ToGo
<1> QED
    BY <1>2, <1>3, <1>4, <1>5, <1>7 DEF Steady, EndsBuffer, NextWord

\* What was read, and what is to be read, is not written over.
LEMMA TransferKeepsData ==
    ASSUME WarmEnough, RingLongEnough, Shapes, DataInv, Transfer,
           EndsBuffer(Head(fifo)) => completed = 0
    PROVE  CurrentCounts' /\ PreviousCounts' /\ BufferCounts' /\ LastRead' /\ AtBuffer'
<1> USE DmaAssumption, WordsFacts DEF DataInv, checker
<1>1. /\ UNCHANGED << program, reader, buffer, index, temp1, intr_count >>
      /\ bufarray' = [bufarray EXCEPT ![currBd][word] = Head(fifo).data]
    BY DEF Transfer
<1>2. /\ \A b \in Ring : b # currBd => bufarray'[b] = bufarray[b]
      /\ \A i \in 0 .. frame_size : i # word => bufarray'[currBd][i] = bufarray[currBd][i]
      /\ bufarray'[currBd][word] = Head(fifo).data
    BY <1>1 DEF Shapes
<1>3. /\ currBd \in Ring /\ Prev \in Ring /\ Prev # currBd /\ XAxiDma_BdRingPrev(Prev) # currBd
      /\ XAxiDma_BdRingPrev(XAxiDma_BdRingNext(currBd)) = currBd
    BY RingFacts DEF Shapes, Prev
<1>4. reader = "read" => /\ buffer = IF completed = 0 THEN Prev ELSE XAxiDma_BdRingPrev(Prev)
                         /\ bufarray'[buffer] = bufarray[buffer]
    BY <1>2, <1>3 DEF AtBuffer, Shapes
<1>5. FirstToRead = IF completed = 0 THEN FirstWord ELSE bufarray[Prev][0]
    BY DEF FirstToRead
<1>6. /\ reader = "read" /\ intr_count >= WarmUp => Done > WarmUp
      /\ intr_count > WarmUp => Done > WarmUp
      /\ Done > WarmUp => Done >= WarmUp
    <2>1. intr_count \in Nat /\ completed \in Nat
        BY DEF Shapes
    <2> QED
        BY <2>1 DEF Done
<1>7. word \in Nat /\ word <= frame_size /\ Done \in Nat
    BY DoneIsNumber DEF Shapes
<1>8. CASE EndsBuffer(Head(fifo))
    <2>1. /\ Done' = Done + 1 /\ word' = 0 /\ currBd' = XAxiDma_BdRingNext(currBd) /\ completed' = 1
        BY <1>8, TransferDone DEF Transfer
    <2>2. Prev' = currBd
        BY <1>3, <2>1 DEF Prev
    <2>3. FirstToRead' = bufarray'[currBd][0] /\ FirstWord' = NextWord'
        BY <2>1, <2>2 DEF FirstToRead, FirstWord
    <2>4. Done >= WarmUp => FirstToRead' = FirstToRead
        <3> SUFFICES ASSUME Done >= WarmUp PROVE FirstToRead' = FirstToRead
            OBVIOUS
        <3>1. word = frame_size /\ word # 0
            BY <1>8, TransferAligned
        <3> QED
            BY <1>2, <1>5, <1>7, <1>8, <2>3, <3>1 DEF FirstWord
    <2>5. AtBuffer'
        BY <1>1, <1>4, <1>8, <2>1, <2>2 DEF AtBuffer, Prev
    <2>6. CurrentCounts'
        BY <2>1 DEF CurrentCounts
    <2>7. PreviousCounts'
        <3> SUFFICES ASSUME Done >= WarmUp PROVE PreviousCounts'
            BY <1>7, <2>1 DEF PreviousCounts
        <3>1. word = frame_size /\ NextWord = Head(fifo).data /\ NextWord' = After(NextWord)
            BY <1>8, TransferAligned
        <3>2. ASSUME NEW i \in 0 .. frame_size - 1
              PROVE  bufarray'[currBd][i + 1] = After(bufarray'[currBd][i])
            <4>1. i \in 0 .. frame_size /\ i + 1 \in 0 .. frame_size /\ i # word
                BY <3>1
            <4>2. CASE i + 1 < word
                BY <1>2, <4>1, <4>2 DEF CurrentCounts
            <4>3. CASE i + 1 = word
                <5>1. NextWord = After(bufarray[currBd][word - 1]) /\ word - 1 = i
                    BY <4>1, <4>3 DEF CurrentCounts
                <5> QED
                    BY <1>2, <3>1, <4>1, <4>3, <5>1
            <4> QED
                BY <3>1, <4>2, <4>3
        <3>3. \A i \in 0 .. frame_size - 1 : bufarray'[currBd][i + 1] = After(bufarray'[currBd][i])
            BY <3>2
        <3>4. NextWord' = After(bufarray'[currBd][frame_size])
            BY <1>2, <3>1
        <3> QED
            BY <2>2, <2>3, <3>3, <3>4 DEF PreviousCounts, Counts
    <2>8. BufferCounts'
        BY <1>1, <1>4, <1>6, <2>4 DEF BufferCounts, Counts
    <2>9. LastRead'
        BY <1>1, <1>4, <1>6, <2>4 DEF LastRead
    <2> QED
        BY <2>5, <2>6, <2>7, <2>8, <2>9
<1>9. CASE ~EndsBuffer(Head(fifo))
    <2>1. Done' = Done /\ word' = word + 1 /\ currBd' = currBd /\ completed' = completed
        BY <1>9, TransferDone DEF Transfer, pace
    <2>2. Prev' = Prev /\ bufarray'[Prev] = bufarray[Prev]
        BY <1>2, <1>3, <2>1 DEF Prev
    <2>3. Done >= WarmUp => FirstWord' = FirstWord
        <3> SUFFICES ASSUME Done >= WarmUp PROVE FirstWord' = FirstWord
            OBVIOUS
        <3>1. NextWord = Head(fifo).data
            BY TransferAligned
        <3>2. FirstWord' = bufarray'[currBd][0]
            BY <1>7, <2>1 DEF FirstWord
        <3> QED
            BY <1>2, <1>7, <3>1, <3>2 DEF FirstWord
    <2>4. Done >= WarmUp => FirstToRead' = FirstToRead
        BY <1>5, <2>1, <2>2, <2>3 DEF FirstToRead
    <2>5. AtBuffer'
        BY <1>1, <1>4, <2>1, <2>2 DEF AtBuffer
    <2>6. CurrentCounts'
        <3> SUFFICES ASSUME Done >= WarmUp PROVE CurrentCounts'
            BY <2>1 DEF CurrentCounts
        <3>1. NextWord = Head(fifo).data /\ NextWord' = After(NextWord)
            BY TransferAligned
        <3>2. ASSUME NEW i \in 0 .. frame_size, i + 1 < word + 1
              PROVE  bufarray'[currBd][i + 1] = After(bufarray'[currBd][i])
            <4>1. i # word /\ i + 1 \in 0 .. frame_size
                BY <1>7, <3>2
            <4>2. CASE i + 1 < word
                BY <1>2, <4>1, <4>2 DEF CurrentCounts
            <4>3. CASE i + 1 = word
                <5>1. NextWord = After(bufarray[currBd][word - 1]) /\ word - 1 = i
                    BY <4>1, <4>3 DEF CurrentCounts
                <5> QED
                    BY <1>2, <3>1, <4>1, <4>3, <5>1
            <4> QED
                BY <1>7, <3>2, <4>2, <4>3
        <3>3. NextWord' = After(bufarray'[currBd][word]) /\ word' - 1 = word
            BY <1>2, <1>7, <2>1, <3>1
        <3> QED
            BY <2>1, <3>2, <3>3 DEF CurrentCounts
    <2>7. PreviousCounts'
        BY <1>6, <2>1, <2>2, <2>3 DEF PreviousCounts, Counts
    <2>8. BufferCounts'
        BY <1>1, <1>4, <1>6, <2>4 DEF BufferCounts, Counts
    <2>9. LastRead'
        BY <1>1, <1>4, <1>6, <2>4 DEF LastRead
    <2> QED
        BY <2>5, <2>6, <2>7, <2>8, <2>9
<1> QED
    BY <1>8, <1>9

LEMMA TransferKeeps ==
    ASSUME WarmEnough, RingLongEnough, Shapes, DataInv, Transfer, ~late'
    PROVE  DataInv'
<1> USE DEF DataInv
<1>1. (Filled \/ Steady)'
    BY TransferKeepsFilled, TransferKeepsSteady
<1>2. ~data_error'
    BY DEF Transfer, checker
<1>3. /\ UNCHANGED << handler, BufReadyPtr, xdma_intr_detected, xDmaQueue, program, reader >>
      /\ UNCHANGED << running, ackStatus >>
    BY DEF Transfer, isr, signals, checker
<1>4. CASE EndsBuffer(Head(fifo))
    <2>1. completed' = completed + 1 /\ ~ (completed' > 1) /\ irqStatus' = TRUE /\ pending' = (pending \/ ~irqStatus)
        BY <1>4 DEF Transfer
    <2>2. completed = 0
        BY <2>1 DEF Shapes
    <2>3. handler = "idle" /\ ~irqStatus /\ Quiet
        BY <2>2 DEF Signalled
    <2>4. completed' = 1 /\ pending' /\ irqStatus' /\ handler' = "idle"
        <3>1. completed' = 1
            BY <2>1, <2>2
        <3>2. pending'
            BY <2>1, <2>3, Zenon
        <3> QED
            BY <1>3, <2>1, <2>3, <3>1, <3>2
    <2>5. Quiet'
        BY <1>3, <2>3 DEF Quiet
    <2>6. Signalled'
        BY <2>4, <2>5 DEF Signalled
    <2> QED
        BY <1>1, <1>2, <2>2, <2>6, TransferKeepsData
<1>5. CASE ~EndsBuffer(Head(fifo))
    <2>1. UNCHANGED << completed, currBd, irqStatus, pending >>
        BY <1>5 DEF Transfer, pace
    <2>2. Prev' = Prev
        BY <2>1 DEF Prev
    <2>3. Signalled'
        BY <1>3, <2>1, <2>2 DEF Signalled, Told, Quiet
    <2> QED
        BY <1>1, <1>2, <1>5, <2>3, TransferKeepsData
<1> QED
    BY <1>4, <1>5

-----------------------------------------------------------------------------
(* Theorems *)

LEMMA StepReaderInv ==
    ASSUME WarmEnough, RingLongEnough, ReaderInv, [Next]_vars
    PROVE  ReaderInv'
<1>1. EdgeInv' /\ Shapes'
    BY StepEdgeInv, StepShapes DEF ReaderInv
<1>2. SUFFICES ASSUME ~late' PROVE DataInv'
    BY <1>1 DEF ReaderInv
<1>3. ~late
    <2>1. CASE Transfer
        BY <1>2, <2>1 DEF Transfer, pace
    <2>2. CASE ~Transfer
        BY <1>2, <2>2 DEF Next, Generate, Handler, Enter, GetIrq, AckIrq, FindBuffer, Signal, Start,
           Reader, SeeFlag, ClearFlag, TakePointer, Receive, ReadWord, EndPass, pace, vars
    <2> QED
        BY <2>1, <2>2
<1>4. Shapes /\ DataInv
    BY <1>3 DEF ReaderInv
<1>5. CASE Generate
    BY <1>1, <1>4, <1>5, GenerateKeeps
<1>6. CASE Transfer
    BY <1>2, <1>4, <1>6, TransferKeeps
<1>7. CASE Handler
    BY <1>4, <1>7, HandlerKeeps
<1>8. CASE Start
    BY <1>4, <1>8, StartKeeps
<1>9. CASE Reader
    BY <1>1, <1>4, <1>9, FlagKeeps, TakeKeeps, ReadKeeps, PassKeeps DEF Reader
<1>10. CASE UNCHANGED vars
    <2>1. UNCHANGED << generator, dma, program, checker, pace >>
        BY <1>10 DEF vars
    <2>2. Signalled'
        BY <1>4, <1>10 DEF DataInv, Signalled, Told, Quiet, Prev, vars, isr, signals, dma, checker, pace
    <2> QED
        BY <1>4, <2>1, <2>2, HandlerKeepsData
<1> QED
    BY <1>5, <1>6, <1>7, <1>8, <1>9, <1>10 DEF Next

\* Whenever a buffer completes beside the handler, at whichever of its steps,
\* the edge is held or the handler is still to acknowledge it: the line never
\* stays high with nobody to be told.
THEOREM EdgeNeverLost == Spec => []NoLostEdge
<1>1. EdgeInv => NoLostEdge
    BY DEF EdgeInv
<1> QED
    BY <1>1, InitEdgeInv, StepEdgeInv, PTL DEF Spec

\* A reader that takes each buffer before the next is completed counts no false
\* error (the loop of main(), prvRxDmaTask()): after WarmUp passes it has read all
\* that had piled up in a FIFO of less than WarmUp - 1 buffers, and with a third
\* buffer in the ring the DMA never writes what is being read.
THEOREM NoFalseError ==
    ASSUME NUM_BD >= 3, FifoDepth < (WarmUp - 1) * WordsPerBuffer
    PROVE  Spec => []NoDataError
<1>1. WarmEnough /\ RingLongEnough
    BY DEF WarmEnough, RingLongEnough, W
<1>2. ReaderInv /\ [Next]_vars => ReaderInv'
    BY <1>1, StepReaderInv
<1>3. ReaderInv => NoDataError
    BY DEF ReaderInv, DataInv, NoDataError
<1> QED
    BY <1>2, <1>3, InitReaderInv, PTL DEF Spec

=============================================================================
