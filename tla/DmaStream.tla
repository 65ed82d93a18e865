----------------------------- MODULE DmaStream ------------------------------
(***************************************************************************)
(* The streaming path of zed_xdma and uzed_xdma: stream_gen.sv counts into *)
(* a FIFO, the AXI DMA writes the words round a ring of NUM_BD buffers and *)
(* raises an interrupt for each one it completes, xdma_handler() finds the *)
(* buffer that was completed, and either the loop in main() (zed, without  *)
(* an operating system) or prvRxDmaTask() (uzed, through xDmaQueue) reads  *)
(* it.                                                                     *)
(*                                                                         *)
(* Generator and DMA run beside the processor; on the processor the        *)
(* handler runs to its end before the reader goes on.  The FIFO, the DMA,  *)
(* the interrupt controller and the queue are external: they are modelled  *)
(* as these sources use them.                                              *)
(***************************************************************************)
EXTENDS Integers, Sequences

CONSTANTS
    NUM_BD,         \* buffers in the ring
    frame_size,     \* words in a frame, less one
    WordRange,      \* words count modulo WordRange (2^32 in the program)
    FifoDepth,      \* words stream_gen_fifo holds
    FramesPerPass,  \* frames the DMA may complete during one pass of the reader
    WarmUp          \* passes the loop in main() lets go by before it counts errors

ASSUME DmaAssumption ==
    /\ NUM_BD \in Nat /\ NUM_BD >= 2
    /\ frame_size \in Nat \ {0} /\ WordRange \in Nat \ {0} /\ FifoDepth \in Nat \ {0}
    /\ FramesPerPass \in Nat /\ WarmUp \in Nat

VARIABLES
    tdata,          \* the word at the output of the FIFO: the last one when it is empty
    fifo,           \* the words in it, each with its tlast
    count,          \* words of the frame stream_gen has still to send
    running,        \* XAxiDma_BdRingStart() was called
    currBd, word,   \* where the DMA writes
    bufarray,
    irqStatus,      \* interrupt bit of the DMA, and the level of its line
    pending,        \* a rising edge the interrupt controller holds for the processor
    handler,        \* where xdma_handler() is
    ackStatus,      \* its IrqStatus
    BufReadyPtr,
    xdma_intr_detected,
    xDmaQueue,
    program,        \* which of the two programs runs: "zed" or "uzed"
    reader,         \* where its reader is
    buffer,         \* checkbuf or buffer_addr
    index,          \* i
    temp1,          \* the word read last
    intr_count,     \* passes, counted up to WarmUp + 1
    data_error,     \* a word was not the one after temp1
    completed,      \* buffers completed since the reader last took one
    late            \* was it ever more than one?

generator == << tdata, fifo, count >>
dma == << running, currBd, word, bufarray >>
isr == << handler, ackStatus, BufReadyPtr >>
signals == << xdma_intr_detected, xDmaQueue >>
checker == << reader, buffer, index, temp1, intr_count, data_error >>
pace == << completed, late >>
vars == << generator, dma, irqStatus, pending, isr, signals, program, checker, pace >>

Word == 0 .. WordRange - 1
Ring == 0 .. NUM_BD - 1
WordsPerBuffer == frame_size + 1

After(w) == (w + 1) % WordRange
XAxiDma_BdRingNext(b) == (b + 1) % NUM_BD

XAxiDma_BdRingPrev(b) == (b - 1) % NUM_BD

Init ==
    /\ tdata = 0 /\ fifo = << >> /\ count = frame_size
    /\ running = FALSE /\ currBd = 0 /\ word = 0
    /\ bufarray = [b \in Ring |-> [i \in 0 .. frame_size |-> 0]]
    /\ irqStatus = FALSE /\ pending = FALSE
    /\ handler = "idle" /\ ackStatus = FALSE /\ BufReadyPtr = 0
    /\ xdma_intr_detected = FALSE /\ xDmaQueue = << >>
    /\ program \in {"zed", "uzed"}
    /\ reader = "wait" /\ buffer = 0 /\ index = 0
    /\ temp1 \in Word       \* not initialised in main()
    /\ intr_count = 0 /\ data_error = FALSE
    /\ completed = 0 /\ late = FALSE

-----------------------------------------------------------------------------
(* Hardware *)

\* A clock enable of stream_gen.sv.  s_axis_tready is not looked at: a word the
\* full FIFO does not take is lost.  While the DMA runs it empties the FIFO long
\* before the next clock enable, 10000 or 64000 clocks later.
Generate ==
    /\ running => fifo = << >>
    /\ LET w == [data |-> After(tdata), tlast |-> count = 1]
       IN  /\ fifo' = IF Len(fifo) < FifoDepth THEN Append(fifo, w) ELSE fifo
           /\ tdata' = IF fifo = << >> THEN w.data ELSE tdata
    /\ count' = IF count = 0 THEN frame_size ELSE count - 1
    /\ UNCHANGED << dma, irqStatus, pending, isr, signals, program, checker, pace >>

\* A buffer ends with the frame, or when it is full.
EndsBuffer(w) == w.tlast \/ word = frame_size

\* The DMA stores a word; with the last one of a buffer it raises its interrupt
\* and goes on with the next buffer of the ring.
Transfer ==
    /\ running
    /\ fifo # << >>
    /\ EndsBuffer(Head(fifo)) => completed < FramesPerPass
    /\ bufarray' = [bufarray EXCEPT ![currBd][word] = Head(fifo).data]
    /\ fifo' = Tail(fifo)
    /\ tdata' = IF fifo' = << >> THEN tdata ELSE Head(fifo').data
    /\ IF EndsBuffer(Head(fifo))
         THEN /\ currBd' = XAxiDma_BdRingNext(currBd)
              /\ word' = 0
              /\ irqStatus' = TRUE
              /\ pending' = (pending \/ ~irqStatus)
              /\ completed' = completed + 1
              /\ late' = (late \/ completed' > 1)
         ELSE /\ word' = word + 1
              /\ UNCHANGED << currBd, irqStatus, pending, pace >>
    /\ UNCHANGED << count, running, isr, signals, program, checker >>

-----------------------------------------------------------------------------
(* xdma_handler() *)

Enter ==
    /\ pending
    /\ handler = "idle"
    /\ handler' = "get"
    /\ pending' = FALSE
    /\ UNCHANGED << generator, dma, irqStatus, ackStatus, BufReadyPtr, signals, program, checker, pace >>

\* XAxiDma_BdRingGetIrq()
GetIrq ==
    /\ handler = "get"
    /\ ackStatus' = irqStatus
    /\ handler' = "ack"
    /\ UNCHANGED << generator, dma, irqStatus, pending, BufReadyPtr, signals, program, checker, pace >>

\* Fault: the interrupt is not acknowledged.
AckNothing ==
    /\ handler = "ack"
    /\ handler' = "find"
    /\ UNCHANGED << generator, dma, irqStatus, pending, ackStatus, BufReadyPtr, signals, program, checker, pace >>

\* XAxiDma_BdRingAckIrq()
AckIrq ==
    /\ handler = "ack"
    /\ irqStatus' = (irqStatus /\ ~ackStatus)
    /\ handler' = "find"
    /\ UNCHANGED << generator, dma, pending, ackStatus, BufReadyPtr, signals, program, checker, pace >>

\* Fault: CurrBufAddr instead of PrevBufAddr.
FindCurrent ==
    /\ handler = "find"
    /\ BufReadyPtr' = currBd
    /\ handler' = "signal"
    /\ UNCHANGED << generator, dma, irqStatus, pending, ackStatus, signals, program, checker, pace >>

\* The buffer before the one the DMA is at is the one with new data.
FindBuffer ==
    /\ handler = "find"
    /\ BufReadyPtr' = XAxiDma_BdRingPrev(currBd)
    /\ handler' = "signal"
    /\ UNCHANGED << generator, dma, irqStatus, pending, ackStatus, signals, program, checker, pace >>

\* Fault: the interrupt controller is cleared when the handler ends.
SignalClearsEdge ==
    /\ handler = "signal"
    /\ xdma_intr_detected' = TRUE
    /\ xDmaQueue' = IF program = "uzed" /\ xDmaQueue = << >> THEN << BufReadyPtr >> ELSE xDmaQueue
    /\ handler' = "idle"
    /\ pending' = FALSE
    /\ UNCHANGED << generator, dma, irqStatus, ackStatus, BufReadyPtr, program, checker, pace >>

\* uzed also sends the pointer through a queue of one; a full queue drops it.
Signal ==
    /\ handler = "signal"
    /\ xdma_intr_detected' = TRUE
    /\ xDmaQueue' = IF program = "uzed" /\ xDmaQueue = << >> THEN << BufReadyPtr >> ELSE xDmaQueue
    /\ handler' = "idle"
    /\ UNCHANGED << generator, dma, irqStatus, pending, ackStatus, BufReadyPtr, program, checker, pace >>

Handler == Enter \/ GetIrq \/ AckIrq \/ FindBuffer \/ Signal

-----------------------------------------------------------------------------
(* The reader *)

\* XAxiDma_BdRingStart(): main() of zed before its loop, prvInitTask() of uzed.
Start ==
    /\ ~running
    /\ running' = TRUE
    /\ UNCHANGED << generator, currBd, word, bufarray, irqStatus, pending, isr, signals,
                    program, checker, pace >>

\* while( !xdma_intr_detected );
SeeFlag ==
    /\ program = "zed" /\ handler = "idle"
    /\ reader = "wait"
    /\ running /\ xdma_intr_detected
    /\ reader' = "clear"
    /\ UNCHANGED << generator, dma, irqStatus, pending, isr, signals, program,
                    buffer, index, temp1, intr_count, data_error, pace >>

ClearFlag ==
    /\ reader = "clear" /\ handler = "idle"
    /\ xdma_intr_detected' = FALSE
    /\ reader' = "take"
    /\ UNCHANGED << generator, dma, irqStatus, pending, isr, xDmaQueue, program,
                    buffer, index, temp1, intr_count, data_error, pace >>

\* checkbuf = BufReadyPtr
TakePointer ==
    /\ reader = "take" /\ handler = "idle"
    /\ buffer' = BufReadyPtr
    /\ index' = 0
    /\ reader' = "read"
    /\ completed' = 0
    /\ UNCHANGED << generator, dma, irqStatus, pending, isr, signals, program,
                    temp1, intr_count, data_error, late >>

\* xQueueReceive() of prvRxDmaTask(), with the cache line invalidated after it.  An item is
\* a pointer here; the queue of the program copies sizeof(HWstring) bytes, and what the
\* others of them overwrite is outside the model.
Receive ==
    /\ program = "uzed" /\ handler = "idle"
    /\ reader = "wait"
    /\ xDmaQueue # << >>
    /\ buffer' = Head(xDmaQueue)
    /\ xDmaQueue' = << >>
    /\ index' = 0
    /\ reader' = "read"
    /\ completed' = 0
    /\ UNCHANGED << generator, dma, irqStatus, pending, isr, xdma_intr_detected, program,
                    temp1, intr_count, data_error, late >>

\* zed reads the whole buffer, uzed the first words of it.
WordsRead == IF program = "zed" THEN WordsPerBuffer ELSE WordsPerBuffer - 1

\* A word is read: zed compares each with the one before it, the last word of
\* the buffer before included; for uzed this is what its output shows, buffer
\* by buffer.
ReadWord ==
    /\ reader = "read" /\ handler = "idle"
    /\ index < WordsRead
    /\ temp1' = bufarray[buffer][index]
    /\ data_error' = (data_error \/ /\ temp1' # After(temp1)
                                    /\ intr_count > WarmUp
                                    /\ program = "uzed" => index > 0)
    /\ index' = index + 1
    /\ UNCHANGED << generator, dma, irqStatus, pending, isr, signals, program,
                    reader, buffer, intr_count, pace >>

EndPass ==
    /\ reader = "read" /\ handler = "idle"
    /\ index = WordsRead
    /\ intr_count' = IF intr_count > WarmUp THEN intr_count ELSE intr_count + 1
    /\ reader' = "wait"
    /\ UNCHANGED << generator, dma, irqStatus, pending, isr, signals, program,
                    buffer, index, temp1, data_error, pace >>

Reader == SeeFlag \/ ClearFlag \/ TakePointer \/ Receive \/ ReadWord \/ EndPass

Next == Generate \/ Transfer \/ Handler \/ Start \/ Reader

Spec == Init /\ [][Next]_vars

\* The generator never stops, nor does the DMA once it is started; the handler
\* and the reader run when they have something to do.
Fairness ==
    /\ WF_vars(Generate) /\ WF_vars(Transfer)
    /\ WF_vars(Handler) /\ WF_vars(Start) /\ WF_vars(Reader)

FairSpec == Spec /\ Fairness

-----------------------------------------------------------------------------
(* Properties *)

\* As long as the reader takes every buffer before the next one is completed, it
\* sees an unbroken count once it is warm: no buffer is skipped or read twice,
\* and none is read while the DMA writes it.
NoDataError == ~late => ~data_error

\* The line of the DMA is edge triggered: while its bit is set, an edge is held
\* or the handler is still to acknowledge it.  Otherwise the line would stay
\* high and no interrupt would ever come again.
NoLostEdge == irqStatus => pending \/ handler \in {"get", "ack"}

\* The reader is given buffers for ever.
KeepsStreaming == []<>(reader = "wait") /\ []<>(reader = "read")
=============================================================================
