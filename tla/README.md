# A verification development for freertos_test

The repository is a collection of Zynq and MicroBlaze projects around FreeRTOS:
streaming data from the FPGA to the processor by DMA and interrupts, a TCP/IP
stack (a copy of FreeRTOS+TCP), a command console, a boot loader and small
tests. This directory holds TLA+ modules for the parts whose correctness
depends on concurrency, on the order of messages or on arithmetic that wraps,
TLC configurations that check them on small instances, and TLAPS proofs.

Paths below are relative to `src/`; `freertos_tcp/` stands for
`microblaze/software/vitis/src/freertos_tcp/`. FreeRTOS itself, its
configuration headers and the vendor's drivers are not in the repository; they
are modelled, where they matter, as these sources use them.

## 1. Inventory

Concurrency in the TCP/IP stack: one *IP task* handles every packet and every
timer; user tasks call the socket API. They share the stream buffers (without
a lock), some bits of the socket, an event group per socket and the IP task's
event queue.

| Part | State | Operations | Interacts by | Hard about it | Correct when |
|---|---|---|---|---|---|
| Stream buffer (`FreeRTOS_Stream_Buffer.c`) | array, `uxHead`, `uxTail`, `uxMid`, `uxFront` | Add, Get, MoveMid, GetPtr, Clear | one writing and one reading task, no lock | a size read before a copy and used after it, the order of copy and publication, wrap-around, data stored ahead of the head | it is a FIFO of bytes; no byte is overwritten before it is read |
| Receiving window (`FreeRTOS_TCP_WIN.c`, first half; `prvStoreRxData`, `prvHandleEstablished`) | expected and highest sequence number, descriptors of out-of-order segments, SACK option, low-water bit | `lTCPWindowRxCheck`, `lTCPAddRxdata`, FIN, advertised window, `FreeRTOS_recv` | IP task, user task, pool of descriptors all sockets share | loss, repetition, reordering, overlapping segments, wrapping numbers, empty pool, closed window | the user reads the peer's stream, acknowledgements are true, all is delivered |
| Sending window (`FreeRTOS_TCP_WIN.c`, second half; `prvTCPAddTxData`, `prvTCPPrepareSend`) | segments, priority, wait and transmit queue, window sizes | `lTCPWindowTxAdd`, `ulTCPWindowTxGet`, `ulTCPWindowTxAck`, `ulTCPWindowTxSack`, `xTCPSocketCheck`, `FreeRTOS_send` | the same | lost and overtaken acknowledgements, partial ones, fast retransmission, timeouts, empty pool, lost window update | packets hold the stream, nothing is dropped before the peer has it, all is delivered |
| Connection (`FreeRTOS_TCP_IP.c`) | `ucTCPState`, FIN bits, timers, retry counts | `prvTCPHandleState`, `prvTCPHandleFin`, keep-alive, hang protection | sockets, windows, IP task | simultaneous close, lost and repeated FIN, timer against late packet | both ends agree that the stream is complete; every connection ends |
| Sockets (`FreeRTOS_Sockets.c`) | event bits, bound lists, child sockets | bind, connect, listen, accept, recv, send, select, close | user tasks and IP task by event bits | lost wake-up, read-modify-write of a shared word, close while in use | no task waits for what has happened |
| IP task (`FreeRTOS_IP.c`) | event queue, timers, network state | `prvIPTask`, `xSendEventStructToIPTask` | queue of bounded length | full queue, network down in the middle | no event that matters is lost for ever |
| ARP cache, UDP (`FreeRTOS_ARP.c`, `FreeRTOS_UDP_IP.c`) | cache with ages, the packet that waits, network buffers | look-up, refresh, ageing, send, receive | IP task and user tasks | hosts that change adapters, a full queue, buffers that change hands | no packet goes to an adapter its host never had; no buffer is lost |
| DHCP client (`FreeRTOS_DHCP.c`) | state, transaction, lease timers | `vDHCPProcess` | IP task, network | late offers, retries, lease end | an address is used only while leased |
| DNS (`FreeRTOS_DNS.c`) | cache, look-ups in progress | `prvProcessDNSCache`, callbacks | user tasks and IP task | stale entries, answer after time-out | an answer belongs to its question |
| DMA streaming (`common/stream_gen`, `zed_xdma`, `uzed_xdma`) | FIFO, ring of buffers, flag or queue | generator, DMA, `xdma_handler`, reading loop or task | interrupt, shared flag and pointer, queue of one | interrupt between any two instructions, overrun, edge-triggered line | a reader that keeps up sees every buffer once and no false error |
| Console (`freertos_cli/`) | input line, command list, output in pieces | line editor, `FreeRTOS_CLIProcessCommand` | UART interrupt, task | full line, backspace | a command line is a terminated string |
| Hello tasks (`freertos_test/main.c` and copies) | queue of one, counter, timer | sender, receiver, timer call-back | queue, priorities | timing assumptions | the timer's verdict is right |
| Interrupt tests, lwIP echo, memory and register tests, I2C set-up, FPGA top levels | little | straight-line code | | | |
| SREC boot loader (`srec_spi_boot/`) | flash position, line buffer | read a line, decode, load | none | end of buffer in the middle of a line | loads what the file says |
| AXI register file (`axi_regfile_v1_0_S00_AXI.sv`) | handshake bits, registers, write pulses | write and read channel, reset | AXI master | channels in any order, a request before the answer to the last | registers are a memory; one response for each request |

`PROJECT.json` lists these under "components", and under "hazards" what is hard
to test, at its line, with the property that watches it or the reason why none
does.

## 2. Modules

| Module | Models | Uses |
|---|---|---|
| `ByteFifo` | the abstract promise of a stream buffer: a sequence of bytes, put at one end and taken or peeked at from the other | |
| `StreamBufferOps` | the index arithmetic, and `uxStreamBufferAdd` as one step | |
| `StreamBuffer` | the stream buffer with a writing and a reading task that interleave at every access | `StreamBufferOps`, `ByteFifo` |
| `SequenceNumbers` | sequence numbers modulo `SeqRange` and their four comparisons | |
| `TcpRxWindow`, `MCTcpRxWindow` | the receiving half of an established connection | `StreamBufferOps`, `SequenceNumbers` |
| `TcpTxWindow` | the sending half | `StreamBufferOps`, `SequenceNumbers` |
| `TcpConnection`, `MCTcpConnection` | both ends of a connection, from SYN to the end, and the wire between them | |
| `TcpSockets`, `MCTcpSockets` | a server: listening socket, clients' sockets, IP task and the task that accepts | |
| `DhcpClient` | the IP task's queue, the network going up and down, the DHCP client, its servers | |
| `ArpCache` | the ARP cache, the packets that use it, the network buffers that carry them | |
| `DmaStream` | generator, DMA, interrupt handler and both readers | |
| `AxiRegfile` | the register file, one operator for each "always" block | |
| `AxiTraffic` | the register file under any AXI4-Lite master, with resets | `AxiRegfile` |
| `StreamBuffer_proof`, `TcpRxWindow_proof`, `TcpTxWindow_proof`, `TcpSockets_proof`, `ArpCache_proof`, `DhcpClient_proof`, `AxiTraffic_proof`, `DmaStream_proof` | proofs about the module each is named after | that module |

Operators whose comment begins with *Fault* are not part of the model. Each is
a definition changed as a plausible bug would change it, and stands before the
one it changes; "mutants" in `PROJECT.json` names the property that notices.

### StreamBuffer

`ucArray`, `uxHead`, `uxTail`, `uxMid`, `uxFront` are the fields of
`StreamBuffer_t`. `add` and `get` are what the two tasks hold in local
variables: the program counter, the offset, the count decided at the start and
how much of it is copied. `AddCall` reads `uxTail` and decides the count
(lines 265-297), `AddCopy` copies one byte, `AddPublish` moves `uxHead`
(329), `AddFront` reads `uxTail` again and moves `uxFront` (333-336); `GetCall`,
`GetCopy`, `GetAdvance` are the same for `uxStreamBufferGet`. A byte is the
number of its position in the stream, so that a wrong byte shows. `written`,
`consumed`, `ahead` and `taken` are history. `direction` is chosen in the initial
state: "rx" has `Add` at an offset ahead of the head and `Add` with NULL that moves
the head over what is there; "tx" has `uxMid`, peeks at an offset, `Get` with NULL
that drops acknowledged bytes and the zero-copy `FreeRTOS_get_tx_head`. The callers'
contract (they never ask for more than `uxStreamBufferGetSpace` or `GetSize`
told them, and never store out of order beyond it) is in `AddRequest` and
`GetRequest`, taken from the calls in `FreeRTOS_Sockets.c` and
`FreeRTOS_TCP_IP.c`.

### TcpRxWindow

`Receive` is the whole of `prvTCPHandleState` for a segment in `eESTABLISHED`:
the highest number seen, `prvStoreRxData` with `lTCPWindowRxCheck` and both calls
of `lTCPAddRxdata`, then the acceptance of a FIN. Segments come from the set
`slices`, any one at any time as long as the peer was once allowed to send it:
that is loss, duplication, reordering and retransmission in one. The set is chosen
in the initial state: with `FixedSlices` the peer repeats its segments, with
`AnySlices` it cuts its stream anew each time. A probe of a closed window carries
the next byte or an old one. `Acknowledge` is the window in `prvTCPReturnPacket`.
`RecvGet` and `RecvLowWater` are the two halves of `FreeRTOS_recv` between which the
IP task may run. Descriptors come and go (`Others...`), as other sockets use them.

### TcpTxWindow

`pxWindow` is the sending part of `TCPWindow_t`: `xTxSegments` as a sequence of
descriptors, the three queues as sequences of their sequence numbers. A handler
is a function on a record of window, stream, pool and packets, composed of the
functions of the source in their order, the loops among them as recursive functions
over their turns (`AddSegment`, `SendOnce`, `CheckAckOf`, `CountDupAck`): `SocketCheck` is `prvTCPAddTxData` then
`prvTCPSendRepeated`, `ReceiveAck` is `prvReadSackOption`, `ulTCPWindowTxAck`,
`prvTCPAddTxData`, `prvTCPPrepareSend` and, if that sent something,
`prvTCPSendRepeated`. There is no clock: `due`, how many segments at the head of
the wait queue have waited long enough, is chosen at each look, so that the
round-trip estimate and the doubling of time-outs do not matter. The wire is a
set of packets, which may be lost or delivered twice; acknowledgements are a
short queue from which any element may be taken or lost. The peer keeps of a
packet what lies below `edge`, and its user reads all or nothing.

### TcpConnection

`socket[e]` is the `FreeRTOS_Socket_t` of each end, "client" the one that calls
`FreeRTOS_connect`, "server" the one that `prvHandleListen` makes. `wire[e]` is what
is in flight to it: packets are lost, overtaken and, if `Duplicates`, delivered
twice. `Receive` is `xProcessReceivedTCPPacket` with all it calls, and `Timer` is
`xTCPTimerCheck` with `xTCPSocketCheck`; both are built like the handlers of
`TcpTxWindow`, as functions on a record `c` (socket, packet, what was sent) in the
order of the source, each early return a condition. Sequence numbers count from
the SYN; data are units that never split, so that byte arithmetic stays with the
window modules. What may be due is chosen at each look at the timer: delayed
acknowledgement, keep-alive, retransmission, hang protection. `got`, `misled` are
history.

### TcpSockets

One listening socket, the sockets its clients get (`child`), the list
`xBoundTCPSocketsList`, the static `xPreviousSocket` of `vSocketCloseNextTime`, the
IP task's queue and the user's task, which waits in `FreeRTOS_accept` or in
`FreeRTOS_select`. A handler of the IP task is one step, except at the two places
where it hands a client over (`vTCPStateChange`, `xTCPCheckNewClient`): there
`passing` remembers what it is about to do, and the user's task may come in
between if `UserPreempts`, which stands for priorities the repository does not
fix. `FreeRTOS_accept` is cut where it suspends the scheduler, where it asks the
IP task and where it waits. `Without` is how `vSocketClose` takes a socket from the
list.

### DhcpClient

`IPTask` is one turn of `prvIPTask`; `turnEnds` is set when a network-down event
was pending, because the end of that turn (line 619) is a step of its own. Each state of
`vDHCPProcess` is an operator on the client's state, `dhcp`, `socket` and `timer`.
What the client broadcasts waits in `toServer` until a server looks at it or it is
lost; `replies` are answers under way, in any order and as late as they like.
A transaction number is only whether it is the current one: `NewTransaction` ages
all that is under way. `promised` is what the servers keep for the client.
`xDHCPTxPeriod` counts its doublings, `waited` says whether it has passed.

### ArpCache

`cache` is `xARPCache`, `waiting` the packet in `pxARPWaitingNetworkBuffer` and
`timer` whether `xARPResolutionTimer` runs. The other hosts are external: `owner` is
the adapter each has now, and a frame under way may name an old one. Every
action that handles a packet says where its network buffer goes: `free`, the
queue, the socket's list, the user (`held`) or the packet that waits. `Refreshed`
is `vARPRefreshCacheEntry` with its choice of row, `Aged` is `vARPAgeCache`.

### AxiRegfile, AxiTraffic

Each "always" block of the slave is an operator that gives the next value of the
registers it drives, from the values and the wires `m` before the edge; `SlaveEdge`
is all of them at one edge of the clock. In `AxiTraffic` the master raises each of
its valid signals when it likes and holds it, a reset may fall at any edge, and
`memory`, `acks` and `owed` watch the wires of the bus.

### DmaStream

One action per clocked step of `stream_gen.sv` (`Generate`), per word of the DMA
(`Transfer`), per access of `xdma_handler` to a register or shared variable
(`Enter` .. `Signal`) and per access of the reader. `program` chooses in the
initial state between the polling loop of `zed_xdma` and the task with its queue
of `uzed_xdma`. The handler pre-empts the reader, never the other way round.
`late` records whether the DMA completed more than one buffer since the reader
took the last: the code promises nothing then. `NoDataError` is claimed for a reader
that is not late, which leaves two hazards out: the buffer that the loop of `zed_xdma`
reads twice (`xdma_test.c`:68), of which `KeepsStreaming` shows only that it stalls
nothing, and the buffer that `uzed_xdma` skips or the pointer it drops (117).

## 3. Runs

`tlc -config X.cfg M` with the configuration and module of each line.

| Run | Module | States | Shows |
|---|---|---|---|
| SB | StreamBuffer | 350 000 | no byte lost or overwritten, `Get` returns the stream, the advertised window never promises room that is not there; `StreamBuffer` implements `ByteFifo` |
| RX | MCTcpRxWindow | 87 000 | however the peer cuts its stream: the user's bytes are the stream, no more invited than fits and nothing accepted fails to fit; if the peer repeats its segments: true SACKs, everything delivered and the FIN accepted |
| TX | TcpTxWindow | 195 000 | segments tile the stream, each unacknowledged one in exactly one queue, packets hold the right bytes, only what the peer has is dropped, the peer's window is kept (see TX_wrap), everything written is delivered |
| CONN | MCTcpConnection | 480 000 | when one user closes and descriptors are to be had: nothing is taken as acknowledged that was lost, neither data nor FIN, no FIN is accepted before the data it follows, and none of `FreeRTOS_shutdown` is sent before the data it follows |
| SOCK | MCTcpSockets | 76 000 | no handle of a freed socket is held, the backlog counts what there is, whoever connects is accepted: no wake-up is lost |
| DHCP | DhcpClient | 1 350 000 | the address in use is one its server has promised, the socket is there when needed and only then, the interface comes up again and again |
| ARP | ArpCache | 940 000 | every network buffer is in one place, rows are unique, no packet goes to an adapter its host never had, the cache is right once hosts stay, the packet that waits goes or is dropped |
| AXI | AxiTraffic | 175 000 | the registers are a memory, one answer to each request with the right data, write pulses last one cycle, every request is answered |
| DMA | DmaStream | 1 170 000 | no false error while the reader keeps up, no lost edge, streaming goes on |

Three runs end in a violation, of something that a comment says and the code does
not do:

- **TX_wrap**: `prvTCPWindowTxHasSpace` compares sequence numbers with `>=`.
  While they pass 0 nothing counts as outstanding, and the peer's window is
  overrun. Nothing is lost (run TX passes with such numbers): the peer drops the
  excess and it is sent again.
- **CONN_fin**: an end that has sent its own FIN answers that of the other without
  looking whether data before it is missing, though `prvTCPHandleFin` says "it has
  been checked that both reception and transmission are complete". The data is
  never delivered, and the peer believes it was.
- **DHCP_down**: when `FreeRTOS_NetworkDown` finds the queue full it sets
  `xNetworkDownEventPending`, which nothing resets when the IP task makes up for
  it: every turn of the task starts the DHCP client anew.

### Observations without a run

Met while modelling; each can be seen by changing a constant or a property.

- `uxStreamBufferAdd` publishes `uxHead` before it updates `uxFront`
  (`FreeRTOS_Stream_Buffer.c`:333). A `Get` of everything in between leaves `uxFront`
  behind the tail, and the advertised window is too small until the next `Add`.
  `WindowHonest` says that it is never too large.
- A segment that begins where a stored one does is refused, and named in a SACK all
  the same (`FreeRTOS_TCP_WIN.c`:1117): without `KeepsCut`, `SackTruthful` fails. A
  descriptor whose start was passed by a segment that covers it only in part
  is never freed (943), and a FIN is then refused for ever: without `KeepsCut`,
  `Delivered` fails.
- `NeverOverruns` needs acknowledgements in order: `ulWindowSize` is taken from every
  packet, also from one that was overtaken.
- A bare acknowledgement in `eSYN_RECEIVED` that comes with a later sequence number
  sets what is expected next (`FreeRTOS_TCP_IP.c`:2850): `misled` notes it, and the
  properties of `TcpConnection` are stated for connections where it does not happen.
- `FreeRTOS_shutdown` promises that "it will first deliver all data queued for
  transmission" (`FreeRTOS_Sockets.c`:3845). `prvTCPPrepareSend` waits only until
  `xTxSegments` is empty (`FreeRTOS_TCP_IP.c`:2209), which it also is when there was no
  free descriptor for what the user wrote. The FIN then takes the number of the first
  of those bytes, and the acknowledgement of that byte counts as that of the FIN: with
  `PoolRunsOut`, `FinComplete` and `ConfirmedReceived` fail.
- With `ZeroCopyTxDriver` FALSE a keep-alive sent from
  a packet that closed after sending still has its FIN flag. When both users close
  and more than one packet is under way, `ConfirmedReceived` fails for the reason
  CONN_fin shows.
- With `UserPreempts` a client can be taken, closed and freed between the test of
  `bPassAccept` and its use (`FreeRTOS_TCP_IP.c`:4098, 4100; 1828, 1864): `HandlesLive`
  and `Accepted` fail. An IP task of higher priority than the user's is safe.
- The comment of `eARPGetCacheEntry` says that a hit will "refresh the ARP cache entry's
  age" (`FreeRTOS_ARP.c`:714-716). `prvCacheLookup` only reads (838-869), and so does
  `CacheHit`. `Corrected` rests on it: if `HandleStackTx` renewed the age of its row as
  the comment says, traffic to a host that has taken another adapter could keep its
  old row for ever.
- DHCP: when the random generator fails at the first turn no timer is started. Giving
  up calls `vIPNetworkUpCalls` even after the interface went down. A pending
  network-down event leaves `xNetworkUp` set. When two offers fill the list of the
  socket each time, an acknowledgement finds no place; `Configured` therefore
  assumes that in the end nothing is lost.
- The slave of the register file never answers a read that is accepted while
  the data of the last one waits (`axi_regfile_v1_0_S00_AXI.sv`:272, against the comment
  at 256): with `PipelinedReads` TRUE `ResponsesMatch` fails. `slv_wr_pulse` is not
  cleared by reset.
- `stream_gen.sv` counts on from the output of its FIFO and does not look at
  `s_axis_tready` (line 44), although line 2 says "with flow control"; words repeat until
  the DMA keeps up. This is why the programs ignore the first buffers.
- `uzed_xdma` creates `xDmaQueue` for items of `sizeof( HWstring )`, 15 bytes
  (`xdma_test.c`:78), and sends from and receives into variables of 4 (135, 245): each
  copy goes beyond them. In `DmaStream` an item is one pointer; what the
  other bytes overwrite is not modelled.

### Bounds, and why they are enough

- Stream buffers have 5 or 6 slots and the streams are longer than the buffer,
  so that every index wraps, and both a full and an empty buffer occur with
  indices in any order. `MaxAhead` 3 leaves room for a gap and data behind it.
- Sequence numbers count modulo 16 or 32 and start so that they pass 0 within
  the stream; a stream is shorter than half the range, as in the program a window
  is shorter than 2^31.
- Descriptors: 2, so that the pool runs empty; windows of 3 to 5 bytes
  with segments of 2, so that they fill and a segment may fit in part.
- `DuplicateAcks` is 2 (3 in the code), `MaxTransmitCount` 2 (4) and
  `SendRepeatedCount` 3 (8): the limits are reached within the bounds. `MaxAcks` is 2,
  so that one acknowledgement may overtake another.
- CONN: the client sends 2 units, the server none; the client's user may shut down
  or close at any time; 2 packets in flight in each direction. That is the least
  with a gap, a FIN behind it and a retransmission that meets its own
  acknowledgement. 2 SYNs and 1 keep-alive before giving up (3 and 3). No packet is
  delivered twice by the network itself; every retransmission is a duplicate.
- SOCK: 3 sockets and a backlog of 2, so that the backlog refuses, and a client may
  wait while another is accepted and a third dies; the user listens twice.
- DHCP: 2 servers and 2 addresses, so that offers compete; the queue holds 2 events and
  the socket 1 packet, so that both overflow; one fault (the link goes down, a
  refusal, or no memory) at any moment.
- ARP: 2 hosts and 3 adapters, so that a host can take a new one; 2 rows for them
  with the placeholder of the unknown; 3 buffers and a queue of 1, so that
  each refusal occurs with each owner of a buffer.
- AXI: 2 registers, one read-only, of 2 bytes with strobes and 2 values.
- The DMA ring has 4 buffers of 2 words, the count runs modulo 6, so that a
  word, a buffer and a lap of the ring are told apart. `WarmUp` is that of the
  code: with 1 or 2 passes a false error is found, 3 would do (see `NoFalseError` in 4).
- SB, CONN, SOCK, DHCP and ARP do not check for deadlock: the bounded stream ends,
  both sockets may be gone, the user stops listening, faults are used up.

### Fairness

- RX: the peer retransmits what is not acknowledged and probes a closed
  window (any TCP does); an acknowledgement that is sent again and again gets
  through; the user keeps reading. The code has no timer on this side.
- TX: `xTCPTimerCheck` calls `xTCPSocketCheck` again at the latest after
  `tcpMAXIMUM_TCP_WAKEUP_TIME_MS`, so `Expired` is weakly fair; a descriptor is free
  at some of those times; packets and up-to-date acknowledgements that are sent
  again and again arrive; the users go on; `ipconfigTCP_KEEP_ALIVE` is on and the
  connection is not given up. Without keep-alive `Delivered` does not hold when the
  update of a closed window is lost. The fairness of the handlers is written with
  predicates in place of ENABLED, which say the same and are quicker to evaluate.
- SOCK: the IP task finishes what it began (weak); its queue, which packets and
  calls share, is first-in first-out, and it leaves the processor to the user's
  task in between (strong, for `HandleEvent` and `UserTask`).
- DHCP: the IP task runs, servers that serve answer, answers arrive, time passes
  (weak); its timer is looked at when the queue is not full, which is again and
  again (strong); and in the end nothing is lost and answers come before
  `xDHCPTxPeriod` is over. `serving` may be empty: then the client gives up, and has
  the default address.
- ARP: the IP task runs, its timers are looked at. Nothing is assumed of the hosts:
  `Corrected` says the cache forgets a wrong row even if nobody answers.
- AXI: the clock runs; a master does not put off for ever the data of an address,
  the address of its data or the acceptance of a response, as the protocol requires.
- DMA: generator, DMA and processor go on; nothing else is assumed.
- CONN states no fairness: a connection over a network that loses everything ends
  by its counters only, which the safety properties do not need.

## 4. Proofs

Each theorem is stated for every value of the constants allowed by the ASSUMEs of
its module, which follow the code's types and are evaluated by TLC in the runs.

**`StreamBuffer_proof`**, for every `LENGTH`, `SizeRange`, `MaxBytes`, `MaxAhead` and both
directions: `TypeCorrect`; `NeverLapped` (head and tail are as far apart as the
numbers of bytes written and read); `NoByteLost` (`BytesIntact`); `ReadsStream`
(`GetReturnsStream`); `WindowIsHonest` (`WindowHonest`: the window a receiver announces
from `uxFront` is room it has); and `BufferIsFifo` (`ImplementsFifo`), the refinement: the
initial states are those of `ByteFifo` and every step of either task is a step of
it or a stutter. None of these is inductive by itself. `IInv` adds to them what
the two tasks rely on in the middle of an operation: the room an `Add` found is
still there, since the reader only makes more; the bytes a `Get` found are still
there, since the writer only adds; the bytes of the operation in progress that are
copied already are right; and what was stored ahead of the head lies inside the
room. The arithmetic comes first: `Distance`, `Space` and `Wrap` stay in range, and
moving an index by n changes a distance by n. `TcpRxWindow_proof` begins with the same
lemmas, since it cannot take them from a module with other variables, and adds
that `uxStreamBufferAdd` as one step changes the slots between two indices and no
others.

**`TcpRxWindow_proof`**, for any buffer, window, number of descriptors, sequence number to
begin with, and cutting of the stream into segments, up to half the sequence
range: `TypeCorrect`, `StreamArrivesIntact` (`StreamIntact`), `WindowIsKept` (`WindowFits`),
`SackIsTruthful` (`SackTruthful`). The three properties are about bytes; the code works
with numbers modulo 2^32, with indices into the buffer and with a list of
descriptors. `IInv` ties the three together. `NumbersFit`: every sequence number is
that of a position of the peer's stream. `BufferFits`: distances of indices are
differences of positions, and `uxFront` is never behind `uxHead`. `SegmentsFit` and
`SegmentsHeld`: a descriptor stands for bytes that lie in their slots, unless it
began before the head, when the head has overtaken it and it only waits to be
freed. `PoolFits`: descriptors taken and left add up. `HeadAtEnd`: when the peer repeats
its segments the head is always where one of them ends, which a selective
acknowledgement needs and which a peer that cuts its stream anew does not grant.
Two lemmas carry the step: `CheckOutcome` says what `lTCPWindowRxCheck` may answer and
`StreamEffect` what `prvStoreRxData` then leaves in the buffer. That the stored segments
which continue from the head reach as far as the head is moved without a gap
would be an induction; `RunCovers` and `RunEnds` take the first position that breaks
the claim instead (`Smallest`, from the library's well-foundedness of finite
subsets), and derive a contradiction from it.

**`TcpTxWindow_proof`**, for any stream, segment size, pool, limits and window of the
peer, up to half the sequence range: `TypesRight` (`TypeOK`), `SegmentsKept`
(`StreamCovered`), `PacketsRight` (`SentIsStream`), `NothingLost` (`ConfirmedReceived`) and
`WindowRespected` (`NeverOverruns`). `IInv` reads every sequence number as the position
of the user's stream it stands for (`Cur`, `High`, `Nxt`, `Start`, `Upto`); with less than
half the range between any two of them, `xSequenceLessThan` and its like compare
positions. `WindowOK` is about the window alone: the segments lie one after the
other from `ulCurrentSequenceNumber` to `ulNextTxSequenceNumber` (`Tiled`); those that
were not sent are the last ones, and `xTxQueue` has them in their order (`Unsent`);
those sent and not acknowledged are in one of the other two queues, once
(`InFlight`); only the last segment, and only before it was sent, is filled up
(`HeadFits`), without which a packet sent twice could have two lengths. `Matches` ties
the window to the stream (`Placed`, `StreamHolds`), `PacketOK` the packets in flight to
it, and `PeerHas` and `AckOK` say that what is dropped, marked, or acknowledged on
the wire is with the peer. `NeverOverruns` needs more, and only as long as no
acknowledgement was overtaken: `Bounded`, and `InOrder`, which relates any two
acknowledgements under way and each of them to the segments marked so far; a later
one must not end inside a segment that an earlier selective one has marked, since
`prvTCPWindowTxCheckAck` would then move on over it without knowing. TLC checked `IInv`
on the instance of TX before it was proved.

Each function of the source has a lemma that says what it keeps (`WindowOK`) and what it
changes: `FillFrontOK`, `MarkAckedOK` and the others, up to the handlers. A loop is a
recursive function; `RunExists` and `RunSteps` take it apart into turns, and what every
turn keeps is kept by the whole (`Induction`, by the first turn that would break it).
For `prvTCPWindowTxCheckAck` that is `Checked`, which compares the window as it is by then
with the one at the start: segments are lost at the front only, and what lies behind
the one the loop has come to is as it was.

**`TcpSockets_proof`**, for any number of sockets and any backlog: `TypeCorrect`,
`BacklogIsTrue` (`BacklogHonest`) and, if the user's task cannot interrupt the IP task
(`~UserPreempts`), `HandlesStayLive` (`HandlesLive`). `BacklogHonest` rests on where each
client is in its hand-over: `FlagsFit` and `PassingFits` (`bPassQueued` and `bPassAccept`
agree with the client's state and with what the IP task is in the middle of),
`ListFits` (the list has every socket there is, once), `HandlesFit` (the user closes
what it was given, once) and `NoListenerNoOrphan`. `OneOther` and `RequestsFit` bound the
queue, which the type needs: each request for another client was sent by a task
that had just been given one. `HandlesStayLive` adds `PeerFits`: a client that is
offered may be accepted, or will be at the end of the hand-over. Where the user's
task may preempt, `HandlesLive` is not claimed, and the runs do not check it there.

**`DmaStream_proof`**, for any ring and frame size: `EdgeNeverLost` (`NoLostEdge`). The
invariant adds that where the handler is about to acknowledge but has not seen
the bit, the edge with which the bit rose is still held (`UnseenIsHeld`).
`NoFalseError` (`NoDataError`) says that a reader that is never late counts no false
error if the ring has three buffers and `FifoDepth < (WarmUp - 1) * WordsPerBuffer`.
The program satisfies both, though it states neither: 4 buffers, and a FIFO of 1024
words (`stream_gen_fifo.xci`) against 4 buffers of 512. Neither can be spared: TLC
finds false errors with 2 buffers, and with a FIFO that holds `WarmUp - 1` buffers.
The invariant `ReaderInv`, checked by TLC first, counts the buffers completed
(`Done`): each is signalled once and read once (`Signalled`, `AtBuffer`). The words
that waited in the FIFO before the DMA ran are whole frames from where the buffer
in progress begins (`Filled`); from then on each word goes on before the next comes
(`Steady`), and a buffer with a jump in it or an early end is among the first
`WarmUp`. The buffer in progress, the one before it and the one being read count on
from one to the next (`CurrentCounts`, `PreviousCounts`, `BufferCounts`, `LastRead`).

**`ArpCache_proof`**, for any hosts, cache size, queue and number of buffers:
`TypeCorrect`, `NoBufferLeaks` (`BuffersAccounted`), `NoDoubleRow` (`OneRowEach`),
`NoWrongRow` (`NeverMisdirected`). `IInv` is: rows are typed, unique and name an
adapter their host had; every frame in the queue, and the packet that waits, does
so too, which is what a refresh takes over into the cache; and the buffers add
up, with lemmas on how the number of buffers in a queue changes when one comes or
goes. The refresh is proved by the cases of which row is chosen.

**`DhcpClient_proof`**, for any servers, addresses and bounds: `TypeCorrect`, `LeaseIsAgreed`
(`LeaseAgreed`), `SocketIsThere` (`SocketMatchesState`). `LeaseAgreed` needs more of what
is under way: an acknowledgement of the current transaction, wherever it is, names
what its server still promises, and no DISCOVER is on its way to that server
(`AcksKept`); before the first message of a transaction nothing belongs to it
(`NothingCurrent`); and a lease in use is kept by its server (`LeaseKept`).

**`AxiTraffic_proof`**, for any number of registers, lanes and byte values: `TypeCorrect`,
`WritesReachRegisters` (`RegistersAgree`), `PulsesLastOneCycle` (`PulseIsWrite`) and, for a
master that waits for its data, `NoResponseLost` (`ResponsesMatch`). The invariant says
where in its handshake a write is: the latched address is that of the bus while
the address and data are being taken, and `aw_en` is low exactly while a write is
under way or its response waits.

Only model-checked:

- all liveness (out of the prover's reach, as is ENABLED);
- the invariants of `TcpConnection` (`TypeOK`, `ConfirmedReceived`, `FinComplete`): they
  relate the states of both ends to every packet in flight, and the inductive
  invariant for the states in which a FIN may be under way is still to be written. Nor are
  they true of all constants: `FinComplete` needs free descriptors, and
  `ConfirmedReceived` that and that not both users close (see "Observations").

`NeverLapped` is proved and not run; nor is `AxiTraffic`'s `TypeOK`, which `ResponsesMatch`
mostly covers.

## 5. Not modelled

- DNS client and cache: a blocking exchange over one UDP socket and a table; most of
  its code is the parsing of names. Its life times are listed as a hazard.
- The console, the hello tasks and the SREC loader: one task each, or an order that
  priorities in a kernel outside the repository settle.
- The AXI master of the test bench: `AxiTraffic`'s master may do all it does.
- In the TCP/IP stack: the variant for `ipconfigUSE_TCP_WIN = 0`
  (`FreeRTOS_TCP_WIN.c`:2194-2563), the round-trip estimate, `FREERTOS_SO_STOP_RX`,
  `bReuseSocket` and the other options of `FreeRTOS_setsockopt`, socket call-backs,
  the choice of ports, a reply that carries TCP options and therefore no data, the
  DHCP hook and the fall-back to a link-local address (both off by default).
- Parsing, check sums and formatting everywhere; memory and register tests, I2C
  set-up, the lwIP example and the FPGA's top levels, which are straight-line code.

The window modules handle a packet that carries both data and an acknowledgement as
one after the other, in the order of the code; `TcpConnection` handles it whole, with
windows that are always open.

## 6. Plan

In this order:

1. *done*: `StreamBuffer` with its proofs, `TcpRxWindow`, `TcpTxWindow`, `DmaStream`.
2. *done*: `TcpConnection`, `TcpSockets`, `DhcpClient` and `ArpCache` with their proofs,
   `AxiRegfile` with its proofs.
3. `DnsCache`: the table of names, its life times, look-ups in progress.
4. Proofs. *done*: `TcpSockets`, `TcpRxWindow`, `TcpTxWindow`, `DmaStream`, `WindowHonest` and
   the refinement of `ByteFifo`. Left: the invariants of `TcpConnection`, with
   `SendRepeated` as a recursive function.
5. `Console`, `SrecLoader`.
