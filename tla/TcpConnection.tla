---------------------------- MODULE TcpConnection ----------------------------
(***************************************************************************)
(* Both ends of one TCP connection, each run by FreeRTOS_TCP_IP.c: the     *)
(* three-way handshake, data in both directions, and the ways a connection *)
(* ends: FIN, RST, too many retries, hang protection, keep-alive.          *)
(*                                                                         *)
(* "client" calls FreeRTOS_connect(); "server" is the socket that          *)
(* prvHandleListen() makes when the SYN arrives.  A packet may be lost,    *)
(* delivered twice and overtaken.  Sequence numbers count from the SYN:    *)
(* 0 is the SYN, u is the u-th unit the user writes (a segment's worth),   *)
(* the FIN comes after.  Time is not counted: what may be due is chosen    *)
(* when it is looked at.  A packet for which no network buffer is found is *)
(* one that was lost.  Windows are wide; TcpRxWindow and TcpTxWindow are   *)
(* about them.                                                             *)
(***************************************************************************)
EXTENDS Integers, FiniteSets, Sequences
LOCAL INSTANCE SequencesExt

CONSTANTS
    Units,              \* how many units the user of each end writes at most
    CloseAfterSend,     \* ends whose bCloseAfterSend is set
    UserCloses,         \* ends whose user shuts the connection down or closes it
    ZeroCopyTxDriver,   \* ipconfigZERO_COPY_TX_DRIVER # 0: each packet gets a buffer of its own
    PoolRunsOut,        \* may the pool of segment descriptors be empty?
    MaxRepCount,        \* SYNs sent before giving up: 3
    MaxKeepRepCount,    \* unanswered keep-alives before giving up: 3
    SendRepeatedCount,  \* SEND_REPEATED_COUNT
    MaxWire,            \* packets in flight per direction (bound of the model)
    Duplicates          \* may the network deliver a packet twice?

Ends == {"client", "server"}
Peer(e) == IF e = "client" THEN "server" ELSE "client"

ASSUME ConnectionAssumption ==
    /\ Units \in [Ends -> Nat] /\ CloseAfterSend \subseteq Ends /\ UserCloses \subseteq Ends
    /\ PoolRunsOut \in BOOLEAN /\ Duplicates \in BOOLEAN /\ ZeroCopyTxDriver \in BOOLEAN
    /\ MaxRepCount \in Nat /\ MaxKeepRepCount \in Nat
    /\ SendRepeatedCount \in Nat \ {0} /\ MaxWire \in Nat \ {0}

VARIABLES
    socket,     \* each end's FreeRTOS_Socket_t
    wire        \* wire[e]: packets in flight to e

vars == << socket, wire >>

\* "gone": there is no socket (yet, or any more).
States == {"gone", "eCLOSED", "eCONNECT_SYN", "eSYN_FIRST", "eSYN_RECEIVED", "eESTABLISHED",
           "eFIN_WAIT_1", "eCLOSE_WAIT", "eLAST_ACK"}

\* ucTCPState >= eESTABLISHED: the enumeration goes on with the closing states.
PastHandshake == {"eESTABLISHED", "eFIN_WAIT_1", "eCLOSE_WAIT", "eLAST_ACK"}

Bits == {"bFinSent", "bFinRecv", "bFinAccepted", "bFinAcked", "bFinLast", "bUserShutdown",
         "bCloseRequested", "bWinChange", "bSendKeepAlive", "bWaitKeepAlive", "bConnPrepared"}

Fresh == [state |-> "eCLOSED", bits |-> {},
          our |-> 0,            \* ulOurSequenceNumber
          cur |-> 0,            \* tx.ulCurrentSequenceNumber
          high |-> 0,           \* tx.ulHighestSequenceNumber
          next |-> 0,           \* ulNextTxSequenceNumber
          fin |-> 0,            \* tx.ulFINSequenceNumber
          segs |-> {},          \* xTxSegments
          sent |-> {},          \* those of them that are outstanding
          head |-> 0,           \* units in txStream so far; it is created for the first
          rx |-> 0,             \* rx.ulCurrentSequenceNumber
          rxHigh |-> 0,         \* rx.ulHighestSequenceNumber
          rxFin |-> 0,          \* rx.ulFINSequenceNumber
          ahead |-> {},         \* xRxSegments
          got |-> {},           \* units that went to the head of rxStream (history)
          rep |-> 0,            \* ucRepCount
          keep |-> 0,           \* ucKeepRepCount
          delayed |-> FALSE,    \* pxAckMessage # NULL
          misled |-> FALSE]     \* did a bare ACK change what was expected? (history)

Init ==
    /\ socket = [client |-> Fresh, server |-> [Fresh EXCEPT !.state = "gone"]]
    /\ wire = [e \in Ends |-> {}]

Packet(flags, seq, ack, len) == [flags |-> flags, seq |-> seq, ack |-> ack, len |-> len]

-----------------------------------------------------------------------------
(* A handler works on c: the socket s, the packets out it sent, the flags  *)
(* of the header it sends with, and what is due.                           *)

Set(s, bits) == [s EXCEPT !.bits = @ \cup bits]
Clear(s, bits) == [s EXCEPT !.bits = @ \ bits]

\* prvTCPSocketIsActive()
IsActive(s) == s.state \notin {"gone", "eCLOSED", "eCLOSE_WAIT"}

\* prvTCPTouchSocket(): the two ages start again.
Touch(s) == [Clear(s, {"bWaitKeepAlive", "bSendKeepAlive"}) EXCEPT !.keep = 0]

\* vTCPStateChange().  The event bits and the parent socket are in TcpSockets.
StateChange(s, state) == Touch([s EXCEPT !.state = state])

\* prvTCPReturnPacket() for a socket: `len' units from ulOurSequenceNumber on.  A FIN
\* that does not follow them is suppressed, except in a keep-alive.
ReturnPacket(c, len) ==
    LET keepAlive == "bSendKeepAlive" \in c.s.bits
        seq == IF keepAlive THEN c.s.our - 1 ELSE c.s.our
        kept == IF keepAlive \/ c.s.our + len = c.s.fin THEN c.flags ELSE c.flags \ {"FIN"}
        told == Clear(c.s, {"bWinChange", "bSendKeepAlive"})
    IN  [c EXCEPT !.s = IF keepAlive THEN Set(told, {"bWaitKeepAlive"}) ELSE told,
                  !.flags = kept,
                  !.out = @ \cup {Packet(kept, seq, c.s.rx, len)}]

\* prvTCPSendSpecialPacketHelper(): the packet goes back with its numbers swapped.
Special(p, flags) == Packet(flags, p.ack, p.seq, 0)

Reset(p) == Special(p, {"ACK", "RST"})

ChallengeAck(p) == Special(p, {"ACK"})

-----------------------------------------------------------------------------
(* Sending                                                                 *)

\* prvTCPPrepareConnect() with prvTCPCreateWindow(): only with the peer's address.
PrepareConnect(s, arpHit) ==
    IF ~arpHit THEN [s EXCEPT !.rep = @ + 1]
    ELSE Set([s EXCEPT !.rep = 0, !.rx = 0, !.our = 0, !.cur = 0, !.high = 0, !.next = 0], {"bConnPrepared"})

\* prvTCPSendPacket() in eCONNECT_SYN, with prvTCPMakeSurePrepared()
SendSyn(c, arpHit) ==
    IF c.s.rep >= MaxRepCount THEN [c EXCEPT !.s = StateChange(c.s, "eCLOSE_WAIT")]
    ELSE LET s == IF "bConnPrepared" \in c.s.bits THEN c.s ELSE PrepareConnect(c.s, arpHit)
         IN  IF "bConnPrepared" \in s.bits
             THEN ReturnPacket([c EXCEPT !.s = [s EXCEPT !.rep = @ + 1], !.flags = {"SYN"}], 0)
             ELSE [c EXCEPT !.s = s]

\* prvTCPAddTxData(): units written become segments, as far as there are descriptors.
AddTxData(s, pool) ==
    LET new == IF pool /\ s.head > 0 THEN s.next .. s.head ELSE {}
    IN  [s EXCEPT !.segs = @ \cup new, !.next = @ + Cardinality(new)]

Lowest(S) == CHOOSE u \in S : \A v \in S : u <= v

\* ulTCPWindowTxGet(): a segment that is due again, else the first unsent one.
TxGet(c) ==
    LET again == c.due \cap c.s.segs
        unsent == c.s.segs \ c.s.sent
        s == [c.s EXCEPT !.our = c.s.high]
    IN  IF c.s.head = 0 THEN [c EXCEPT !.len = 0]
        ELSE IF again # {}
        THEN [c EXCEPT !.s = [s EXCEPT !.our = Lowest(again)], !.due = @ \ {Lowest(again)}, !.len = 1]
        ELSE IF unsent # {}
        THEN [c EXCEPT !.s = [s EXCEPT !.our = Lowest(unsent), !.sent = @ \cup {Lowest(unsent)},
                                       !.high = Lowest(unsent) + 1], !.len = 1]
        ELSE [c EXCEPT !.s = s, !.len = 0]

\* The FIN that goes with the last unit (bCloseRequested).
FinWithLastUnit(c) ==
    IF c.len = 1 /\ "bCloseRequested" \in c.s.bits /\ c.s.our = c.s.head
    THEN [c EXCEPT !.flags = @ \cup {"FIN"}, !.s = Set([@ EXCEPT !.fin = c.s.our + 1], {"bFinSent"})]
    ELSE c

\* xTCPWindowTxDone()
TxDone(s) == s.segs = {}

\* The FIN of FreeRTOS_shutdown(), when xTCPWindowTxDone().
ShutdownFin(c) ==
    IF c.s.state = "eESTABLISHED" /\ "bUserShutdown" \in c.s.bits /\ TxDone(c.s)
    THEN [c EXCEPT !.flags = @ \cup {"FIN"},
                   !.s = StateChange([Set(Clear(c.s, {"bUserShutdown"}), {"bFinSent", "bWinChange"})
                                         EXCEPT !.fin = c.s.cur], "eFIN_WAIT_1")]
    ELSE c

\* Fault: an end that does not answer is asked for ever.
KeepAliveForEver(c) ==
    IF c.len = 0 /\ "bWinChange" \notin c.s.bits /\ c.quiet
    THEN [c EXCEPT !.quiet = FALSE, !.s = Set([@ EXCEPT !.keep = @ + 1], {"bSendKeepAlive"})]
    ELSE c

\* Keep-alive: ask after a quiet time, give up after too many questions.
KeepAlive(c) ==
    IF c.s.keep > MaxKeepRepCount
    THEN [c EXCEPT !.s = StateChange(c.s, "eCLOSE_WAIT"), !.len = -1]
    ELSE IF c.len = 0 /\ "bWinChange" \notin c.s.bits /\ c.quiet
    THEN [c EXCEPT !.quiet = FALSE, !.s = Set([@ EXCEPT !.keep = @ + 1], {"bSendKeepAlive"})]
    ELSE c

\* prvTCPPrepareSend(): c.ready says whether there is something to send.
PrepareSend(c) ==
    LET got == FinWithLastUnit(TxGet([c EXCEPT !.flags = @ \cup {"ACK"}]))
        shut == IF got.s.state = "eESTABLISHED" THEN KeepAlive(ShutdownFin(got)) ELSE got
        ready == \/ shut.len > 0
                 \/ shut.len = 0 /\ shut.s.bits \cap {"bWinChange", "bSendKeepAlive"} # {}
    IN  [shut EXCEPT !.ready = ready,
                     !.flags = IF ready
                               THEN (@ \ {"PSH"}) \cup (IF shut.len = 1 THEN {"PSH"} ELSE {})
                               ELSE @]

\* One turn of the loop in prvTCPSendRepeated().  A buffer that the driver does not
\* take over is used again, with the flags that were set in it.
SendOne(c) ==
    IF ~c.ready THEN c
    ELSE LET d == PrepareSend(IF ZeroCopyTxDriver THEN [c EXCEPT !.flags = {"ACK"}] ELSE c)
         IN  IF d.ready THEN ReturnPacket(d, d.len) ELSE d

\* prvTCPSendRepeated()
SendRepeated(c) ==
    FoldLeft(LAMBDA d, n : SendOne(d), [c EXCEPT !.ready = TRUE], [n \in 1 .. SendRepeatedCount |-> n])

-----------------------------------------------------------------------------
(* Receiving                                                               *)

\* lTCPWindowRxCheck() of one unit: the rxStream takes it, and what waited behind it.
RxCheck(s, u, pool) ==
    LET waiting == s.ahead \cup {u}
        end == CHOOSE n \in u + 1 .. u + Cardinality(waiting) :
                   n \notin s.ahead /\ \A k \in u + 1 .. n - 1 : k \in s.ahead
    IN  IF u = s.rx
        THEN [s EXCEPT !.rx = end, !.got = @ \cup (u .. end - 1), !.ahead = @ \ (u .. end - 1)]
        ELSE IF u > s.rx /\ pool THEN [s EXCEPT !.ahead = waiting]
        ELSE s

\* prvStoreRxData(), with the highest number seen
StoreRxData(s, p, pool) ==
    LET high == [s EXCEPT !.rxHigh = IF p.seq + p.len > @ THEN p.seq + p.len ELSE @]
    IN  IF p.len = 1 /\ s.state \in {"eSYN_RECEIVED"} \cup PastHandshake
        THEN RxCheck(high, p.seq, pool)
        ELSE high

\* xTCPWindowRxEmpty()
RxEmpty(s) == s.ahead = {} /\ s.rx >= s.rxHigh

\* ulTCPWindowTxAck(): the segments from tx.ulCurrentSequenceNumber on, without a gap.
TxAck(s, ack) ==
    LET confirmed == {u \in s.segs : u >= s.cur /\ u < ack /\ s.cur .. u \subseteq s.segs}
    IN  IF ack <= s.cur THEN s
        ELSE [s EXCEPT !.segs = @ \ confirmed, !.sent = @ \ confirmed, !.cur = @ + Cardinality(confirmed)]

\* Fault: any acknowledgement counts as that of the FIN.
AcksFinAny(s, ack) == ack >= s.fin

\* Is our FIN acknowledged?  (in prvTCPHandleFin())
AcksFin(s, ack) == ack = s.fin + 1

\* prvTCPHandleFin(): c.ready says whether it answers.
HandleFin(c, p) ==
    LET s1 == IF "FIN" \in p.flags THEN [c.s EXCEPT !.rx = c.s.rxFin + 1] ELSE c.s
        s2 == IF "bFinSent" \notin s1.bits THEN Set([s1 EXCEPT !.fin = s1.cur], {"bFinSent"})
              ELSE IF AcksFin(s1, p.ack) THEN Set(s1, {"bFinAcked"}) ELSE s1
        done == "bFinAcked" \in s2.bits
        s3 == [s2 EXCEPT !.cur = IF done THEN s2.fin + 1 ELSE s2.fin]
        s4 == IF ~done THEN StateChange(s3, "eLAST_ACK")
              ELSE IF "bFinRecv" \in s3.bits THEN StateChange(s3, "eCLOSE_WAIT") ELSE s3
        flags == IF ~done THEN {"ACK", "FIN"}
                 ELSE IF "bFinRecv" \in s3.bits /\ "bFinLast" \notin s3.bits THEN {"ACK"} ELSE {}
    IN  [c EXCEPT !.s = [s4 EXCEPT !.our = s4.cur], !.flags = flags, !.len = 0, !.ready = flags # {}]

\* prvHandleSynReceived(), in eCONNECT_SYN and eSYN_RECEIVED
HandleSynReceived(c, p) ==
    LET active == c.s.state = "eCONNECT_SYN"
        expect == IF active THEN {"ACK", "SYN"} ELSE {"ACK"}
        s1 == IF active
              THEN [c.s EXCEPT !.rxHigh = p.seq + 1, !.rx = p.seq + 1,
                               !.high = c.s.our, !.cur = c.s.our + 1, !.next = c.s.our + 1]
              ELSE IF p.len = 0 THEN [c.s EXCEPT !.rx = p.seq, !.misled = p.seq # c.s.rx] ELSE c.s
    IN  IF p.flags \cap {"ACK", "RST", "SYN", "FIN"} # expect
        THEN [c EXCEPT !.s = [StateChange(c.s, "eCLOSE_WAIT") EXCEPT !.our = p.ack, !.rx = p.seq],
                       !.flags = p.flags \cup {"RST"}, !.len = 0, !.ready = TRUE]
        ELSE [c EXCEPT !.s = StateChange([s1 EXCEPT !.our = 1], "eESTABLISHED"),
                       !.flags = {"ACK"}, !.len = 0, !.ready = active \/ p.len = 1]

\* Fault: a FIN is accepted although earlier data is missing.
MayCloseUnchecked(s, p) ==
    \/ "bFinSent" \in s.bits
    \/ TxDone(s)

\* Is a FIN taken now?  (in prvHandleEstablished())
MayClose(s, p) ==
    \/ "bFinSent" \in s.bits
    \/ RxEmpty(s) /\ TxDone(s) /\ p.seq + p.len - s.rx <= 1

\* prvHandleEstablished()
HandleEstablished(c, p, pool) ==
    LET s1 == IF "ACK" \in p.flags THEN TxAck(c.s, p.ack) ELSE c.s
        s2 == AddTxData(s1, pool)
        s3 == [s2 EXCEPT !.our = s2.cur]
        asked == "bFinAccepted" \in s3.bits \/ "FIN" \in p.flags
        s4 == IF p.len = 1 /\ "bFinSent" \in s3.bits THEN [s3 EXCEPT !.cur = s3.fin] ELSE s3
        d == PrepareSend([c EXCEPT !.s = s4, !.flags = {"ACK"}])
    IN  IF asked /\ MayClose(s3, p) THEN HandleFin([c EXCEPT !.s = Set(s3, {"bFinAccepted"})], p)
        ELSE [d EXCEPT !.ready = @ \/ p.len = 1, !.len = IF d.ready THEN @ ELSE 0]

\* prvSendData(): the answer is sent, or kept for a while if it only acknowledges.
SendData(c, p, delay) ==
    IF delay /\ p.len = 1 /\ "bFinSent" \notin c.s.bits /\ c.len = 0
       /\ c.s.state = "eESTABLISHED" /\ c.flags = {"ACK"}
    THEN [c EXCEPT !.s = [@ EXCEPT !.delayed = TRUE], !.ready = FALSE]
    ELSE ReturnPacket([c EXCEPT !.s = [@ EXCEPT !.delayed = FALSE]], c.len)

\* The SYN+ACK, in eSYN_FIRST (prvTCPHandleState())
HandleSynFirst(c, p) ==
    [c EXCEPT !.s = [StateChange(c.s, "eSYN_RECEIVED") EXCEPT !.rxHigh = p.seq + 1, !.rx = p.seq + 1,
                                                              !.next = 1, !.cur = 1],
              !.flags = {"SYN", "ACK"}, !.len = 0, !.ready = TRUE]

\* What prvTCPHandleState() notes of a packet before it looks at the state.
NoteFin(s, p) ==
    IF "FIN" \in p.flags /\ "bFinRecv" \notin s.bits
    THEN Set([s EXCEPT !.rxFin = p.seq + p.len],
             {"bFinRecv"} \cup (IF "bFinSent" \in s.bits THEN {} ELSE {"bFinLast"}))
    ELSE s

\* prvTCPHandleState(): a repeated SYN starts the answer to it again, and the
\* packet goes to the handler of the state.  Then SendData.
HandleState(c, p, pool, delay) ==
    LET s1 == IF c.s.state \in PastHandshake /\ c.s.rx = p.seq + 1
              THEN Set(c.s, {"bWinChange"}) ELSE c.s
        s2 == StoreRxData(s1, p, pool)
        s3 == IF s2.state = "eSYN_RECEIVED" /\ p.flags = {"SYN"}
              THEN StateChange(s2, "eSYN_FIRST") ELSE s2
        d == [c EXCEPT !.s = NoteFin(s3, p)]
        h == CASE d.s.state = "eSYN_FIRST" -> HandleSynFirst(d, p)
               [] d.s.state \in {"eCONNECT_SYN", "eSYN_RECEIVED"} -> HandleSynReceived(d, p)
               [] d.s.state = "eESTABLISHED" -> HandleEstablished(d, p, pool)
               [] d.s.state \in {"eLAST_ACK", "eFIN_WAIT_1"} -> HandleFin(d, p)
    IN  IF h.ready THEN SendData(h, p, delay) ELSE h

-----------------------------------------------------------------------------
(* xProcessReceivedTCPPacket()                                             *)

Context(s, due, quiet) ==
    [s |-> s, out |-> {}, flags |-> {"ACK"}, len |-> 0, ready |-> FALSE, due |-> due, quiet |-> quiet]

\* No socket that is active: everything but an ACK or a RST is answered by a RST.
Refused(s, p) ==
    [Context(s, {}, FALSE) EXCEPT
        !.out = IF p.flags # {"ACK"} /\ "RST" \notin p.flags THEN {Reset(p)} ELSE {}]

\* A RST closes the connection only where its number is expected (RFC 5961).  The
\* code sends the challenge ACK for numbers up to the end of its window; no more is
\* sent here than fits in it, so that every later number is within.
HandleReset(s, p) ==
    LET c == Context([s EXCEPT !.rep = 0], {}, FALSE)
    IN  IF s.state = "eCONNECT_SYN"
        THEN IF p.ack = s.our + 1 THEN [c EXCEPT !.s = StateChange(c.s, "eCLOSED")] ELSE c
        ELSE IF p.seq = s.rx THEN [c EXCEPT !.s = StateChange(c.s, "eCLOSED")]
        ELSE IF p.seq > s.rx THEN [c EXCEPT !.out = {ChallengeAck(p)}]
        ELSE c

\* prvHandleListen(): the socket that will be the server's end.
HandleListen(p) == [Fresh EXCEPT !.state = "eSYN_FIRST", !.rx = p.seq]

\* An active socket handles the packet, and sends what it can if it answered.
Handle(s, p, pool, delay, due, quiet) ==
    LET c == HandleState(Context(Touch([s EXCEPT !.rep = 0]), due, quiet), p, pool, delay)
    IN  IF c.ready THEN SendRepeated(c) ELSE c

\* The socket's side of xProcessReceivedTCPPacket().
Process(s, p, pool, delay, due, quiet) ==
    IF s = [Fresh EXCEPT !.state = "gone"] /\ p.flags = {"SYN"}
    THEN Handle(HandleListen(p), p, pool, delay, due, quiet)
    ELSE IF ~IsActive(s) THEN Refused(s, p)
    ELSE IF "RST" \in p.flags THEN HandleReset(s, p)
    ELSE IF p.flags = {"SYN"} /\ s.state \in PastHandshake THEN Context([s EXCEPT !.rep = 0], {}, FALSE)
    ELSE Handle(s, p, pool, delay, due, quiet)

\* The packets of c are on their way; those for which there is no room are lost.
Posted(e, c, rest) ==
    /\ socket' = [socket EXCEPT ![e] = c.s]
    /\ LET there == wire[Peer(e)] \cup c.out
       IN  wire' = [wire EXCEPT ![e] = rest,
                                ![Peer(e)] = IF Cardinality(there) <= MaxWire THEN there ELSE @]

Pool == IF PoolRunsOut THEN BOOLEAN ELSE {TRUE}

\* Which outstanding segments have waited long enough.
Due(s) == {{}, s.sent}

Receive(e) ==
    \E p \in wire[e], again \in {FALSE, Duplicates}, pool \in Pool, delay \in BOOLEAN :
    \E due \in Due(socket[e]) :
        Posted(e, Process(socket[e], p, pool, delay, due, FALSE), IF again THEN wire[e] ELSE wire[e] \ {p})

Lose(e) == \E p \in wire[e] : wire' = [wire EXCEPT ![e] = @ \ {p}] /\ UNCHANGED socket

-----------------------------------------------------------------------------
(* xTCPSocketCheck(), called by xTCPTimerCheck()                           *)

\* prvTCPStatusAgeCheck()
AgeCheck(s, old) ==
    IF old /\ s.state \in {"eCONNECT_SYN", "eSYN_FIRST", "eSYN_RECEIVED", "eFIN_WAIT_1", "eLAST_ACK"}
    THEN StateChange(s, "eCLOSE_WAIT")
    ELSE s

\* The acknowledgement that was kept is sent, unless the user shuts down.
SendDelayed(c) ==
    IF ~c.s.delayed THEN c
    ELSE LET d == [c EXCEPT !.s = [@ EXCEPT !.delayed = FALSE]]
         IN  IF "bUserShutdown" \in c.s.bits \/ c.s.state = "eCLOSED" THEN d ELSE ReturnPacket(d, 0)

\* `later': the acknowledgement was sent and nothing else is due soon.
SocketCheck(e, due, quiet, old, pool, later) ==
    LET s1 == IF socket[e].state \in PastHandshake THEN AddTxData(socket[e], pool) ELSE socket[e]
        c2 == SendDelayed(Context(s1, due, quiet))
        c3 == IF c2.s.state = "eCONNECT_SYN" THEN SendSyn(c2, pool)
              ELSE IF c2.s.state \in PastHandshake THEN SendRepeated(c2)
              ELSE c2
        c == IF s1.delayed /\ "bUserShutdown" \notin s1.bits /\ later THEN c2
             ELSE [c3 EXCEPT !.s = AgeCheck(c3.s, old)]
    IN  Posted(e, c, wire[e])

Timer(e) ==
    /\ socket[e].state # "gone"
    /\ \E due \in Due(socket[e]), quiet \in BOOLEAN, old \in BOOLEAN, pool \in Pool, later \in BOOLEAN :
          SocketCheck(e, due, quiet, old, pool, later)

-----------------------------------------------------------------------------
(* The users                                                               *)

\* prvTCPConnectStart(), once
Connect ==
    /\ socket["client"] = Fresh
    /\ socket' = [socket EXCEPT !["client"] = StateChange(@, "eCONNECT_SYN")]
    /\ UNCHANGED wire

\* prvTCPSendCheck(): for a user who waited for the connection
MaySend(s) == s.state = "eESTABLISHED" /\ "bFinSent" \notin s.bits

\* FreeRTOS_send() of one unit
Send(e) ==
    LET s == socket[e]
    IN  /\ MaySend(s)
        /\ s.head < Units[e]
        /\ socket' = [socket EXCEPT ![e] =
                Set([s EXCEPT !.head = @ + 1],
                    IF e \in CloseAfterSend /\ s.head + 1 = Units[e] THEN {"bCloseRequested"} ELSE {})]
        /\ UNCHANGED wire

\* FreeRTOS_shutdown()
Shutdown(e) ==
    /\ e \in UserCloses
    /\ socket[e].state = "eESTABLISHED"
    /\ socket' = [socket EXCEPT ![e] = Set(@, {"bUserShutdown"})]
    /\ UNCHANGED wire

\* vSocketClose(): the socket is freed, whatever its state.
Close(e) ==
    /\ e \in UserCloses
    /\ socket[e].state \in PastHandshake \cup {"eCONNECT_SYN", "eCLOSED"}
    /\ socket[e] # Fresh
    /\ socket' = [socket EXCEPT ![e].state = "gone"]
    /\ UNCHANGED wire

Next ==
    \/ Connect
    \/ \E e \in Ends : Receive(e) \/ Lose(e) \/ Timer(e) \/ Send(e) \/ Shutdown(e) \/ Close(e)

Spec == Init /\ [][Next]_vars

-----------------------------------------------------------------------------
(* Properties                                                              *)

\* Types; no end asks, or repeats its SYN, more often than the code's limits say
\* (prvTCPSendPacket(), prvTCPPrepareSend()).
TypeOK ==
    /\ \A e \in Ends :
          LET s == socket[e]
          IN  /\ s.state \in States /\ s.bits \subseteq Bits
              /\ {s.our, s.cur, s.next, s.high, s.fin, s.rx, s.rxHigh, s.rxFin} \subseteq -1 .. Units["client"] + Units["server"] + 2
              /\ s.sent \subseteq s.segs /\ s.segs \subseteq 1 .. Units[e]
              /\ s.rep \in 0 .. MaxRepCount /\ s.keep \in 0 .. MaxKeepRepCount + 1
    /\ \A e \in Ends : Cardinality(wire[e]) <= MaxWire

\* Was the expected number never taken from a bare ACK that came out of turn
\* (prvHandleSynReceived())?
Guided == \A e \in Ends : ~socket[e].misled

\* What was cut into segments and is in no segment any more, the peer has, and a FIN
\* counts as acknowledged only when the peer took note of it: across the handshake,
\* retries and both closes nothing is taken as acknowledged that was lost
\* (prvHandleEstablished(), ulTCPWindowTxAck(), prvTCPHandleFin()).  This is claimed for
\* one user who closes (UserCloses), and while there are descriptors (~PoolRunsOut).
ConfirmedReceived ==
    Guided => \A e \in Ends :
        /\ 1 .. socket[e].next - 1 \subseteq socket[e].segs \cup socket[Peer(e)].got
        /\ "bFinAcked" \in socket[e].bits => "bFinRecv" \in socket[Peer(e)].bits

\* An end that takes the FIN of the other has all that came before it, in whatever
\* order data and FIN arrive (prvHandleEstablished()); and the FIN that
\* FreeRTOS_shutdown() asks for comes after all that the user wrote, "it will first
\* deliver all data queued for transmission" (prvTCPPrepareSend()).  Both are claimed
\* while there are descriptors: with PoolRunsOut the code breaks that promise, as an
\* empty list of segments is taken for the end of the data.
FinComplete ==
    /\ Guided => \A e \in Ends :
           "bFinAccepted" \in socket[e].bits => 1 .. socket[e].rxFin - 1 \subseteq socket[e].got
    /\ \A e \in Ends : socket[e].state = "eFIN_WAIT_1" => socket[e].fin > socket[e].head

\* "Before being called, it has been checked that both reception and transmission are
\* complete": the end that prvTCPHandleFin() lets answer a FIN has all that came before it.
ReceptionComplete ==
    Guided => \A e \in Ends :
        LET s == socket[e]
        IN  s.state = "eLAST_ACK" /\ "bFinRecv" \in s.bits /\ s.rx = s.rxFin + 1
            => 1 .. s.rxFin - 1 \subseteq s.got
==============================================================================
