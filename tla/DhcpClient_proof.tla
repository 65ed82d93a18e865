-------------------------- MODULE DhcpClient_proof --------------------------
(***************************************************************************)
(* The DHCP client for every number of servers, addresses, events, packets *)
(* and faults: the safety properties of DhcpClient, proved from the        *)
(* inductive invariant IInv.                                               *)
(***************************************************************************)
EXTENDS DhcpClient, TLAPS

First == "eWaitingSendFirstDiscover"

Event == [type : {"eNetworkDownEvent", "eNetworkRxEvent", "eDHCPEvent", "eARPTimerEvent"},
          state : States, message : Message]

Socket == [open : BOOLEAN, packets : Seq(Message)]

Dhcp == [state : States, offered : Addresses \cup {None},
         server : Servers \cup {None}, period : 0 .. MaxPeriod, waited : BOOLEAN]

QueueOK(q) == q \in Seq(Event) /\ Len(q) <= QueueLength

\* A socket that is closed has no packets.
SocketOK(sock) ==
    sock \in Socket /\ Len(sock.packets) <= MaxPackets /\ (~sock.open => sock.packets = << >>)

\* What vDHCPProcess() changes
ClientOK ==
    /\ dhcp \in Dhcp /\ SocketOK(socket) /\ SocketMatchesState
    /\ timer \in {"off", "poll", "lease"} /\ networkUp \in BOOLEAN
    /\ localIP \in Addresses \cup {None, Default}
    /\ toServer \in [Servers -> Message]
    /\ faults \in 0 .. MaxFaults

TaskOK ==
    /\ QueueOK(queue) /\ pending \in BOOLEAN /\ turnEnds \in BOOLEAN
    /\ promised \in [Servers -> Addresses \cup {None}]
    /\ replies \subseteq Message

\* A server that has acknowledged the transaction keeps what it promised, for no
\* request for another offer can reach it.
Kept(server, ip) == server \in Servers /\ ip = promised[server] /\ toServer[server].type # "DISCOVER"

AcksKept == \A m \in Unread : m.current /\ m.type = "ACK" => Kept(m.server, m.ip)

\* Before the first message of a transaction nothing belongs to it.
NothingCurrent ==
    dhcp.state = First => (\A m \in Unread : ~m.current) /\ (\A s \in Servers : ~toServer[s].current)

LeaseKept == dhcp.state = "eLeasedAddress" => Kept(dhcp.server, localIP)

Agreed == AcksKept /\ NothingCurrent /\ LeaseKept

IInv == ClientOK /\ TaskOK /\ Agreed

LEMMA Implied == IInv => TypeOK /\ LeaseAgreed /\ SocketMatchesState
<1>. SUFFICES ASSUME IInv PROVE TypeOK /\ LeaseAgreed /\ SocketMatchesState
  OBVIOUS
<1>1. \A e \in Range(queue) : e.state \in States /\ e.message \in Message
  <2>1. queue \in Seq(Event)
    BY DEF IInv, TaskOK, QueueOK
  <2>2. \A i \in DOMAIN queue : queue[i] \in Event
    BY <2>1
  <2>3. \A e \in Event : e.state \in States /\ e.message \in Message
    BY DEF Event
  <2>. QED
    BY <2>2, <2>3 DEF Range
<1>2. socket.open \in BOOLEAN /\ Range(socket.packets) \subseteq Message /\ Len(socket.packets) <= MaxPackets
  BY DEF IInv, ClientOK, SocketOK, Socket, Range
<1>3. TypeOK
  BY <1>1, <1>2, Zenon DEF IInv, ClientOK, TaskOK, QueueOK, Dhcp, TypeOK
<1>. QED
  BY <1>3 DEF IInv, ClientOK, Agreed, LeaseKept, Kept, LeaseAgreed

-----------------------------------------------------------------------------
(* Queues and packets                                                      *)

Messages(q) == {q[i].message : i \in DOMAIN q}

LEMMA UnreadParts ==
    \A m : m \in Unread <=> m \in replies \/ m \in Messages(queue) \/ m \in Range(socket.packets)
BY DEF Unread, Messages

LEMMA NothingType == Nothing \in Message /\ ~Nothing.current
BY DEF Nothing, Message

LEMMA OldType == ASSUME NEW m \in Message
                 PROVE  Old(m) \in Message /\ ~Old(m).current /\ Old(m).type = m.type
BY DEF Old, Message

LEMMA TailQueue ==
    ASSUME NEW q, QueueOK(q), q # << >>
    PROVE  /\ QueueOK(Tail(q)) /\ Messages(Tail(q)) \subseteq Messages(q)
           /\ q[1] \in Event /\ q[1].message \in Messages(q)
<1>1. q \in Seq(Event) /\ Len(q) \in Nat /\ Len(q) >= 1 /\ Len(q) <= QueueLength
  BY DEF QueueOK
<1>2. Tail(q) \in Seq(Event) /\ Len(Tail(q)) = Len(q) - 1
  BY <1>1
<1>3. \A i \in DOMAIN Tail(q) : i + 1 \in DOMAIN q /\ Tail(q)[i] = q[i + 1]
  BY <1>1, <1>2
<1>4. 1 \in DOMAIN q
  BY <1>1
<1>5. QueueLength \in Nat
  BY DhcpAssumption
<1>. QED
  BY <1>1, <1>2, <1>3, <1>4, <1>5 DEF QueueOK, Messages

LEMMA QueuedOK ==
    ASSUME NEW q, QueueOK(q), NEW e \in Event
    PROVE  QueueOK(Queued(q, e)) /\ Messages(Queued(q, e)) \subseteq Messages(q) \cup {e.message}
<1>1. q \in Seq(Event) /\ Len(q) \in Nat /\ QueueLength \in Nat /\ Len(q) <= QueueLength
  BY DhcpAssumption DEF QueueOK
<1>2. CASE ~Fits(q)
  <2>1. Queued(q, e) = q
    BY <1>2 DEF Queued
  <2>. QED
    BY <2>1
<1>3. CASE Fits(q)
  <2>1. Queued(q, e) = Append(q, e)
    BY <1>3 DEF Queued
  <2>2. Append(q, e) \in Seq(Event) /\ Len(Append(q, e)) = Len(q) + 1
    BY <1>1
  <2>3. \A i \in DOMAIN Append(q, e) : Append(q, e)[i] = e \/ (i \in DOMAIN q /\ Append(q, e)[i] = q[i])
    BY <1>1
  <2>4. Messages(Append(q, e)) \subseteq Messages(q) \cup {e.message}
    BY <2>3 DEF Messages
  <2>5. Len(q) < QueueLength
    BY <1>3 DEF Fits
  <2>. QED
    BY <1>1, <2>1, <2>2, <2>4, <2>5 DEF QueueOK
<1>. QED
  BY <1>2, <1>3

LEMMA OldQueue ==
    ASSUME NEW q, QueueOK(q)
    PROVE  QueueOK(OldEvents(q)) /\ \A m \in Messages(OldEvents(q)) : ~m.current
<1>1. q \in Seq(Event) /\ DOMAIN q = 1 .. Len(q) /\ Len(q) \in Nat
  BY DEF QueueOK
<1>2. \A i \in DOMAIN q : q[i] \in Event /\ q[i].message \in Message
  <2>1. \A i \in DOMAIN q : q[i] \in Event
    BY <1>1
  <2>2. \A e \in Event : e.message \in Message
    BY DEF Event
  <2>. QED
    BY <2>1, <2>2
<1>3. \A i \in DOMAIN q : /\ [q[i] EXCEPT !.message = Old(q[i].message)] \in Event
                          /\ [q[i] EXCEPT !.message = Old(q[i].message)].message = Old(q[i].message)
  BY <1>2, OldType DEF Event
<1>4. OldEvents(q) \in Seq(Event) /\ Len(OldEvents(q)) = Len(q) /\ DOMAIN OldEvents(q) = DOMAIN q
  BY <1>1, <1>3 DEF OldEvents
<1>5. \A i \in DOMAIN q : ~OldEvents(q)[i].message.current
  BY <1>2, <1>3, OldType DEF OldEvents
<1>. QED
  BY <1>4, <1>5 DEF QueueOK, Messages

\* FreeRTOS_recvfrom() leaves a socket with packets that it had.
LEMMA ReceivedOK ==
    ASSUME SocketOK(socket)
    PROVE  /\ SocketOK(Received) /\ Received.open = socket.open
           /\ Range(Received.packets) \subseteq Range(socket.packets)
<1>1. socket \in Socket /\ socket.packets \in Seq(Message) /\ Len(socket.packets) <= MaxPackets
  BY DEF SocketOK, Socket
<1>2. CASE socket.packets = << >>
  <2>1. Received = socket
    BY <1>1, <1>2 DEF Received, Socket
  <2>. QED
    BY <2>1
<1>3. CASE socket.packets # << >>
  <2>. DEFINE p == socket.packets
  <2>1. Received.open = socket.open /\ Received.packets = Tail(p) /\ Received = [socket EXCEPT !.packets = Tail(p)]
    BY <1>1, <1>3 DEF Received, Socket
  <2>2. Tail(p) \in Seq(Message) /\ Len(Tail(p)) = Len(p) - 1 /\ Len(p) \in Nat /\ Len(p) >= 1
    BY <1>1, <1>3
  <2>3. \A i \in DOMAIN Tail(p) : i + 1 \in DOMAIN p /\ Tail(p)[i] = p[i + 1]
    BY <1>1, <2>2
  <2>4. Range(Tail(p)) \subseteq Range(p)
    BY <2>3 DEF Range
  <2>5. Received \in Socket
    BY <1>1, <2>1, <2>2 DEF Socket
  <2>6. socket.open
    BY <1>3 DEF SocketOK
  <2>7. MaxPackets \in Nat
    BY DhcpAssumption
  <2>. QED
    BY <1>1, <2>1, <2>2, <2>4, <2>5, <2>6, <2>7 DEF SocketOK
<1>. QED
  BY <1>2, <1>3

LEMMA OldSocket ==
    ASSUME NEW sock, SocketOK(sock)
    PROVE  /\ SocketOK(OldPackets(sock)) /\ OldPackets(sock).open = sock.open
           /\ \A m \in Range(OldPackets(sock).packets) : ~m.current
<1>. DEFINE p == sock.packets
            old == [i \in DOMAIN p |-> Old(p[i])]
<1>1. sock \in Socket /\ p \in Seq(Message) /\ Len(p) <= MaxPackets /\ DOMAIN p = 1 .. Len(p) /\ Len(p) \in Nat
  BY DEF SocketOK, Socket
<1>2. \A i \in DOMAIN p : Old(p[i]) \in Message /\ ~Old(p[i]).current
  BY <1>1, OldType
<1>3. old \in Seq(Message) /\ Len(old) = Len(p) /\ DOMAIN old = DOMAIN p
  BY <1>1, <1>2
<1>4. OldPackets(sock) = [sock EXCEPT !.packets = old]
  BY DEF OldPackets
<1>5. OldPackets(sock) \in Socket /\ OldPackets(sock).open = sock.open /\ OldPackets(sock).packets = old
  BY <1>1, <1>3, <1>4 DEF Socket
<1>6. \A m \in Range(old) : ~m.current
  BY <1>2 DEF Range
<1>7. p = << >> => old = << >>
  BY <1>1, <1>3
<1>. HIDE DEF old
<1>. QED
  BY <1>1, <1>3, <1>5, <1>6, <1>7 DEF SocketOK

LEMMA ClosedOK == SocketOK(Closed) /\ ~Closed.open /\ Range(Closed.packets) = {}
<1>1. << >> \in Seq(Message) /\ Len(<< >>) = 0 /\ DOMAIN << >> = {}
  OBVIOUS
<1>2. Closed \in Socket /\ Closed.packets = << >> /\ ~Closed.open
  BY <1>1 DEF Closed, Socket
<1>. QED
  BY <1>1, <1>2, DhcpAssumption DEF SocketOK, Range

\* prvCreateDHCPSocket(): a socket that is made is open and empty.
LEMMA CreatedOK ==
    ASSUME SocketOK(socket), NEW made \in BOOLEAN
    PROVE  /\ SocketOK(Created(made)) /\ (made => Created(made).open)
           /\ Range(Created(made).packets) \subseteq Range(socket.packets)
           /\ ~made => Created(made) = socket
<1>1. CASE socket.open \/ ~made
  BY <1>1 DEF Created
<1>2. CASE ~socket.open /\ made
  <2>1. Created(made) = [Closed EXCEPT !.open = TRUE]
    BY <1>2 DEF Created
  <2>2. << >> \in Seq(Message) /\ Len(<< >>) = 0 /\ DOMAIN << >> = {}
    OBVIOUS
  <2>3. Created(made) \in Socket /\ Created(made).packets = << >> /\ Created(made).open
    BY <2>1, <2>2 DEF Closed, Socket
  <2>. QED
    BY <1>2, <2>2, <2>3, DhcpAssumption DEF SocketOK, Range
<1>. QED
  BY <1>1, <1>2

-----------------------------------------------------------------------------
(* What is broadcast                                                       *)

LEMMA FailsOK ==
    ASSUME ClientOK, NEW failed \in BOOLEAN, Fails(failed)
    PROVE  faults' \in 0 .. MaxFaults
BY DhcpAssumption DEF ClientOK, Fails

LEMMA AllOldOK ==
    ASSUME ClientOK, AllOld
    PROVE  /\ toServer' \in [Servers -> Message]
           /\ \A s \in Servers : ~toServer'[s].current /\ toServer'[s].type = toServer[s].type
<1>1. \A s \in Servers : toServer[s] \in Message
  BY DEF ClientOK
<1>. QED
  BY <1>1, OldType DEF AllOld

LEMMA DiscoverOK ==
    ASSUME ClientOK, NEW sent \in BOOLEAN, SendDiscover(sent)
    PROVE  /\ toServer' \in [Servers -> Message]
           /\ ~sent => AllOld
<1>1. [type |-> "DISCOVER", current |-> TRUE, server |-> None, ip |-> None] \in Message
  BY DEF Message
<1>. QED
  BY <1>1, NothingType, AllOldOK DEF SendDiscover, Broadcast

\* A request takes the place of the message before it.
LEMMA RequestOK ==
    ASSUME ClientOK, NEW d \in Dhcp, NEW sent \in BOOLEAN, SendRequest(d, sent)
    PROVE  /\ toServer' \in [Servers -> Message]
           /\ \A s \in Servers : toServer'[s].type = "DISCOVER" => toServer[s].type = "DISCOVER"
<1>. DEFINE m == [type |-> "REQUEST", current |-> TRUE, server |-> d.server, ip |-> d.offered]
<1>1. m \in Message /\ m.type = "REQUEST"
  BY DEF Message, Dhcp
<1>2. Nothing \in Message /\ Nothing.type = "none"
  BY DEF Nothing, Message
<1>. HIDE DEF m
<1>3. CASE sent
  <2>1. toServer' = [s \in Servers |-> IF s \in serving THEN m ELSE Nothing]
    BY <1>3 DEF SendRequest, Broadcast, m
  <2>. QED
    BY <1>1, <1>2, <2>1
<1>4. CASE ~sent
  BY <1>4 DEF SendRequest, ClientOK
<1>. QED
  BY <1>3, <1>4

-----------------------------------------------------------------------------
(* vDHCPProcess(): a transaction goes on, or a new one begins, or the lease *)
(* is there, or nothing happens to it.                                      *)

Carries ==
    /\ Range(socket'.packets) \subseteq Range(socket.packets)
    /\ \A s \in Servers : toServer'[s].type = "DISCOVER" => toServer[s].type = "DISCOVER"
    /\ dhcp'.state \notin {First, "eLeasedAddress"}

Restarts ==
    /\ \A m \in Range(socket'.packets) : ~m.current
    /\ dhcp'.state = First => \A s \in Servers : ~toServer'[s].current
    /\ dhcp'.state = "eLeasedAddress" =>
          /\ dhcp.state = "eLeasedAddress" /\ dhcp'.server = dhcp.server /\ localIP' = localIP
          /\ \A s \in Servers : toServer'[s].type = toServer[s].type

Stays ==
    /\ Range(socket'.packets) \subseteq Range(socket.packets)
    /\ dhcp'.state = dhcp.state /\ dhcp'.server = dhcp.server
    /\ UNCHANGED << localIP, toServer >>

Leases ==
    /\ Range(socket'.packets) = {}
    /\ dhcp'.state = "eLeasedAddress" /\ Kept(dhcp'.server, localIP')
    /\ UNCHANGED toServer

LEMMA InitialWaitOK ==
    ASSUME ClientOK, InitialWait, networkUp' \in BOOLEAN
    PROVE  ClientOK' /\ Restarts
<1>1. PICK made \in BOOLEAN : Fails(~made) /\ socket' = OldPackets(Created(made))
  BY DEF InitialWait
<1>2. SocketOK(Created(made))
  BY CreatedOK DEF ClientOK
<1>3. SocketOK(socket') /\ \A m \in Range(socket'.packets) : ~m.current
  BY <1>1, <1>2, OldSocket
<1>4. /\ toServer' \in [Servers -> Message]
      /\ \A s \in Servers : ~toServer'[s].current
  BY AllOldOK DEF InitialWait
<1>5. faults' \in 0 .. MaxFaults
  BY <1>1, FailsOK
<1>6. dhcp' \in Dhcp /\ dhcp'.state = First
  <2>1. dhcp' = [dhcp EXCEPT !.state = First, !.offered = None, !.server = None, !.period = 0]
    BY DEF InitialWait, First
  <2>2. dhcp \in Dhcp /\ First \in States /\ 0 \in 0 .. MaxPeriod
    BY DhcpAssumption DEF ClientOK, First, States
  <2>. QED
    BY <2>1, <2>2 DEF Dhcp
<1>7. timer' = "poll" /\ localIP' = localIP
  BY DEF InitialWait, TimerStarted
<1>. QED
  BY <1>3, <1>4, <1>5, <1>6, <1>7 DEF ClientOK, SocketMatchesState, Restarts, First

LEMMA GiveUpOK ==
    ASSUME ClientOK, GiveUp
    PROVE  ClientOK' /\ Carries
<1>1. dhcp' \in Dhcp /\ dhcp'.state = "eNotUsingLeasedAddress"
  BY DEF GiveUp, ClientOK, Dhcp, States
<1>2. SocketOK(socket') /\ ~socket'.open /\ Range(socket'.packets) = {}
  BY ClosedOK DEF GiveUp, ClosedSocket
<1>3. /\ localIP' = Default /\ timer' = "off" /\ networkUp' = TRUE
      /\ toServer' = toServer /\ faults' = faults
  BY DEF GiveUp
<1>. QED
  BY <1>1, <1>2, <1>3 DEF ClientOK, SocketMatchesState, Carries, First

LEMMA SendFirstDiscoverOK ==
    ASSUME IInv, dhcp.state = First, SendFirstDiscover
    PROVE  ClientOK' /\ Restarts
<1>1. PICK sent \in BOOLEAN :
        /\ Fails(~sent) /\ SendDiscover(sent)
        /\ dhcp' = [dhcp EXCEPT !.waited = FALSE, !.state = IF sent THEN "eWaitingOffer" ELSE dhcp.state]
  BY DEF SendFirstDiscover
<1>2. ClientOK /\ socket.open /\ localIP' = None /\ UNCHANGED << networkUp, socket, timer >>
  BY DEF SendFirstDiscover, IInv
<1>3. toServer' \in [Servers -> Message] /\ (~sent => \A s \in Servers : ~toServer'[s].current)
  BY <1>1, <1>2, DiscoverOK, AllOldOK
<1>4. faults' \in 0 .. MaxFaults
  BY <1>1, <1>2, FailsOK
<1>5. dhcp' \in Dhcp /\ dhcp'.state = IF sent THEN "eWaitingOffer" ELSE First
  BY <1>1, <1>2 DEF ClientOK, Dhcp, States
<1>6. \A m \in Range(socket'.packets) : ~m.current
  BY <1>2, UnreadParts DEF IInv, Agreed, NothingCurrent
<1>. QED
  BY <1>2, <1>3, <1>4, <1>5, <1>6 DEF ClientOK, SocketMatchesState, Restarts, First

\* The request of a client whose data are d
LEMMA RequestedOK ==
    ASSUME ClientOK, NEW d \in Dhcp, NEW sent \in BOOLEAN
    PROVE  /\ Requested(d, sent) \in Dhcp
           /\ Requested(d, sent).state \in {"eWaitingAcknowledge", "eSendDHCPRequest"}
<1>1. 0 \in 0 .. MaxPeriod /\ {"eWaitingAcknowledge", "eSendDHCPRequest"} \subseteq States
  BY DhcpAssumption DEF States
<1>2. CASE sent
  BY <1>1, <1>2 DEF Requested, Dhcp
<1>3. CASE ~sent
  BY <1>1, <1>3 DEF Requested, Dhcp
<1>. QED
  BY <1>2, <1>3

LEMMA RequestStepOK ==
    ASSUME ClientOK, NEW d \in Dhcp, Request(d), UNCHANGED << networkUp, timer, localIP >>,
           SocketOK(socket'), socket'.open, Range(socket'.packets) \subseteq Range(socket.packets)
    PROVE  ClientOK' /\ Carries
<1>1. PICK sent \in BOOLEAN : Fails(~sent) /\ SendRequest(d, sent) /\ dhcp' = Requested(d, sent)
  BY DEF Request
<1>2. /\ toServer' \in [Servers -> Message]
      /\ \A s \in Servers : toServer'[s].type = "DISCOVER" => toServer[s].type = "DISCOVER"
  BY <1>1, RequestOK
<1>3. faults' \in 0 .. MaxFaults
  BY <1>1, FailsOK
<1>4. dhcp' \in Dhcp /\ dhcp'.state \in {"eWaitingAcknowledge", "eSendDHCPRequest"}
  BY <1>1, RequestedOK
<1>. QED
  BY <1>2, <1>3, <1>4 DEF ClientOK, SocketMatchesState, Carries, First

LEMMA SendDHCPRequestOK ==
    ASSUME ClientOK, dhcp.state = "eSendDHCPRequest", SendDHCPRequest
    PROVE  ClientOK' /\ Carries
<1>1. Request(dhcp) /\ UNCHANGED << networkUp, socket, timer, localIP >>
  BY DEF SendDHCPRequest
<1>2. dhcp \in Dhcp /\ SocketOK(socket) /\ socket.open
  BY DEF ClientOK, SocketMatchesState
<1>. QED
  BY <1>1, <1>2, RequestStepOK

LEMMA TakeOfferOK ==
    ASSUME ClientOK, dhcp.state = "eWaitingOffer", TakeOffer
    PROVE  ClientOK' /\ Carries
<1>. DEFINE d == [dhcp EXCEPT !.server = socket.packets[1].server, !.offered = socket.packets[1].ip]
<1>1. Request(d) /\ socket' = Received /\ UNCHANGED << networkUp, timer, localIP >> /\ socket.packets # << >>
  BY DEF TakeOffer, OfferFound
<1>2. dhcp \in Dhcp /\ SocketOK(socket) /\ socket.open
  BY DEF ClientOK, SocketMatchesState
<1>3. socket.packets[1] \in Message
  <2>1. socket.packets \in Seq(Message)
    BY <1>2 DEF SocketOK, Socket
  <2>. QED
    BY <1>1, <2>1
<1>4. d \in Dhcp
  BY <1>2, <1>3 DEF Dhcp, Message
<1>5. SocketOK(socket') /\ socket'.open /\ Range(socket'.packets) \subseteq Range(socket.packets)
  BY <1>1, <1>2, ReceivedOK
<1>. HIDE DEF d
<1>. QED
  BY <1>1, <1>4, <1>5, RequestStepOK

LEMMA DiscoverAgainOK ==
    ASSUME ClientOK, dhcp.state = "eWaitingOffer", DiscoverAgain
    PROVE  ClientOK' /\ Restarts
<1>. DEFINE d == [dhcp EXCEPT !.period = dhcp.period + 1, !.waited = FALSE]
<1>1. PICK sent \in BOOLEAN :
        /\ Fails(~sent) /\ SendDiscover(sent)
        /\ dhcp' = IF sent THEN d ELSE [d EXCEPT !.state = "eInitialWait"]
  BY DEF DiscoverAgain
<1>2. dhcp.period < MaxPeriod /\ socket' = OldPackets(Received) /\ UNCHANGED << networkUp, timer, localIP >>
  BY DEF DiscoverAgain
<1>3. dhcp \in Dhcp /\ SocketOK(socket) /\ socket.open
  BY DEF ClientOK, SocketMatchesState
<1>4. dhcp.period + 1 \in 0 .. MaxPeriod
  BY <1>2, <1>3, DhcpAssumption DEF Dhcp
<1>5. d \in Dhcp /\ d.state = "eWaitingOffer"
  BY <1>3, <1>4 DEF Dhcp
<1>. HIDE DEF d
<1>6. dhcp' \in Dhcp /\ dhcp'.state \in {"eWaitingOffer", "eInitialWait"}
  BY <1>1, <1>5 DEF Dhcp, States
<1>7. SocketOK(socket') /\ socket'.open /\ \A m \in Range(socket'.packets) : ~m.current
  BY <1>2, <1>3, ReceivedOK, OldSocket
<1>8. toServer' \in [Servers -> Message]
  BY <1>1, DiscoverOK
<1>9. faults' \in 0 .. MaxFaults
  BY <1>1, FailsOK
<1>. QED
  BY <1>2, <1>6, <1>7, <1>8, <1>9 DEF ClientOK, SocketMatchesState, Restarts, First

LEMMA KeepWaitingOK ==
    ASSUME ClientOK, dhcp.state \in {"eWaitingOffer", "eWaitingAcknowledge"}, KeepWaiting
    PROVE  ClientOK' /\ Carries
<1>1. /\ socket' = Received /\ dhcp' \in {dhcp, [dhcp EXCEPT !.state = "eInitialWait"]}
      /\ UNCHANGED << networkUp, timer, localIP, toServer, faults >>
  BY DEF KeepWaiting
<1>2. dhcp \in Dhcp /\ SocketOK(socket) /\ socket.open
  BY DEF ClientOK, SocketMatchesState
<1>3. dhcp' \in Dhcp /\ dhcp'.state \in {"eWaitingOffer", "eWaitingAcknowledge", "eInitialWait"}
  BY <1>1, <1>2 DEF Dhcp, States
<1>4. SocketOK(socket') /\ socket'.open /\ Range(socket'.packets) \subseteq Range(socket.packets)
  BY <1>1, <1>2, ReceivedOK
<1>. QED
  BY <1>1, <1>3, <1>4 DEF ClientOK, SocketMatchesState, Carries, First

LEMMA LeaseOK ==
    ASSUME IInv, dhcp.state = "eWaitingAcknowledge", Lease
    PROVE  ClientOK' /\ Leases
<1>. DEFINE m == socket.packets[1]
<1>1. socket.packets # << >> /\ m.current /\ m.type = "ACK" /\ m.server = dhcp.server
  BY DEF Lease, AckFound, IsValid
<1>2. /\ localIP' = m.ip /\ dhcp' = [dhcp EXCEPT !.state = "eLeasedAddress", !.offered = m.ip]
      /\ networkUp' = TRUE /\ socket' = Closed /\ timer' = "lease" /\ UNCHANGED << toServer, faults >>
  BY DEF Lease, ClosedSocket
<1>3. ClientOK
  BY DEF IInv
<1>4. socket.packets \in Seq(Message) /\ m \in Message /\ m \in Range(socket.packets)
  <2>1. socket.packets \in Seq(Message)
    BY <1>3 DEF ClientOK, SocketOK, Socket
  <2>2. 1 \in DOMAIN socket.packets
    BY <1>1, <2>1
  <2>3. m \in Message
    BY <1>1, <2>1
  <2>. QED
    BY <2>1, <2>2, <2>3 DEF Range
<1>5. Kept(m.server, m.ip)
  BY <1>1, <1>4, UnreadParts DEF IInv, Agreed, AcksKept
<1>6. dhcp' \in Dhcp /\ dhcp'.state = "eLeasedAddress" /\ dhcp'.server = dhcp.server
  BY <1>2, <1>3, <1>4 DEF ClientOK, Dhcp, States, Message
<1>7. SocketOK(socket') /\ ~socket'.open /\ Range(socket'.packets) = {}
  BY <1>2, ClosedOK
<1>8. m.ip \in Addresses \cup {None}
  BY <1>4 DEF Message
<1>. HIDE DEF m
<1>9. Leases
  BY <1>1, <1>2, <1>5, <1>6, <1>7 DEF Leases
<1>. QED
  BY <1>2, <1>3, <1>6, <1>7, <1>8, <1>9 DEF ClientOK, SocketMatchesState

LEMMA RequestAgainOK ==
    ASSUME ClientOK, dhcp.state = "eWaitingAcknowledge", RequestAgain
    PROVE  ClientOK' /\ Carries
<1>1. socket' = Received /\ UNCHANGED << networkUp, timer, localIP >>
  BY DEF RequestAgain
<1>2. dhcp \in Dhcp /\ SocketOK(socket) /\ socket.open
  BY DEF ClientOK, SocketMatchesState
<1>3. SocketOK(socket') /\ socket'.open /\ Range(socket'.packets) \subseteq Range(socket.packets)
  BY <1>1, <1>2, ReceivedOK
<1>4. ASSUME dhcp.period < MaxPeriod, NEW sent \in BOOLEAN,
             NEW d, d = [dhcp EXCEPT !.period = dhcp.period + 1, !.waited = FALSE],
             Fails(~sent), SendRequest(d, sent),
             dhcp' \in {[d EXCEPT !.state = "eSendDHCPRequest"], [d EXCEPT !.state = "eInitialWait"], d}
      PROVE  ClientOK' /\ Carries
  <2>1. dhcp.period + 1 \in 0 .. MaxPeriod
    BY <1>2, <1>4, DhcpAssumption DEF Dhcp
  <2>2. d \in Dhcp /\ d.state = "eWaitingAcknowledge"
    BY <1>2, <1>4, <2>1 DEF Dhcp
  <2>3. dhcp' \in Dhcp /\ dhcp'.state \in {"eWaitingAcknowledge", "eInitialWait", "eSendDHCPRequest"}
    BY <1>4, <2>2 DEF Dhcp, States
  <2>4. /\ toServer' \in [Servers -> Message]
        /\ \A s \in Servers : toServer'[s].type = "DISCOVER" => toServer[s].type = "DISCOVER"
    BY <1>4, <2>2, RequestOK
  <2>5. faults' \in 0 .. MaxFaults
    BY <1>4, FailsOK
  <2>. QED
    BY <1>1, <1>3, <2>3, <2>4, <2>5 DEF ClientOK, SocketMatchesState, Carries, First
<1>5. CASE dhcp' = [dhcp EXCEPT !.state = "eInitialWait"] /\ UNCHANGED << toServer, faults >>
  <2>1. dhcp' \in Dhcp /\ dhcp'.state = "eInitialWait"
    BY <1>2, <1>5 DEF Dhcp, States
  <2>. QED
    BY <1>1, <1>3, <1>5, <2>1 DEF ClientOK, SocketMatchesState, Carries, First
<1>. QED
  BY <1>4, <1>5 DEF RequestAgain

LEMMA RenewOK ==
    ASSUME ClientOK, dhcp.state = "eLeasedAddress", Renew
    PROVE  ClientOK' /\ Restarts
<1>. DEFINE d == [dhcp EXCEPT !.waited = FALSE, !.period = 0]
<1>1. PICK made, sent \in BOOLEAN :
        /\ sent => made
        /\ Fails(~sent)
        /\ socket' = Created(made)
        /\ dhcp' = IF made THEN Requested(d, sent) ELSE dhcp
        /\ timer' = IF made THEN "poll" ELSE timer
        /\ IF sent THEN SendRequest(dhcp, sent) ELSE AllOld
  BY DEF Renew
<1>2. UNCHANGED << networkUp, localIP >>
  BY DEF Renew
<1>3. dhcp \in Dhcp /\ SocketOK(socket) /\ ~socket.open /\ Range(socket.packets) = {}
  <2>1. SocketOK(socket) /\ ~socket.open /\ dhcp \in Dhcp
    BY DEF ClientOK, SocketMatchesState
  <2>2. socket.packets = << >>
    BY <2>1 DEF SocketOK
  <2>. QED
    BY <2>1, <2>2 DEF Range
<1>4. d \in Dhcp
  <2>1. 0 \in 0 .. MaxPeriod
    BY DhcpAssumption
  <2>. QED
    BY <1>3, <2>1 DEF Dhcp
<1>. HIDE DEF d
<1>5. toServer' \in [Servers -> Message]
  BY <1>1, <1>3, RequestOK, AllOldOK
<1>6. faults' \in 0 .. MaxFaults
  BY <1>1, FailsOK
<1>7. SocketOK(socket') /\ (made => socket'.open) /\ Range(socket'.packets) = {} /\ (~made => socket' = socket)
  BY <1>1, <1>3, CreatedOK
<1>8. CASE made
  <2>1. dhcp' \in Dhcp /\ dhcp'.state \in {"eWaitingAcknowledge", "eSendDHCPRequest"} /\ timer' = "poll"
    BY <1>1, <1>4, <1>8, RequestedOK
  <2>. QED
    BY <1>2, <1>5, <1>6, <1>7, <1>8, <2>1 DEF ClientOK, SocketMatchesState, Restarts, First
<1>9. CASE ~made
  <2>1. dhcp' = dhcp /\ socket' = socket /\ timer' = timer /\ AllOld
    BY <1>1, <1>7, <1>9
  <2>2. \A s \in Servers : ~toServer'[s].current /\ toServer'[s].type = toServer[s].type
    BY <2>1, AllOldOK
  <2>. QED
    BY <1>2, <1>5, <1>6, <1>7, <2>1, <2>2 DEF ClientOK, SocketMatchesState, Restarts, First
<1>. QED
  BY <1>8, <1>9

LEMMA TimerOnlyOK ==
    ASSUME ClientOK, timer' \in {"off", "poll", "lease"},
           UNCHANGED << networkUp, dhcp, socket, localIP, toServer, faults >>
    PROVE  ClientOK' /\ Stays
BY DEF ClientOK, SocketMatchesState, Stays

-----------------------------------------------------------------------------
(* What the servers keep                                                   *)

\* A transaction goes on with the messages it had.
LEMMA CarriesOK ==
    ASSUME IInv, Carries, UNCHANGED promised, replies' \subseteq replies,
           Messages(queue') \subseteq Messages(queue) \cup {Nothing}
    PROVE  Agreed'
<1>1. \A m \in Unread' : m \in Unread \/ m = Nothing
  BY UnreadParts DEF Unread, Messages, Carries
<1>2. \A server, ip : Kept(server, ip) => Kept(server, ip)'
  BY DEF Kept, Carries
<1>3. AcksKept'
  BY <1>1, <1>2, NothingType DEF AcksKept, IInv, Agreed
<1>. QED
  BY <1>3 DEF Agreed, NothingCurrent, LeaseKept, Carries

\* A new transaction has no messages.
LEMMA RestartsOK ==
    ASSUME IInv, Restarts, UNCHANGED promised,
           \A m \in replies' : ~m.current, \A m \in Messages(queue') : ~m.current
    PROVE  Agreed'
<1>1. \A m \in Unread' : ~m.current
  BY DEF Unread, Messages, Restarts
<1>2. LeaseKept'
  BY DEF LeaseKept, Kept, IInv, Agreed, Restarts
<1>. QED
  BY <1>1, <1>2 DEF Agreed, AcksKept, NothingCurrent, Restarts

LEMMA StaysOK ==
    ASSUME IInv, UNCHANGED << promised, localIP, toServer >>,
           dhcp'.state = dhcp.state, dhcp'.server = dhcp.server,
           \A m \in Unread' : m \in Unread \/ m = Nothing
    PROVE  Agreed'
<1>1. \A server, ip : Kept(server, ip) => Kept(server, ip)'
  BY DEF Kept
<1>2. AcksKept'
  BY <1>1, NothingType DEF AcksKept, IInv, Agreed
<1>3. NothingCurrent'
  BY NothingType DEF NothingCurrent, IInv, Agreed
<1>4. LeaseKept'
  BY <1>1 DEF LeaseKept, IInv, Agreed
<1>. QED
  BY <1>2, <1>3, <1>4 DEF Agreed

LEMMA LeasesOK ==
    ASSUME IInv, Leases, UNCHANGED promised, replies' \subseteq replies,
           Messages(queue') \subseteq Messages(queue) \cup {Nothing}
    PROVE  Agreed'
<1>1. \A m \in Unread' : m \in Unread \/ m = Nothing
  BY UnreadParts DEF Unread, Messages, Leases
<1>2. \A server, ip : Kept(server, ip) => Kept(server, ip)'
  BY DEF Kept, Leases
<1>3. AcksKept'
  BY <1>1, <1>2, NothingType DEF AcksKept, IInv, Agreed
<1>4. LeaseKept'
  BY <1>2 DEF LeaseKept, Leases
<1>. QED
  BY <1>3, <1>4 DEF Agreed, NothingCurrent, Leases, First

-----------------------------------------------------------------------------
(* The turns of the IP task                                                *)

EventTypes == {NetworkDownEvent, DHCPEvent, ARPTimerEvent}

LEMMA EventsOK ==
    ASSUME ClientOK, NEW e \in EventTypes
    PROVE  e \in Event /\ e.message = Nothing
<1>1. dhcp.state \in States /\ "eInitialWait" \in States
  BY DEF ClientOK, Dhcp, States
<1>. QED
  BY <1>1, NothingType DEF EventTypes, NetworkDownEvent, DHCPEvent, ARPTimerEvent, Event

LEMMA RxEventOK ==
    ASSUME NEW m \in Message
    PROVE  RxEvent(m) \in Event /\ RxEvent(m).message = m
BY DEF RxEvent, Event, States

\* Nothing happens to the client.
LEMMA ClientIdle ==
    ASSUME ClientOK, UNCHANGED << networkUp, client, toServer, faults >>
    PROVE  ClientOK'
BY DEF client, ClientOK, SocketMatchesState

LEMMA OldReplies ==
    ASSUME replies \subseteq Message, replies' = {Old(m) : m \in replies}
    PROVE  replies' \subseteq Message /\ \A m \in replies' : ~m.current
BY OldType

LEMMA NetworkDownQueuedOK ==
    ASSUME ClientOK, NEW q, QueueOK(q), NetworkDownQueued(q)
    PROVE  /\ QueueOK(queue') /\ pending' \in BOOLEAN
           /\ Messages(queue') \subseteq Messages(q) \cup {Nothing}
<1>1. NetworkDownEvent \in Event /\ NetworkDownEvent.message = Nothing
  BY EventsOK DEF EventTypes
<1>. QED
  BY <1>1, QueuedOK DEF NetworkDownQueued

LEMMA ProcessNetworkDownOK ==
    ASSUME IInv, NEW q, QueueOK(q), Messages(q) \subseteq Messages(queue), ProcessNetworkDown(q),
           networkUp' \in BOOLEAN, UNCHANGED promised, turnEnds' \in BOOLEAN \/ turnEnds' = pending'
    PROVE  IInv'
<1>1. ClientOK /\ TaskOK
  BY DEF IInv
<1>2. CASE InitialWait /\ queue' = OldEvents(q) /\ replies' = {Old(m) : m \in replies} /\ UNCHANGED pending
  <2>1. ClientOK' /\ Restarts
    BY <1>1, <1>2, InitialWaitOK
  <2>2. QueueOK(queue') /\ \A m \in Messages(queue') : ~m.current
    BY <1>2, OldQueue
  <2>3. replies' \subseteq Message /\ \A m \in replies' : ~m.current
    BY <1>1, <1>2, OldReplies DEF TaskOK
  <2>4. TaskOK'
    BY <1>1, <1>2, <2>2, <2>3 DEF TaskOK
  <2>. QED
    BY <2>1, <2>2, <2>3, <2>4, RestartsOK DEF IInv
<1>3. CASE Fails(TRUE) /\ NetworkDownQueued(q) /\ UNCHANGED << client, toServer, replies >>
  <2>1. faults' \in 0 .. MaxFaults
    BY <1>1, <1>3, FailsOK
  <2>2. ClientOK'
    BY <1>1, <1>3, <2>1 DEF client, ClientOK, SocketMatchesState
  <2>3. /\ QueueOK(queue') /\ pending' \in BOOLEAN
        /\ Messages(queue') \subseteq Messages(q) \cup {Nothing}
    BY <1>1, <1>3, NetworkDownQueuedOK
  <2>4. TaskOK'
    BY <1>1, <1>3, <2>3 DEF TaskOK
  <2>5. \A m \in Unread' : m \in Unread \/ m = Nothing
    BY <1>3, <2>3, UnreadParts DEF Unread, Messages, client
  <2>6. Agreed'
    BY <1>3, <2>5, StaysOK DEF client
  <2>. QED
    BY <2>2, <2>4, <2>6 DEF IInv
<1>. QED
  BY <1>2, <1>3 DEF ProcessNetworkDown

LEMMA HandleDownOK == ASSUME IInv, HandleDown, UNCHANGED promised PROVE IInv'
<1>1. queue # << >> /\ networkUp' = FALSE /\ ProcessNetworkDown(Tail(queue)) /\ turnEnds' = pending'
  BY DEF HandleDown
<1>2. QueueOK(Tail(queue)) /\ Messages(Tail(queue)) \subseteq Messages(queue)
  BY <1>1, TailQueue DEF IInv, TaskOK
<1>. QED
  BY <1>1, <1>2, ProcessNetworkDownOK

LEMMA HandlePendingDownOK == ASSUME IInv, HandlePendingDown, UNCHANGED promised PROVE IInv'
<1>1. ProcessNetworkDown(queue) /\ turnEnds' = FALSE /\ UNCHANGED networkUp
  BY DEF HandlePendingDown
<1>2. QueueOK(queue) /\ networkUp \in BOOLEAN
  BY DEF IInv, TaskOK, ClientOK
<1>. QED
  BY <1>1, <1>2, ProcessNetworkDownOK

\* A packet moves from the queue of events to the list of the socket.
LEMMA HandleRxOK == ASSUME IInv, HandleRx, UNCHANGED promised PROVE IInv'
<1>1. /\ queue # << >> /\ turnEnds' = pending
      /\ UNCHANGED << pending, networkUp, dhcp, timer, localIP, toServer, replies, faults >>
  BY DEF HandleRx
<1>2. ClientOK /\ TaskOK
  BY DEF IInv
<1>3. QueueOK(Tail(queue)) /\ Messages(Tail(queue)) \subseteq Messages(queue)
  BY <1>1, <1>2, TailQueue DEF TaskOK
<1>. DEFINE m == queue[1].message
<1>4. m \in Message /\ m \in Messages(queue)
  BY <1>1, <1>2, TailQueue DEF TaskOK, Event
<1>5. /\ SocketOK(socket') /\ socket'.open = socket.open
      /\ Range(socket'.packets) \subseteq Range(socket.packets) \cup {m}
      /\ QueueOK(queue') /\ Messages(queue') \subseteq Messages(queue) \cup {Nothing}
  <2>. DEFINE p == socket.packets
  <2>1. CASE UNCHANGED socket /\ queue' = Tail(queue)
    BY <1>2, <1>3, <2>1 DEF ClientOK
  <2>2. CASE /\ socket.open /\ Len(p) < MaxPackets
             /\ socket' = [socket EXCEPT !.packets = Append(p, m)]
             /\ queue' = Queued(Tail(queue), DHCPEvent)
    <3>1. socket \in Socket /\ p \in Seq(Message) /\ Len(p) \in Nat /\ MaxPackets \in Nat
      BY <1>2, DhcpAssumption DEF ClientOK, SocketOK, Socket
    <3>2. Append(p, m) \in Seq(Message) /\ Len(Append(p, m)) = Len(p) + 1
      BY <1>4, <3>1
    <3>3. \A i \in DOMAIN Append(p, m) : Append(p, m)[i] = m \/ (i \in DOMAIN p /\ Append(p, m)[i] = p[i])
      BY <1>4, <3>1
    <3>4. Range(Append(p, m)) \subseteq Range(p) \cup {m}
      BY <3>3 DEF Range
    <3>5. socket' \in Socket /\ socket'.open = socket.open /\ socket'.packets = Append(p, m)
      BY <2>2, <3>1, <3>2 DEF Socket
    <3>6. SocketOK(socket')
      BY <2>2, <3>1, <3>2, <3>5 DEF SocketOK
    <3>7. DHCPEvent \in Event /\ DHCPEvent.message = Nothing
      BY <1>2, EventsOK DEF EventTypes
    <3>8. QueueOK(queue') /\ Messages(queue') \subseteq Messages(queue) \cup {Nothing}
      BY <1>3, <2>2, <3>7, QueuedOK
    <3>. QED
      BY <3>4, <3>5, <3>6, <3>8
  <2>. QED
    BY <2>1, <2>2 DEF HandleRx
<1>6. ClientOK'
  BY <1>1, <1>2, <1>5 DEF ClientOK, SocketMatchesState
<1>7. TaskOK'
  BY <1>1, <1>2, <1>5 DEF TaskOK
<1>8. \A n \in Unread' : n \in Unread \/ n = Nothing
  BY <1>1, <1>4, <1>5, UnreadParts DEF Unread, Messages
<1>9. Agreed'
  BY <1>1, <1>8, StaysOK
<1>. QED
  BY <1>6, <1>7, <1>9 DEF IInv

LEMMA HandleOtherOK == ASSUME IInv, HandleOther, UNCHANGED promised PROVE IInv'
<1>1. /\ turnEnds' = pending /\ UNCHANGED << pending, networkUp, client, toServer, replies, faults >>
      /\ queue' = IF queue = << >> THEN queue ELSE Tail(queue)
  BY DEF HandleOther
<1>2. ClientOK /\ TaskOK
  BY DEF IInv
<1>3. QueueOK(queue') /\ Messages(queue') \subseteq Messages(queue)
  BY <1>1, <1>2, TailQueue DEF TaskOK
<1>4. ClientOK'
  BY <1>1, <1>2, ClientIdle
<1>5. TaskOK'
  BY <1>1, <1>2, <1>3 DEF TaskOK
<1>6. \A n \in Unread' : n \in Unread \/ n = Nothing
  BY <1>1, <1>3, UnreadParts DEF Unread, Messages, client
<1>7. Agreed'
  BY <1>1, <1>6, StaysOK DEF client
<1>. QED
  BY <1>4, <1>5, <1>7 DEF IInv

LEMMA SameTransactionOK ==
    ASSUME IInv, SameTransaction
    PROVE  ClientOK' /\ (Carries \/ Stays \/ (Restarts /\ dhcp.state = First))
<1>1. ClientOK
  BY DEF IInv
<1>2. CASE dhcp.state = First /\ SendFirstDiscover
  BY <1>2, SendFirstDiscoverOK
<1>3. CASE GiveUp
  BY <1>1, <1>3, GiveUpOK
<1>4. CASE dhcp.state = "eSendDHCPRequest" /\ SendDHCPRequest
  BY <1>1, <1>4, SendDHCPRequestOK
<1>5. CASE dhcp.state = "eWaitingOffer" /\ TakeOffer
  BY <1>1, <1>5, TakeOfferOK
<1>6. CASE dhcp.state \in {"eWaitingOffer", "eWaitingAcknowledge"} /\ KeepWaiting
  BY <1>1, <1>6, KeepWaitingOK
<1>7. CASE dhcp.state = "eWaitingAcknowledge" /\ RequestAgain
  BY <1>1, <1>7, RequestAgainOK
<1>8. CASE RenewLater \/ NotUsing
  BY <1>1, <1>8, TimerOnlyOK DEF RenewLater, NotUsing
<1>. QED
  BY <1>2, <1>3, <1>4, <1>5, <1>6, <1>7, <1>8 DEF SameTransaction, NoOffer, First

LEMMA NewTransactionOK ==
    ASSUME IInv, NewTransaction
    PROVE  ClientOK' /\ Restarts
<1>1. ClientOK
  BY DEF IInv
<1>2. CASE InitialWait /\ UNCHANGED networkUp
  BY <1>1, <1>2, InitialWaitOK DEF ClientOK
<1>3. CASE dhcp.state = "eWaitingOffer" /\ DiscoverAgain
  BY <1>1, <1>3, DiscoverAgainOK
<1>4. CASE dhcp.state = "eLeasedAddress" /\ Renew
  BY <1>1, <1>4, RenewOK
<1>. QED
  BY <1>2, <1>3, <1>4 DEF NewTransaction

LEMMA HandleDHCPOK == ASSUME IInv, HandleDHCP, UNCHANGED promised PROVE IInv'
<1>1. queue # << >> /\ turnEnds' = pending /\ UNCHANGED pending
  BY DEF HandleDHCP
<1>2. ClientOK /\ TaskOK
  BY DEF IInv
<1>3. QueueOK(Tail(queue)) /\ Messages(Tail(queue)) \subseteq Messages(queue)
  BY <1>1, <1>2, TailQueue DEF TaskOK
<1>4. CASE queue' = Tail(queue) /\ UNCHANGED << networkUp, client, toServer, replies, faults >>
  <2>1. ClientOK'
    BY <1>2, <1>4, ClientIdle
  <2>2. TaskOK'
    BY <1>1, <1>2, <1>3, <1>4 DEF TaskOK
  <2>3. \A n \in Unread' : n \in Unread \/ n = Nothing
    BY <1>3, <1>4, UnreadParts DEF Unread, Messages, client
  <2>4. Agreed'
    BY <1>4, <2>3, StaysOK DEF client
  <2>. QED
    BY <2>1, <2>2, <2>4 DEF IInv
<1>5. CASE SameTransaction /\ queue' = Tail(queue) /\ UNCHANGED replies
  <2>1. ClientOK' /\ (Carries \/ Stays \/ (Restarts /\ dhcp.state = First))
    BY <1>5, SameTransactionOK
  <2>2. TaskOK'
    BY <1>1, <1>2, <1>3, <1>5 DEF TaskOK
  <2>3. CASE Carries
    BY <1>3, <1>5, <2>1, <2>2, <2>3, CarriesOK DEF IInv
  <2>4. CASE Stays
    <3>1. \A n \in Unread' : n \in Unread \/ n = Nothing
      BY <1>3, <1>5, <2>4, UnreadParts DEF Unread, Messages, Stays
    <3>. QED
      BY <2>1, <2>2, <2>4, <3>1, StaysOK DEF Stays, IInv
  <2>5. CASE Restarts /\ dhcp.state = First
    <3>1. \A n \in replies \cup Messages(queue) : ~n.current
      BY <2>5, UnreadParts DEF IInv, Agreed, NothingCurrent
    <3>. QED
      BY <1>3, <1>5, <2>1, <2>2, <2>5, <3>1, RestartsOK DEF IInv
  <2>. QED
    BY <2>1, <2>2, <2>3, <2>4, <2>5 DEF IInv
<1>6. CASE NewTransaction /\ queue' = OldEvents(Tail(queue)) /\ replies' = {Old(m) : m \in replies}
  <2>1. ClientOK' /\ Restarts
    BY <1>6, NewTransactionOK
  <2>2. QueueOK(queue') /\ \A m \in Messages(queue') : ~m.current
    BY <1>3, <1>6, OldQueue
  <2>3. replies' \subseteq Message /\ \A m \in replies' : ~m.current
    BY <1>2, <1>6, OldReplies DEF TaskOK
  <2>4. TaskOK'
    BY <1>1, <1>2, <2>2, <2>3 DEF TaskOK
  <2>. QED
    BY <2>1, <2>2, <2>3, <2>4, RestartsOK DEF IInv
<1>7. CASE /\ dhcp.state = "eWaitingAcknowledge" /\ Lease
           /\ queue' = Queued(Tail(queue), ARPTimerEvent) /\ UNCHANGED replies
  <2>1. ClientOK' /\ Leases
    BY <1>7, LeaseOK
  <2>2. ARPTimerEvent \in Event /\ ARPTimerEvent.message = Nothing
    BY <1>2, EventsOK DEF EventTypes
  <2>3. QueueOK(queue') /\ Messages(queue') \subseteq Messages(queue) \cup {Nothing}
    BY <1>3, <1>7, <2>2, QueuedOK
  <2>4. TaskOK'
    BY <1>1, <1>2, <1>7, <2>3 DEF TaskOK
  <2>. QED
    BY <1>7, <2>1, <2>3, <2>4, LeasesOK DEF IInv
<1>. QED
  BY <1>4, <1>5, <1>6, <1>7 DEF HandleDHCP

LEMMA IPTaskOK == ASSUME IInv, IPTask PROVE IInv'
BY HandleDownOK, HandleRxOK, HandleDHCPOK, HandleOtherOK, HandlePendingDownOK DEF IPTask

LEMMA CheckDHCPTimerOK == ASSUME IInv, CheckDHCPTimer PROVE IInv'
<1>1. /\ queue' = Queued(queue, DHCPEvent)
      /\ UNCHANGED << pending, turnEnds, networkUp, client, network, faults >>
  BY DEF CheckDHCPTimer
<1>2. ClientOK /\ TaskOK
  BY DEF IInv
<1>3. QueueOK(queue') /\ Messages(queue') \subseteq Messages(queue) \cup {Nothing}
  BY <1>1, <1>2, EventsOK, QueuedOK DEF EventTypes, TaskOK
<1>4. ClientOK'
  BY <1>1, <1>2, ClientIdle DEF network
<1>5. TaskOK'
  BY <1>1, <1>2, <1>3 DEF TaskOK, network
<1>6. \A n \in Unread' : n \in Unread \/ n = Nothing
  BY <1>1, <1>3, UnreadParts DEF Unread, Messages, client, network
<1>7. Agreed'
  BY <1>1, <1>6, StaysOK DEF client, network
<1>. QED
  BY <1>4, <1>5, <1>7 DEF IInv

LEMMA NetworkDownOK == ASSUME IInv, FreeRTOS_NetworkDown PROVE IInv'
<1>1. Fails(TRUE) /\ NetworkDownQueued(queue) /\ UNCHANGED << turnEnds, networkUp, client, network >>
  BY DEF FreeRTOS_NetworkDown
<1>2. ClientOK /\ TaskOK
  BY DEF IInv
<1>3. /\ QueueOK(queue') /\ pending' \in BOOLEAN
      /\ Messages(queue') \subseteq Messages(queue) \cup {Nothing}
  BY <1>1, <1>2, NetworkDownQueuedOK DEF TaskOK
<1>4. faults' \in 0 .. MaxFaults
  BY <1>1, <1>2, FailsOK
<1>5. ClientOK'
  BY <1>1, <1>2, <1>4 DEF client, network, ClientOK, SocketMatchesState
<1>6. TaskOK'
  BY <1>1, <1>2, <1>3 DEF TaskOK, network
<1>7. \A n \in Unread' : n \in Unread \/ n = Nothing
  BY <1>1, <1>3, UnreadParts DEF Unread, Messages, client, network
<1>8. Agreed'
  BY <1>1, <1>7, StaysOK DEF client, network
<1>. QED
  BY <1>5, <1>6, <1>8 DEF IInv

LEMMA PeriodOK == ASSUME IInv, PeriodElapses PROVE IInv'
<1>1. dhcp' = [dhcp EXCEPT !.waited = TRUE] /\ UNCHANGED << ipTask, socket, timer, localIP, network, faults >>
  BY DEF PeriodElapses
<1>2. ClientOK /\ TaskOK
  BY DEF IInv
<1>3. dhcp' \in Dhcp /\ dhcp'.state = dhcp.state /\ dhcp'.server = dhcp.server
  BY <1>1, <1>2 DEF ClientOK, Dhcp
<1>4. ClientOK'
  BY <1>1, <1>2, <1>3 DEF ClientOK, SocketMatchesState, ipTask, network
<1>5. TaskOK'
  BY <1>1, <1>2 DEF TaskOK, ipTask, network
<1>6. \A n \in Unread' : n \in Unread \/ n = Nothing
  BY <1>1 DEF Unread, ipTask, network
<1>7. Agreed'
  BY <1>1, <1>3, <1>6, StaysOK DEF network
<1>. QED
  BY <1>4, <1>5, <1>7 DEF IInv

-----------------------------------------------------------------------------
(* The servers and the wire                                                *)

LEMMA ServeOK == ASSUME IInv, NEW s \in Servers, Serve(s) PROVE IInv'
<1>1. /\ toServer' = [toServer EXCEPT ![s] = Nothing]
      /\ UNCHANGED << ipTask, client, serving >>
  BY DEF Serve
<1>2. ClientOK /\ TaskOK /\ toServer \in [Servers -> Message] /\ promised \in [Servers -> Addresses \cup {None}]
  BY DEF IInv, ClientOK, TaskOK
<1>3. /\ toServer' \in [Servers -> Message] /\ toServer'[s] = Nothing
      /\ \A r \in Servers \ {s} : toServer'[r] = toServer[r]
  BY <1>1, <1>2, NothingType
<1>4. Nothing.type # "DISCOVER" /\ ~Nothing.current
  BY DEF Nothing
<1>5. CASE Offer(s)
  <2>1. PICK ip \in Addresses : promised' = [promised EXCEPT ![s] = ip] /\ Answer(s, "OFFER", ip)
    BY <1>5 DEF Offer
  <2>. DEFINE m == [type |-> "OFFER", current |-> toServer[s].current, server |-> s, ip |-> ip]
  <2>2. toServer[s].type = "DISCOVER" /\ faults' = faults
    BY <1>5 DEF Offer
  <2>3. replies' = replies \cup {m}
    BY <2>1 DEF Answer
  <2>4. m \in Message /\ m.type = "OFFER" /\ m.current = toServer[s].current
    BY <1>2 DEF Message
  <2>. HIDE DEF m
  <2>5. promised' \in [Servers -> Addresses \cup {None}] /\ \A r \in Servers \ {s} : promised'[r] = promised[r]
    BY <1>2, <2>1
  <2>6. \A server, ip2 : Kept(server, ip2) => Kept(server, ip2)'
    BY <1>3, <2>2, <2>5 DEF Kept
  <2>7. \A n \in Unread' : n \in Unread \/ n = m
    BY <1>1, <2>3 DEF Unread, client, ipTask
  <2>8. AcksKept'
    BY <2>4, <2>6, <2>7 DEF AcksKept, IInv, Agreed
  <2>9. NothingCurrent'
    BY <1>1, <1>3, <1>4, <2>4, <2>7 DEF NothingCurrent, IInv, Agreed, client
  <2>10. LeaseKept'
    BY <1>1, <2>6 DEF LeaseKept, IInv, Agreed, client
  <2>11. ClientOK'
    BY <1>1, <1>2, <1>3, <2>2 DEF ClientOK, SocketMatchesState, client, ipTask
  <2>12. TaskOK'
    BY <1>1, <1>2, <2>3, <2>4, <2>5 DEF TaskOK, ipTask
  <2>. QED
    BY <2>8, <2>9, <2>10, <2>11, <2>12 DEF IInv, Agreed
<1>6. CASE Decide(s)
  <2>1. toServer[s].type = "REQUEST" /\ UNCHANGED promised
    BY <1>6 DEF Decide
  <2>2. \A server, ip2 : Kept(server, ip2) => Kept(server, ip2)'
    BY <1>3, <1>4, <2>1 DEF Kept
  <2>3. Kept(s, promised[s])'
    BY <1>3, <1>4, <2>1 DEF Kept
  <2>4. faults' \in 0 .. MaxFaults
    <3>1. faults' = faults \/ \E failed \in BOOLEAN : Fails(failed)
      BY <1>6 DEF Decide
    <3>. QED
      BY <1>2, <3>1, FailsOK DEF ClientOK
  <2>5. ClientOK'
    BY <1>1, <1>2, <1>3, <2>4 DEF ClientOK, SocketMatchesState, client, ipTask
  <2>6. PICK m \in Message :
          /\ replies' \subseteq replies \cup {m}
          /\ m.current => toServer[s].current
          /\ m.type = "ACK" => m.server = s /\ m.ip = promised[s]
    <3>. DEFINE ack == [type |-> "ACK", current |-> toServer[s].current, server |-> s, ip |-> promised[s]]
                nack == [type |-> "NACK", current |-> toServer[s].current, server |-> s, ip |-> None]
    <3>1. /\ ack \in Message /\ ack.current = toServer[s].current /\ ack.server = s /\ ack.ip = promised[s]
          /\ nack \in Message /\ nack.current = toServer[s].current /\ nack.type = "NACK"
      BY <1>2 DEF Message
    <3>2. replies' \in {replies, replies \cup {ack}, replies \cup {nack}}
      BY <1>6 DEF Decide, Answer
    <3>. HIDE DEF ack, nack
    <3>. QED
      BY <3>1, <3>2
  <2>7. \A n \in Unread' : n \in Unread \/ n = m
    BY <1>1, <2>6 DEF Unread, client, ipTask
  <2>8. AcksKept'
    <3>1. m.type = "ACK" => Kept(m.server, m.ip)'
      BY <2>1, <2>3, <2>6 DEF Kept
    <3>. QED
      BY <2>2, <2>7, <3>1 DEF AcksKept, IInv, Agreed
  <2>9. NothingCurrent'
    BY <1>1, <1>3, <1>4, <2>6, <2>7 DEF NothingCurrent, IInv, Agreed, client
  <2>10. LeaseKept'
    BY <1>1, <2>2 DEF LeaseKept, IInv, Agreed, client
  <2>11. TaskOK'
    BY <1>1, <1>2, <2>1, <2>6 DEF TaskOK, ipTask
  <2>. QED
    BY <2>5, <2>8, <2>9, <2>10, <2>11 DEF IInv, Agreed
<1>. QED
  BY <1>5, <1>6 DEF Serve

LEMMA ArriveOK == ASSUME IInv, NEW m \in replies, Arrive(m) PROVE IInv'
<1>1. /\ replies' = replies \ {m} /\ queue' = Queued(queue, RxEvent(m))
      /\ UNCHANGED << pending, turnEnds, networkUp, client, toServer, promised, serving, faults >>
  BY DEF Arrive
<1>2. ClientOK /\ TaskOK /\ m \in Message
  BY DEF IInv, TaskOK
<1>3. QueueOK(queue') /\ Messages(queue') \subseteq Messages(queue) \cup {m}
  BY <1>1, <1>2, RxEventOK, QueuedOK DEF TaskOK
<1>4. ClientOK'
  BY <1>1, <1>2, ClientIdle
<1>5. TaskOK'
  BY <1>1, <1>2, <1>3 DEF TaskOK
<1>6. \A n \in Unread' : n \in Unread \/ n = Nothing
  BY <1>1, <1>3, UnreadParts DEF Unread, Messages, client
<1>7. Agreed'
  BY <1>1, <1>6, StaysOK DEF client
<1>. QED
  BY <1>4, <1>5, <1>7 DEF IInv

LEMMA LoseOK == ASSUME IInv, NEW m \in replies, Lose(m) PROVE IInv'
<1>1. replies' = replies \ {m} /\ UNCHANGED << ipTask, client, toServer, promised, serving, faults >>
  BY DEF Lose
<1>2. ClientOK /\ TaskOK
  BY DEF IInv
<1>3. ClientOK'
  BY <1>1, <1>2, ClientIdle DEF ipTask
<1>4. TaskOK'
  BY <1>1, <1>2 DEF TaskOK, ipTask
<1>5. \A n \in Unread' : n \in Unread \/ n = Nothing
  BY <1>1 DEF Unread, client, ipTask
<1>6. Agreed'
  BY <1>1, <1>5, StaysOK DEF client
<1>. QED
  BY <1>3, <1>4, <1>6 DEF IInv

-----------------------------------------------------------------------------
(* The theorems                                                            *)

LEMMA InitOK == Init => IInv
<1>. SUFFICES ASSUME Init PROVE IInv
  OBVIOUS
<1>1. NetworkDownEvent \in Event /\ NetworkDownEvent.message = Nothing
  BY NothingType DEF NetworkDownEvent, Event, States
<1>2. QueueOK(queue) /\ Messages(queue) = {Nothing}
  <2>1. queue = << NetworkDownEvent >>
    BY DEF Init
  <2>2. queue \in Seq(Event) /\ Len(queue) = 1 /\ DOMAIN queue = {1} /\ queue[1] = NetworkDownEvent
    BY <1>1, <2>1
  <2>3. 1 <= QueueLength
    BY DhcpAssumption
  <2>. QED
    BY <1>1, <2>2, <2>3 DEF QueueOK, Messages
<1>3. SocketOK(socket) /\ ~socket.open /\ Range(socket.packets) = {}
  BY ClosedOK DEF Init
<1>4. dhcp \in Dhcp /\ dhcp.state = "eInitialWait"
  BY DhcpAssumption DEF Init, Dhcp, States
<1>5. /\ toServer \in [Servers -> Message] /\ promised \in [Servers -> Addresses \cup {None}]
      /\ replies = {} /\ localIP = None /\ timer = "off" /\ faults \in 0 .. MaxFaults
      /\ pending = FALSE /\ turnEnds = FALSE /\ networkUp = FALSE
  BY NothingType, DhcpAssumption DEF Init
<1>6. ClientOK
  BY <1>3, <1>4, <1>5 DEF ClientOK, SocketMatchesState
<1>7. TaskOK
  BY <1>2, <1>5 DEF TaskOK
<1>8. \A m \in Unread : m = Nothing
  BY <1>2, <1>3, <1>5, UnreadParts
<1>9. Agreed
  BY <1>4, <1>8, NothingType DEF Agreed, AcksKept, NothingCurrent, LeaseKept, First
<1>. QED
  BY <1>6, <1>7, <1>9 DEF IInv

LEMMA NextOK == IInv /\ [Next]_vars => IInv'
<1>. SUFFICES ASSUME IInv, [Next]_vars PROVE IInv'
  OBVIOUS
<1>1. CASE IPTask
  BY <1>1, IPTaskOK
<1>2. CASE CheckDHCPTimer
  BY <1>2, CheckDHCPTimerOK
<1>3. CASE FreeRTOS_NetworkDown
  BY <1>3, NetworkDownOK
<1>4. CASE PeriodElapses
  BY <1>4, PeriodOK
<1>5. CASE \E s \in Servers : Serve(s)
  BY <1>5, ServeOK
<1>6. CASE \E m \in replies : Arrive(m) \/ Lose(m)
  BY <1>6, ArriveOK, LoseOK
<1>7. CASE UNCHANGED vars
  <2>1. UNCHANGED << queue, pending, turnEnds, networkUp, dhcp, socket, timer, localIP, toServer, promised, replies, faults >>
    BY <1>7 DEF vars, ipTask, client, network
  <2>2. ClientOK'
    BY <2>1, ClientIdle DEF client, IInv
  <2>3. TaskOK'
    BY <2>1 DEF IInv, TaskOK
  <2>4. Agreed'
    BY <2>1, StaysOK DEF Unread
  <2>. QED
    BY <2>2, <2>3, <2>4 DEF IInv
<1>. QED
  BY <1>1, <1>2, <1>3, <1>4, <1>5, <1>6, <1>7 DEF Next

THEOREM Invariance == Spec => []IInv
BY InitOK, NextOK, PTL DEF Spec

\* Every variable has its type: neither the queue of events nor the list of packets
\* overflows, and xDHCPTxPeriod stays within its limit (FreeRTOS_DHCP.c, prvIPTask()).
THEOREM TypeCorrect == Spec => []TypeOK
BY Invariance, Implied, PTL

\* The address that vDHCPProcess() takes from an acknowledgement is the one that the
\* chosen server keeps for it, whatever is lost, late or of an older transaction,
\* for every number of servers, addresses and faults.
THEOREM LeaseIsAgreed == Spec => []LeaseAgreed
BY Invariance, Implied, PTL

\* xDHCPSocket is there in each state that uses it, and closed when the client is
\* done, however often the network goes down and a socket cannot be made.
THEOREM SocketIsThere == Spec => []SocketMatchesState
BY Invariance, Implied, PTL
=============================================================================
