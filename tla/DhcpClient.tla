----------------------------- MODULE DhcpClient -----------------------------
(***************************************************************************)
(* How the network comes up: prvIPTask() with its queue of events, the     *)
(* network-down event, and the DHCP client, vDHCPProcess(), which the task *)
(* runs for each eDHCPEvent.  FreeRTOS_IP.c, FreeRTOS_DHCP.c and, for the  *)
(* packets of the DHCP socket, FreeRTOS_UDP_IP.c.                          *)
(*                                                                         *)
(* One turn of the IP task is one step, or two when a network-down event   *)
(* could not be queued.  What the client broadcasts reaches a server or is *)
(* lost before the next broadcast; answers take their time.  The servers   *)
(* are as the client needs them: one that made an offer acknowledges it,   *)
(* or refuses it, and keeps the address until it offers another.           *)
(*                                                                         *)
(* Without ipconfigUSE_DHCP_HOOK and ipconfigDHCP_FALL_BACK_AUTO_IP; the   *)
(* random numbers never fail, and a transaction has one that nothing in    *)
(* flight has.                                                             *)
(***************************************************************************)
EXTENDS Integers, FiniteSets, Sequences, Functions

CONSTANTS
    Servers,        \* the DHCP servers
    Addresses,      \* the addresses they give
    None,           \* 0, or NULL
    Default,        \* xDefaultAddressing.ulDefaultIPAddress
    QueueLength,    \* ipconfigEVENT_QUEUE_LENGTH
    MaxPackets,     \* uxMaxPackets of the DHCP socket
    MaxPeriod,      \* how often xDHCPTxPeriod is doubled
    DownWhenFull,   \* may FreeRTOS_NetworkDown() find the queue full?
    MaxReplies,     \* answers under way at a time (bound of the model)
    MaxFaults       \* times that something fails: the network goes down, a refusal,
                    \* no memory (bound of the model)

ASSUME DhcpAssumption ==
    /\ IsFiniteSet(Servers) /\ IsFiniteSet(Addresses)
    /\ None \notin Servers \cup Addresses \cup {Default}
    /\ Default \notin Addresses
    /\ QueueLength \in Nat \ {0} /\ MaxPackets \in Nat /\ MaxPeriod \in Nat
    /\ MaxReplies \in Nat /\ MaxFaults \in Nat
    /\ DownWhenFull \in BOOLEAN

VARIABLES
    queue,      \* xNetworkEventQueue
    pending,    \* xNetworkDownEventPending
    turnEnds,   \* is the IP task about to look at xNetworkDownEventPending?
    networkUp,  \* xNetworkUp
    dhcp,       \* xDHCPData; waited: has xDHCPTxPeriod passed since xDHCPTxTime?
    socket,     \* xDHCPSocket, and xWaitingPacketsList
    timer,      \* xDHCPTimer: off, or to poll, or until the lease must be renewed
    localIP,    \* *ipLOCAL_IP_ADDRESS_POINTER
    toServer,   \* what was broadcast, as long as a server has not looked at it
    promised,   \* for each server, the address promised
    serving,    \* the servers that answer at all
    replies,    \* answers under way
    faults

ipTask == << queue, pending, turnEnds, networkUp >>
client == << dhcp, socket, timer, localIP >>
network == << toServer, promised, serving, replies >>
vars == << ipTask, client, network, faults >>

\* current: is its transaction the one of EP_DHCPData.ulTransactionId?
Nothing == [type |-> "none", current |-> FALSE, server |-> None, ip |-> None]

\* The network-down event that prvIPTask() starts with.
NetworkDownEvent == [type |-> "eNetworkDownEvent", state |-> "eInitialWait", message |-> Nothing]

Closed == [open |-> FALSE, packets |-> << >>]

Init ==
    /\ queue = << NetworkDownEvent >>
    /\ pending = FALSE /\ turnEnds = FALSE /\ networkUp = FALSE
    /\ dhcp = [state |-> "eInitialWait", offered |-> None, server |-> None,
               period |-> 0, waited |-> FALSE]
    /\ socket = Closed
    /\ timer = "off"
    /\ localIP = None
    /\ toServer = [s \in Servers |-> Nothing]
    /\ promised = [s \in Servers |-> None]
    /\ serving \in SUBSET Servers
    /\ replies = {}
    /\ faults = 0

\* Something fails.
Fails(failed) ==
    /\ failed => faults < MaxFaults
    /\ faults' = IF failed THEN faults + 1 ELSE faults

-----------------------------------------------------------------------------
(* Events                                                                  *)

Fits(q) == Len(q) < QueueLength

\* Fault: nobody looks whether there is room.
QueuedUnchecked(q, event) == Append(q, event)

\* xSendEventStructToIPTask() without blocking: a full queue loses the event.
Queued(q, event) == IF Fits(q) THEN Append(q, event) ELSE q

\* xSendDHCPEvent(): the event carries the state the client is in now.
DHCPEvent == [type |-> "eDHCPEvent", state |-> dhcp.state, message |-> Nothing]

RxEvent(m) == [type |-> "eNetworkRxEvent", state |-> "eInitialWait", message |-> m]

\* vARPSendGratuitous()
ARPTimerEvent == [type |-> "eARPTimerEvent", state |-> "eInitialWait", message |-> Nothing]

-----------------------------------------------------------------------------
(* Messages                                                                *)

\* The answers that the client has not looked at.
Unread == replies \cup {queue[i].message : i \in DOMAIN queue} \cup Range(socket.packets)

\* A random number that nothing under way has: what m belongs to is over.
Old(m) == [m EXCEPT !.current = FALSE]

OldEvents(q) == [i \in DOMAIN q |-> [q[i] EXCEPT !.message = Old(@)]]
OldPackets(sock) == [sock EXCEPT !.packets = [i \in DOMAIN @ |-> Old(@[i])]]
AllOld == toServer' = [s \in Servers |-> Old(toServer[s])]

Broadcast(message) == toServer' = [s \in Servers |-> IF s \in serving THEN message ELSE Nothing]

\* prvSendDHCPDiscover() and prvCreatePartDHCPMessage()
SendDiscover(sent) ==
    IF sent THEN Broadcast([type |-> "DISCOVER", current |-> TRUE, server |-> None, ip |-> None])
    ELSE AllOld

\* prvSendDHCPRequest(), for a client whose data are d
SendRequest(d, sent) ==
    IF sent THEN Broadcast([type |-> "REQUEST", current |-> TRUE, server |-> d.server, ip |-> d.offered])
    ELSE UNCHANGED toServer

\* Fault: any answer is an answer to this.
IsValidAny(m) == TRUE

\* prvIsValidDHCPResponse(), and the transaction it belongs to
IsValid(m) == m.current

\* prvProcessDHCPReplies(): what one packet does to xDHCPData.
OfferFound ==
    /\ socket.packets # << >>
    /\ IsValid(socket.packets[1]) /\ socket.packets[1].type = "OFFER"

AckFound ==
    /\ socket.packets # << >>
    /\ IsValid(socket.packets[1]) /\ socket.packets[1].type = "ACK"
    /\ socket.packets[1].server = dhcp.server

NackFound ==
    /\ socket.packets # << >>
    /\ IsValid(socket.packets[1]) /\ socket.packets[1].type = "NACK"

\* FreeRTOS_recvfrom() takes a packet off the list, if there is one.
Received == [socket EXCEPT !.packets = IF @ = << >> THEN @ ELSE Tail(@)]

-----------------------------------------------------------------------------
(* vDHCPProcess(), a state at a time                                       *)

\* Fault: the timer is left as it was.
TimerLeft == timer

\* prvInitialiseDHCP() reloads the timer.
TimerStarted == "poll"

\* prvCreateDHCPSocket()
Created(made) == IF socket.open \/ ~made THEN socket ELSE [Closed EXCEPT !.open = TRUE]

\* eInitialWait, and what a reset does in any state
InitialWait ==
    /\ \E made \in BOOLEAN : Fails(~made) /\ socket' = OldPackets(Created(made))
    /\ AllOld
    /\ dhcp' = [dhcp EXCEPT !.state = "eWaitingSendFirstDiscover",
                            !.offered = None, !.server = None, !.period = 0]
    /\ timer' = TimerStarted
    /\ UNCHANGED localIP

\* Fault: the socket is forgotten.
GivenUpSocket == socket

\* prvCloseDHCPSocket()
ClosedSocket == Closed

\* xGivingUp: the default address
GiveUp ==
    /\ localIP' = Default
    /\ dhcp' = [dhcp EXCEPT !.state = "eNotUsingLeasedAddress"]
    /\ timer' = "off"
    /\ networkUp' = TRUE
    /\ socket' = ClosedSocket
    /\ UNCHANGED << toServer, faults >>

\* eWaitingSendFirstDiscover
SendFirstDiscover ==
    /\ socket.open
    /\ localIP' = None
    /\ \E sent \in BOOLEAN :
          /\ Fails(~sent)
          /\ SendDiscover(sent)
          /\ dhcp' = [dhcp EXCEPT !.waited = FALSE, !.state = IF sent THEN "eWaitingOffer" ELSE @]
    /\ UNCHANGED << networkUp, socket, timer >>

\* The request is sent, or will be tried again.
Requested(d, sent) ==
    IF sent THEN [d EXCEPT !.state = "eWaitingAcknowledge", !.waited = FALSE, !.period = 0]
    ELSE [d EXCEPT !.state = "eSendDHCPRequest"]

Request(d) ==
    \E sent \in BOOLEAN : Fails(~sent) /\ SendRequest(d, sent) /\ dhcp' = Requested(d, sent)

\* eSendDHCPRequest
SendDHCPRequest ==
    /\ Request(dhcp)
    /\ UNCHANGED << networkUp, socket, timer, localIP >>

\* eWaitingOffer, and there is one
TakeOffer ==
    /\ OfferFound
    /\ Request([dhcp EXCEPT !.server = socket.packets[1].server, !.offered = socket.packets[1].ip])
    /\ socket' = Received
    /\ UNCHANGED << networkUp, timer, localIP >>

\* ... and there is none: a new transaction, after a longer time
DiscoverAgain ==
    /\ ~OfferFound
    /\ dhcp.waited /\ dhcp.period < MaxPeriod
    /\ socket' = OldPackets(Received)
    /\ \E sent \in BOOLEAN, d \in {[dhcp EXCEPT !.period = @ + 1, !.waited = FALSE]} :
          /\ Fails(~sent)
          /\ SendDiscover(sent)
          /\ dhcp' = IF sent THEN d ELSE [d EXCEPT !.state = "eInitialWait"]
    /\ UNCHANGED << networkUp, timer, localIP >>

NoOffer ==
    /\ ~OfferFound
    /\ dhcp.waited /\ dhcp.period = MaxPeriod
    /\ GiveUp

\* Nothing to do yet, but a packet is taken and thrown away.
KeepWaiting ==
    /\ ~dhcp.waited
    /\ socket' = Received
    /\ dhcp' = IF dhcp.state = "eWaitingAcknowledge" /\ NackFound
               THEN [dhcp EXCEPT !.state = "eInitialWait"] ELSE dhcp
    /\ UNCHANGED << networkUp, timer, localIP, toServer, faults >>

\* eWaitingAcknowledge, and it is there
Lease ==
    /\ AckFound
    /\ localIP' = socket.packets[1].ip
    /\ dhcp' = [dhcp EXCEPT !.state = "eLeasedAddress", !.offered = socket.packets[1].ip]
    /\ networkUp' = TRUE
    /\ socket' = ClosedSocket
    /\ timer' = "lease"
    /\ UNCHANGED << toServer, faults >>

\* ... and it is not, and it is time to ask again, or to start again
RequestAgain ==
    /\ ~AckFound
    /\ dhcp.waited
    /\ socket' = Received
    /\ \/ /\ dhcp.period < MaxPeriod
          /\ \E sent \in BOOLEAN, d \in {[dhcp EXCEPT !.period = @ + 1, !.waited = FALSE]} :
                /\ Fails(~sent)
                /\ SendRequest(d, sent)
                /\ dhcp' = IF ~sent THEN [d EXCEPT !.state = "eSendDHCPRequest"]
                           ELSE IF NackFound THEN [d EXCEPT !.state = "eInitialWait"] ELSE d
       \/ /\ dhcp.period = MaxPeriod
          /\ dhcp' = [dhcp EXCEPT !.state = "eInitialWait"]
          /\ UNCHANGED << toServer, faults >>
    /\ UNCHANGED << networkUp, timer, localIP >>

\* eLeasedAddress: the lease must be renewed.
Renew ==
    /\ networkUp
    /\ \E made, sent \in BOOLEAN :
          /\ sent => made
          /\ Fails(~sent)
          /\ socket' = Created(made)
          /\ dhcp' = IF made THEN Requested([dhcp EXCEPT !.waited = FALSE, !.period = 0], sent) ELSE dhcp
          /\ timer' = IF made THEN "poll" ELSE timer
          /\ IF sent THEN SendRequest(dhcp, sent) ELSE AllOld
    /\ UNCHANGED << networkUp, localIP >>

\* The interface is down: see again in a while.
RenewLater ==
    /\ ~networkUp
    /\ timer' = "poll"
    /\ UNCHANGED << networkUp, dhcp, socket, localIP, toServer, faults >>

\* eNotUsingLeasedAddress
NotUsing ==
    /\ timer' = "off"
    /\ UNCHANGED << networkUp, dhcp, socket, localIP, toServer, faults >>

\* A new transaction: what was under way is of an old one.
NewTransaction ==
    \/ dhcp.state = "eInitialWait" /\ InitialWait /\ UNCHANGED networkUp
    \/ dhcp.state = "eWaitingOffer" /\ DiscoverAgain
    \/ dhcp.state = "eLeasedAddress" /\ Renew

\* The transaction goes on, or is over.
SameTransaction ==
    \/ dhcp.state = "eWaitingSendFirstDiscover" /\ (SendFirstDiscover \/ (~socket.open /\ GiveUp))
    \/ dhcp.state = "eSendDHCPRequest" /\ SendDHCPRequest
    \/ dhcp.state = "eWaitingOffer" /\ (TakeOffer \/ NoOffer \/ (~OfferFound /\ KeepWaiting))
    \/ dhcp.state = "eWaitingAcknowledge" /\ (RequestAgain \/ (~AckFound /\ KeepWaiting))
    \/ dhcp.state = "eLeasedAddress" /\ RenewLater
    \/ dhcp.state = "eNotUsingLeasedAddress" /\ NotUsing

-----------------------------------------------------------------------------
(* prvIPTask()                                                             *)

\* FreeRTOS_NetworkDown(), which leaves q in the queue; fits: is there room?
NetworkDownQueued(q) ==
    /\ DownWhenFull \/ Fits(q)
    /\ queue' = Queued(q, NetworkDownEvent)
    /\ pending' = ~Fits(q)

\* prvProcessNetworkDownEvent(), when q is in the queue
ProcessNetworkDown(q) ==
    \/ /\ InitialWait
       /\ queue' = OldEvents(q) /\ replies' = {Old(m) : m \in replies}
       /\ UNCHANGED pending
    \/ /\ Fails(TRUE)
       /\ NetworkDownQueued(q)
       /\ UNCHANGED << client, toServer, replies >>

\* An event is handled; the turn ends with a look at xNetworkDownEventPending.
HandleDown ==
    /\ queue # << >> /\ queue[1].type = "eNetworkDownEvent"
    /\ networkUp' = FALSE
    /\ ProcessNetworkDown(Tail(queue))
    /\ turnEnds' = pending'

\* xProcessReceivedUDPPacket(): an answer joins the packets of the socket, and
\* the client is called.
HandleRx ==
    /\ queue # << >> /\ queue[1].type = "eNetworkRxEvent"
    /\ IF socket.open /\ Len(socket.packets) < MaxPackets
       THEN /\ socket' = [socket EXCEPT !.packets = Append(@, queue[1].message)]
            /\ queue' = Queued(Tail(queue), DHCPEvent)
       ELSE /\ UNCHANGED socket
            /\ queue' = Tail(queue)
    /\ turnEnds' = pending
    /\ UNCHANGED << pending, networkUp, dhcp, timer, localIP, toServer, replies, faults >>

HandleDHCP ==
    /\ queue # << >> /\ queue[1].type = "eDHCPEvent"
    /\ \/ /\ queue[1].state # dhcp.state
          /\ queue' = Tail(queue)
          /\ UNCHANGED << networkUp, client, toServer, replies, faults >>
       \/ /\ queue[1].state = dhcp.state
          /\ \/ SameTransaction /\ queue' = Tail(queue) /\ UNCHANGED replies
             \/ /\ NewTransaction
                /\ queue' = OldEvents(Tail(queue)) /\ replies' = {Old(m) : m \in replies}
             \/ /\ dhcp.state = "eWaitingAcknowledge" /\ Lease
                /\ queue' = Queued(Tail(queue), ARPTimerEvent) /\ UNCHANGED replies
    /\ turnEnds' = pending
    /\ UNCHANGED pending

\* vARPAgeCache(), of no consequence here; or no event at all.
HandleOther ==
    /\ IF queue = << >> THEN pending ELSE queue[1].type = "eARPTimerEvent"
    /\ queue' = IF queue = << >> THEN queue ELSE Tail(queue)
    /\ turnEnds' = pending
    /\ UNCHANGED << pending, networkUp, client, toServer, replies, faults >>

\* The event that could not be queued; the flag stays as it is.
HandlePendingDown ==
    /\ turnEnds
    /\ ProcessNetworkDown(queue)
    /\ turnEnds' = FALSE
    /\ UNCHANGED networkUp

\* prvIPTimerCheck() of xDHCPTimer, for one event at a time (bound of the model)
CheckDHCPTimer ==
    /\ ~turnEnds
    /\ timer # "off"
    /\ DHCPEvent \notin Range(queue)
    /\ queue' = Queued(queue, DHCPEvent)
    /\ UNCHANGED << pending, turnEnds, networkUp, client, network, faults >>

IPTask ==
    /\ \/ ~turnEnds /\ (HandleDown \/ HandleRx \/ HandleDHCP \/ HandleOther)
       \/ HandlePendingDown
    /\ UNCHANGED << promised, serving >>

-----------------------------------------------------------------------------
(* The driver, time, the servers and the wire                              *)

\* The driver finds the link down.
FreeRTOS_NetworkDown ==
    /\ Fails(TRUE)
    /\ NetworkDownQueued(queue)
    /\ UNCHANGED << turnEnds, networkUp, client, network >>

\* More than xDHCPTxPeriod has passed since xDHCPTxTime.
PeriodElapses ==
    /\ dhcp.state \in {"eWaitingOffer", "eWaitingAcknowledge"} /\ ~dhcp.waited
    /\ dhcp' = [dhcp EXCEPT !.waited = TRUE]
    /\ UNCHANGED << ipTask, socket, timer, localIP, network, faults >>

\* At most MaxReplies answers are under way.
Answer(s, type, ip) ==
    LET m == [type |-> type, current |-> toServer[s].current, server |-> s, ip |-> ip]
    IN  /\ Cardinality(Unread \ {Nothing}) < MaxReplies
        /\ replies' = replies \cup {m}

\* A server promises an address and offers it.
Offer(s) ==
    /\ toServer[s].type = "DISCOVER"
    /\ \E ip \in Addresses : promised' = [promised EXCEPT ![s] = ip] /\ Answer(s, "OFFER", ip)
    /\ UNCHANGED faults

\* It grants what it promised, or refuses, or the request is for another.
Decide(s) ==
    /\ toServer[s].type = "REQUEST"
    /\ \/ /\ toServer[s].server = s /\ toServer[s].ip = promised[s]
          /\ Answer(s, "ACK", toServer[s].ip)
          /\ UNCHANGED faults
       \/ /\ toServer[s].server = s
          /\ Answer(s, "NACK", None)
          /\ Fails(toServer[s].ip = promised[s])
       \/ /\ toServer[s].server # s
          /\ UNCHANGED << replies, faults >>
    /\ UNCHANGED promised

Serve(s) ==
    /\ Offer(s) \/ Decide(s)
    /\ toServer' = [toServer EXCEPT ![s] = Nothing]
    /\ UNCHANGED << ipTask, client, serving >>

\* An answer reaches the driver, which passes it on if there is room.
Arrive(m) ==
    /\ replies' = replies \ {m}
    /\ queue' = Queued(queue, RxEvent(m))
    /\ UNCHANGED << pending, turnEnds, networkUp, client, toServer, promised, serving, faults >>

Lose(m) ==
    /\ replies' = replies \ {m}
    /\ UNCHANGED << ipTask, client, toServer, promised, serving, faults >>

Next ==
    \/ IPTask
    \/ CheckDHCPTimer
    \/ FreeRTOS_NetworkDown
    \/ PeriodElapses
    \/ \E s \in Servers : Serve(s)
    \/ \E m \in replies : Arrive(m) \/ Lose(m)

Spec == Init /\ [][Next]_vars

\* In the end nothing is lost any more, and an answer comes before the client
\* gives it up: xDHCPTxPeriod is long enough.
UnderWay == replies # {} \/ Range(socket.packets) # {} \/ (\E e \in Range(queue) : e.type = "eNetworkRxEvent")
            \/ \E s \in Servers : toServer[s] # Nothing

Timely ==
    /\ \A m \in replies : ~Lose(m) /\ (Arrive(m) => Fits(queue))
    /\ PeriodElapses => ~UnderWay

\* The task runs, timers expire, time passes, and a server that serves answers.
FairSpec ==
    /\ Spec
    /\ WF_vars(IPTask)
    /\ SF_vars(CheckDHCPTimer)
    /\ WF_vars(PeriodElapses)
    /\ \A s \in Servers : WF_vars(Serve(s))
    /\ WF_vars(\E m \in replies : Arrive(m))
    /\ <>[][Timely]_vars

-----------------------------------------------------------------------------
(* Properties                                                              *)

Message ==
    [type : {"none", "DISCOVER", "REQUEST", "OFFER", "ACK", "NACK"}, current : BOOLEAN,
     server : Servers \cup {None}, ip : Addresses \cup {None}]

States == {"eInitialWait", "eWaitingSendFirstDiscover", "eWaitingOffer", "eSendDHCPRequest",
           "eWaitingAcknowledge", "eLeasedAddress", "eNotUsingLeasedAddress"}

\* Neither the queue of events nor the list of packets overflows; the period stays
\* within its limit.
TypeOK ==
    /\ \A e \in Range(queue) : e.state \in States /\ e.message \in Message
    /\ Len(queue) <= QueueLength
    /\ pending \in BOOLEAN /\ turnEnds \in BOOLEAN /\ networkUp \in BOOLEAN
    /\ dhcp \in [state : States, offered : Addresses \cup {None},
                 server : Servers \cup {None}, period : 0 .. MaxPeriod, waited : BOOLEAN]
    /\ socket.open \in BOOLEAN /\ Range(socket.packets) \subseteq Message
    /\ Len(socket.packets) <= MaxPackets
    /\ timer \in {"off", "poll", "lease"}
    /\ localIP \in Addresses \cup {None, Default}
    /\ toServer \in [Servers -> Message]
    /\ promised \in [Servers -> Addresses \cup {None}]
    /\ replies \subseteq Message
    /\ faults \in 0 .. MaxFaults

\* The address in use is one that the chosen server has promised, however late,
\* doubled or out of order its answers and those of the others come
\* (prvProcessDHCPReplies()).
LeaseAgreed ==
    dhcp.state = "eLeasedAddress" => localIP = promised[dhcp.server]

\* While it waits for an answer the client has a socket to get it from, and
\* after it has an address, or has given up, none is left open: a socket is
\* neither used when it is NULL nor lost (prvCreateDHCPSocket(),
\* prvCloseDHCPSocket()).
SocketMatchesState ==
    /\ dhcp.state \in {"eWaitingOffer", "eSendDHCPRequest", "eWaitingAcknowledge"} => socket.open
    /\ dhcp.state \in {"eLeasedAddress", "eNotUsingLeasedAddress"} => ~socket.open

\* Whatever is lost or fails on the way, the interface comes up again and again
\* with an address, a leased one or the default (vDHCPProcess(); IP.c:306-309,
\* "network down events cannot be missed").
Configured ==
    []<>(networkUp /\ dhcp.state \in {"eLeasedAddress", "eNotUsingLeasedAddress"})
=============================================================================
