------------------------------ MODULE ArpCache ------------------------------
(***************************************************************************)
(* The ARP cache, the packets that use it, and the network buffers that    *)
(* carry them: FreeRTOS_ARP.c, the reception of frames in FreeRTOS_IP.c,   *)
(* FreeRTOS_UDP_IP.c and the UDP calls of FreeRTOS_Sockets.c.              *)
(*                                                                         *)
(* The stack has an address, all hosts are on its subnet, and one UDP      *)
(* socket is bound.  A step of the IP task handles one event of its queue. *)
(* A host may get another MAC address, while frames it has sent wait to be *)
(* handled.  Frames for others, with a bad header or checksum, fragments,  *)
(* and clashes with the stack's own address are left out.                  *)
(***************************************************************************)
EXTENDS Integers, FiniteSets, Sequences, FiniteSetsExt

CONSTANTS
    IPs,                \* addresses of the other hosts
    MACs,               \* their MAC addresses
    None,               \* 0, or NULL
    Entries,            \* ipconfigARP_CACHE_ENTRIES
    MaxAge,             \* ipconfigMAX_ARP_AGE
    MaxRetransmissions, \* ipconfigMAX_ARP_RETRANSMISSIONS
    AgeToAsk,           \* arpMAX_ARP_AGE_BEFORE_NEW_ARP_REQUEST
    QueueLength,        \* ipconfigEVENT_QUEUE_LENGTH
    Buffers,            \* ipconfigNUM_NETWORK_BUFFER_DESCRIPTORS
    MaxPackets,         \* uxMaxPackets of the socket
    MaxHeld,            \* buffers the user holds at a time (bound of the model)
    MaxMoves            \* times that a host gets another MAC address (bound of the model)

ASSUME ArpAssumption ==
    /\ None \notin IPs \cup MACs
    /\ {Entries, MaxAge, MaxRetransmissions, QueueLength, Buffers, MaxPackets} \subseteq Nat \ {0}
    /\ \E f \in [IPs -> MACs] : IsInjective(f)
    /\ AgeToAsk \in Nat /\ MaxHeld \in Nat /\ MaxMoves \in Nat

VARIABLES
    cache,      \* xARPCache
    waiting,    \* pxARPWaitingNetworkBuffer
    timer,      \* is xARPResolutionTimer active?
    queue,      \* xNetworkEventQueue
    free,       \* uxGetNumberOfFreeNetworkBuffers()
    list,       \* length of xWaitingPacketsList of the socket
    held,       \* buffers that the user has
    asked,      \* addresses whose owner has been asked for its MAC address
    owner,      \* the MAC address of each host
    owned       \* all that it ever had

stack == << cache, waiting, timer >>
hosts == << owner, owned >>
vars == << stack, queue, free, list, held, asked, hosts >>

Rows == 1 .. Entries
EmptyRow == [ip |-> None, mac |-> None, age |-> 0, valid |-> FALSE]
NoPacket == [type |-> "none", ip |-> None, mac |-> None]

Init ==
    /\ cache = [x \in Rows |-> EmptyRow]
    /\ waiting = NoPacket /\ timer = FALSE
    /\ queue = << >>
    /\ free = Buffers /\ list = 0 /\ held = 0
    /\ asked = {}
    /\ owner = CHOOSE f \in [IPs -> MACs] : IsInjective(f)     \* one is as good as another
    /\ owned = [ip \in IPs |-> {owner[ip]}]

-----------------------------------------------------------------------------
(* The cache                                                               *)

WithIP(ip) == {x \in Rows : cache[x].ip = ip}

\* The first of the oldest rows.
Oldest == CHOOSE x \in Rows :
    \A y \in Rows : cache[x].age < cache[y].age \/ (cache[x].age = cache[y].age /\ x <= y)

\* Fault: a host that has another MAC address gets a row more.
RefreshedTwice(mac, ip) ==
    [cache EXCEPT ![Oldest] = [ip |-> ip, mac |-> mac, age |-> MaxAge, valid |-> TRUE]]

\* vARPRefreshCacheEntry() for a known MAC address: a row with this MAC address is
\* preferred to one with this IP address, which is then emptied.
Refreshed(mac, ip) ==
    LET row == [ip |-> ip, mac |-> mac, age |-> MaxAge, valid |-> TRUE]
        withMAC == {x \in Rows : cache[x].mac = mac /\ cache[x].ip # ip}
    IN  IF \E x \in WithIP(ip) : cache[x].mac = mac
        THEN [x \in Rows |-> IF cache[x].ip = ip /\ cache[x].mac = mac THEN row ELSE cache[x]]
        ELSE IF withMAC # {}
        THEN [x \in Rows |-> IF x = Max(withMAC) THEN row ELSE IF x \in WithIP(ip) THEN EmptyRow ELSE cache[x]]
        ELSE [cache EXCEPT ![IF WithIP(ip) # {} THEN Max(WithIP(ip)) ELSE Oldest] = row]

\* Fault: ucValid of the row is left as it was.
PlaceholderValid(ip) ==
    IF WithIP(ip) # {} THEN cache
    ELSE [cache EXCEPT ![Oldest] = [@ EXCEPT !.ip = ip, !.age = MaxRetransmissions]]

\* vARPRefreshCacheEntry() without a MAC address: the row keeps the one it had.
Placeholder(ip) ==
    IF WithIP(ip) # {} THEN cache
    ELSE [cache EXCEPT ![Oldest] = [@ EXCEPT !.ip = ip, !.age = MaxRetransmissions, !.valid = FALSE]]

\* Fault: the MAC address is not compared.
AgeRefreshedAny(mac, ip) ==
    [x \in Rows |-> IF cache[x].ip = ip THEN [cache[x] EXCEPT !.age = MaxAge] ELSE cache[x]]

\* vARPRefreshCacheEntryAge()
AgeRefreshed(mac, ip) ==
    [x \in Rows |-> IF cache[x].ip = ip /\ cache[x].mac = mac THEN [cache[x] EXCEPT !.age = MaxAge] ELSE cache[x]]

\* prvCacheLookup(), by eARPGetCacheEntry() for an address on the subnet.  A hit leaves
\* the age of the row as it is.
CacheHit(ip) == \E x \in WithIP(ip) : cache[x].valid
CacheMiss(ip) == WithIP(ip) = {}

\* FreeRTOS_OutputARPRequest() needs a buffer, and gives it back.
Ask(ips) == asked' = IF free > 0 THEN asked \cup ips ELSE asked

\* Fault: rows that are not in use age too.
AgedBelowZero(row) ==
    [row EXCEPT !.age = @ - 1, !.ip = IF row.age = 1 THEN None ELSE @]

\* vARPAgeCache(), a row
Aged(row) ==
    IF row.age = 0 THEN row
    ELSE [row EXCEPT !.age = @ - 1, !.ip = IF row.age = 1 THEN None ELSE @]

-----------------------------------------------------------------------------
(* Events                                                                  *)

Fits == Len(queue) < QueueLength

\* A packet goes to the IP task; a full queue gives its buffer back.
Frame(type, ip) == [type |-> type, ip |-> ip, mac |-> owner[ip]]

IsNext(types) == queue # << >> /\ queue[1].type \in types

\* The event has left the queue (xQueueReceive()), and so many buffers are free again.
Handled(released) == queue' = Tail(queue) /\ free' = free + released

-----------------------------------------------------------------------------
(* prvIPTask(): eNetworkRxEvent                                            *)

\* Fault: the timer is not started.
StartTimerNot == timer

\* prvIPTimerStart( &xARPResolutionTimer )
StartTimer == TRUE

\* Fault: the buffer of a second packet is forgotten.
ParkForget(packet) ==
    /\ IF waiting = NoPacket THEN waiting' = packet /\ timer' = TRUE ELSE UNCHANGED << waiting, timer >>
    /\ Handled(0)

\* eWaitingARPResolution: one packet may wait.
Park(packet) ==
    IF waiting = NoPacket
    THEN waiting' = packet /\ timer' = StartTimer /\ Handled(0)
    ELSE UNCHANGED << waiting, timer >> /\ Handled(1)

\* A request for us: the frame becomes the reply, and is released when it is sent.
HandleARPRequest ==
    /\ IsNext({"ARP_REQUEST"})
    /\ cache' = Refreshed(queue[1].mac, queue[1].ip)
    /\ Handled(1)
    /\ UNCHANGED << waiting, timer, list, held, asked, hosts >>

\* vProcessARPPacketReply(): a reply to us, or to others.  The packet that waits
\* for it is handled again, or released if others have filled the queue meanwhile.
HandleARPReply ==
    /\ IsNext({"ARP_REPLY", "ARP_REPLY_TO_OTHERS"})
    /\ cache' = IF queue[1].type = "ARP_REPLY" \/ CacheHit(queue[1].ip)
                THEN Refreshed(queue[1].mac, queue[1].ip) ELSE cache
    /\ IF waiting # NoPacket /\ waiting.ip = queue[1].ip
       THEN /\ \/ queue' = Append(Tail(queue), waiting) /\ free' = free + 1
               \/ Handled(2)
            /\ waiting' = NoPacket /\ timer' = FALSE
       ELSE /\ Handled(1)
            /\ UNCHANGED << waiting, timer >>
    /\ UNCHANGED << list, held, asked, hosts >>

\* prvProcessIPPacket() and xCheckRequiresARPResolution(): a packet from a host
\* that is not in the cache waits until it is.
HandleUnresolved ==
    /\ IsNext({"UDP", "ICMP"}) /\ ~CacheHit(queue[1].ip)
    /\ Ask({queue[1].ip})
    /\ Park(queue[1])
    /\ UNCHANGED << cache, list, held, hosts >>

\* xProcessReceivedUDPPacket()
HandleUDP ==
    /\ IsNext({"UDP"}) /\ CacheHit(queue[1].ip)
    /\ cache' = AgeRefreshed(queue[1].mac, queue[1].ip)
    /\ IF list < MaxPackets THEN list' = list + 1 /\ Handled(0) ELSE UNCHANGED list /\ Handled(1)
    /\ UNCHANGED << waiting, timer, held, asked, hosts >>

\* prvProcessICMPPacket(): an echo request becomes its reply.
HandleICMP ==
    /\ IsNext({"ICMP"}) /\ CacheHit(queue[1].ip)
    /\ cache' = AgeRefreshed(queue[1].mac, queue[1].ip)
    /\ Handled(1)
    /\ UNCHANGED << waiting, timer, list, held, asked, hosts >>

-----------------------------------------------------------------------------
(* prvIPTask(): eStackTxEvent, eARPTimerEvent, and the resolution timer    *)

\* vProcessGeneratedUDPPacket(): the packet is sent, or becomes an ARP request, or
\* is dropped.
HandleStackTx ==
    /\ IsNext({"eStackTxEvent"})
    /\ IF CacheMiss(queue[1].ip)
       THEN cache' = Placeholder(queue[1].ip) /\ asked' = asked \cup {queue[1].ip}
       ELSE UNCHANGED << cache, asked >>
    /\ Handled(1)
    /\ UNCHANGED << waiting, timer, list, held, hosts >>

\* The rows that vARPAgeCache() asks for
Unconfirmed ==
    {cache[x].ip : x \in {y \in Rows : cache[y].age > 0 /\ (~cache[y].valid \/ cache[y].age - 1 <= AgeToAsk)}}

\* vARPAgeCache(): rows that nobody confirms are asked for, and dropped in the end.
HandleARPTimer ==
    /\ IsNext({"eARPTimerEvent"})
    /\ cache' = [x \in Rows |-> Aged(cache[x])]
    /\ Ask(Unconfirmed)
    /\ Handled(0)
    /\ UNCHANGED << waiting, timer, list, held, hosts >>

\* prvCheckNetworkTimers(): eARPTimerEvent, one at a time (bound of the model)
CheckARPTimer ==
    /\ Fits /\ \A i \in DOMAIN queue : queue[i].type # "eARPTimerEvent"
    /\ queue' = Append(queue, [NoPacket EXCEPT !.type = "eARPTimerEvent"])
    /\ UNCHANGED << stack, free, list, held, asked, hosts >>

\* prvCheckNetworkTimers(): the packet has waited too long.
CheckResolutionTimer ==
    /\ timer /\ waiting # NoPacket
    /\ waiting' = NoPacket /\ timer' = FALSE
    /\ free' = free + 1
    /\ UNCHANGED << cache, queue, list, held, asked, hosts >>

\* prvProcessNetworkDownEvent()
FreeRTOS_ClearARP ==
    /\ cache' = [x \in Rows |-> EmptyRow]
    /\ UNCHANGED << waiting, timer, queue, free, list, held, asked, hosts >>

IPTask ==
    \/ HandleARPRequest \/ HandleARPReply \/ HandleUnresolved \/ HandleUDP \/ HandleICMP
    \/ HandleStackTx \/ HandleARPTimer

-----------------------------------------------------------------------------
(* The driver, the user and the hosts                                      *)

\* The driver of the network, external: a frame arrives and there is a buffer for it; a
\* full queue gives it back.
Receive(frame) ==
    /\ free > 0
    /\ IF Fits THEN queue' = Append(queue, frame) /\ free' = free - 1
       ELSE UNCHANGED << queue, free >>

\* A host sends something of its own accord.
HostSends(ip) ==
    /\ \E type \in {"ARP_REQUEST", "ARP_REPLY_TO_OTHERS", "UDP", "ICMP"} : Receive(Frame(type, ip))
    /\ UNCHANGED << stack, list, held, asked, hosts >>

HostAnswers(ip) ==
    /\ ip \in asked
    /\ Receive(Frame("ARP_REPLY", ip))
    /\ asked' = asked \ {ip}
    /\ UNCHANGED << stack, list, held, hosts >>

\* The address goes to another host, or the host gets another adapter.
Move(ip) ==
    /\ MapThenSumSet(LAMBDA i : Cardinality(owned[i]) - 1, IPs) < MaxMoves
    /\ \E mac \in MACs \ owned[ip] :
          /\ owner' = [owner EXCEPT ![ip] = mac]
          /\ owned' = [owned EXCEPT ![ip] = @ \cup {mac}]
    /\ UNCHANGED << stack, queue, free, list, held, asked >>

\* FreeRTOS_GetUDPPayloadBuffer(), or the first part of FreeRTOS_sendto()
GetBuffer ==
    /\ free > 0 /\ held < MaxHeld
    /\ free' = free - 1 /\ held' = held + 1
    /\ UNCHANGED << stack, queue, list, asked, hosts >>

\* FreeRTOS_sendto(), or FreeRTOS_SendPingRequest(): with a full queue the buffer is
\* released, or, with FREERTOS_ZERO_COPY, the user still has it.
FreeRTOS_sendto(ip) ==
    /\ held > 0
    /\ \/ /\ Fits
          /\ queue' = Append(queue, [NoPacket EXCEPT !.type = "eStackTxEvent", !.ip = ip])
          /\ held' = held - 1
          /\ UNCHANGED free
       \/ /\ ~Fits
          /\ held' = held - 1 /\ free' = free + 1
          /\ UNCHANGED queue
    /\ UNCHANGED << stack, list, asked, hosts >>

\* FreeRTOS_recvfrom(): the packet is copied, or, with FREERTOS_ZERO_COPY, handed over.
FreeRTOS_recvfrom ==
    /\ list > 0
    /\ list' = list - 1
    /\ \/ free' = free + 1 /\ UNCHANGED held
       \/ held < MaxHeld /\ held' = held + 1 /\ UNCHANGED free
    /\ UNCHANGED << stack, queue, asked, hosts >>

\* FreeRTOS_ReleaseUDPPayloadBuffer()
ReleaseBuffer ==
    /\ held > 0
    /\ held' = held - 1 /\ free' = free + 1
    /\ UNCHANGED << stack, queue, list, asked, hosts >>

Next ==
    \/ IPTask \/ CheckARPTimer \/ CheckResolutionTimer \/ FreeRTOS_ClearARP
    \/ GetBuffer \/ FreeRTOS_recvfrom \/ ReleaseBuffer
    \/ \E ip \in IPs : HostSends(ip) \/ HostAnswers(ip) \/ Move(ip) \/ FreeRTOS_sendto(ip)

Spec == Init /\ [][Next]_vars

\* The IP task runs, and its timers expire; the queue is not full each time they do.
FairSpec ==
    /\ Spec
    /\ WF_vars(IPTask) /\ SF_vars(CheckARPTimer) /\ WF_vars(CheckResolutionTimer)

-----------------------------------------------------------------------------
(* Properties                                                              *)

Packet == [type : {"none", "ARP_REQUEST", "ARP_REPLY", "ARP_REPLY_TO_OTHERS", "UDP", "ICMP",
                   "eStackTxEvent", "eARPTimerEvent"},
           ip : IPs \cup {None}, mac : MACs \cup {None}]

\* Ages are those of a uint8_t that never wraps; the queue never overflows.
TypeOK ==
    /\ cache \in [Rows -> [ip : IPs \cup {None}, mac : MACs \cup {None},
                           age : 0 .. Max({MaxAge, MaxRetransmissions}), valid : BOOLEAN]]
    /\ waiting \in Packet /\ timer \in BOOLEAN
    /\ queue \in Seq(Packet) /\ Len(queue) <= QueueLength
    /\ free \in 0 .. Buffers /\ list \in 0 .. MaxPackets /\ held \in 0 .. MaxHeld
    /\ asked \subseteq IPs
    /\ owner \in [IPs -> MACs] /\ owned \in [IPs -> SUBSET MACs]

\* Every network buffer is in one place: none is lost and none released twice,
\* whichever queue is full, whatever a packet waits for (vReleaseNetworkBuffer-
\* AndDescriptor() in FreeRTOS_IP.c:799, 1868, FreeRTOS_ARP.c:343, ...).
BuffersAccounted ==
    LET inQueue == {i \in DOMAIN queue : queue[i].type # "eARPTimerEvent"}
        parked == IF waiting = NoPacket THEN 0 ELSE 1
    IN  free + Cardinality(inQueue) + parked + list + held = Buffers

\* An address has one row, and so has a MAC address, in whatever order hosts
\* appear, move and are forgotten (vARPRefreshCacheEntry()).
OneRowEach ==
    \A x, y \in Rows : x # y =>
        /\ cache[x].ip # None => cache[x].ip # cache[y].ip
        /\ cache[x].mac # None => cache[x].mac # cache[y].mac

\* A row that is used for sending has a MAC address that the host once had:
\* never one that the row keeps from an earlier host (prvCacheLookup()).
NeverMisdirected ==
    \A x \in Rows : cache[x].valid /\ cache[x].ip # None => cache[x].mac \in owned[cache[x].ip]

\* When hosts stay where they are, the cache is right in the end, or knows nothing
\* of them, however much traffic keeps rows young (vARPRefreshCacheEntryAge(),
\* vARPAgeCache()); sending does not, prvCacheLookup() only reads.
Corrected ==
    <>[][UNCHANGED hosts]_hosts =>
        <>[](\A x \in Rows : cache[x].valid /\ cache[x].ip # None => cache[x].mac = owner[cache[x].ip])

\* No packet blocks the place for the one that waits (pxARPWaitingNetworkBuffer).
WaitingEnds == []<>(waiting = NoPacket)
=============================================================================
