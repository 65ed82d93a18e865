----------------------------- MODULE TcpSockets -----------------------------
(***************************************************************************)
(* A server: a listening socket, the sockets made for its clients, and the *)
(* user's task that accepts them, waiting in FreeRTOS_accept() or in       *)
(* FreeRTOS_select().  FreeRTOS_Sockets.c and the parts of                 *)
(* FreeRTOS_TCP_IP.c that hand a connection over.                          *)
(*                                                                         *)
(* Whatever one handler of the IP task does is one step, but for the two   *)
(* places where it hands a client over: the user's task may be scheduled   *)
(* in the middle of them, unless it has a lower priority.  What is said on *)
(* a connection is in TcpConnection; here it is half open, open or dead.   *)
(* Every SYN comes from a port of its own.  There is one listening socket  *)
(* at a time, without bReuseSocket.                                        *)
(***************************************************************************)
EXTENDS Integers, FiniteSets, Sequences, Functions

CONSTANTS
    Sockets,        \* memory for clients' sockets
    None,           \* NULL
    Backlog,        \* xBacklog
    UserPreempts,   \* may the user's task interrupt the IP task?  (no lower priority)
    MaxListens      \* how often the user opens a listening socket (bound of the model)

ASSUME SocketsAssumption ==
    /\ IsFiniteSet(Sockets) /\ None \notin Sockets
    /\ Backlog \in Nat \ {0} /\ MaxListens \in Nat
    /\ UserPreempts \in BOOLEAN

VARIABLES
    listener,   \* the listening socket
    child,      \* the clients' sockets
    bound,      \* xBoundTCPSocketsList without the listening socket
    previous,   \* xPreviousSocket of vSocketCloseNextTime()
    passing,    \* the client that the IP task is handing over, and in which function
    queue,      \* xNetworkEventQueue
    user,       \* where the user's task is, the sockets it holds, and whether it waits in
                \* FreeRTOS_select(), while its FreeRTOS_accept() does not block
    selectGroup \* pxSocketSet->xSelectGroup

vars == << listener, child, bound, previous, passing, queue, user, selectGroup >>

Free == [state |-> "free", bPassQueued |-> FALSE, bPassAccept |-> FALSE]

Nobody == [by |-> "none", socket |-> None]

NotListening == [state |-> "free",
                 pxPeerSocket |-> None, usChildCount |-> 0,
                 xEventBits |-> {},     \* bits that vSocketWakeUpUser() will set
                 xEventGroup |-> {},
                 xSocketBits |-> {}]

Init ==
    /\ listener = NotListening
    /\ child = [c \in Sockets |-> Free]
    /\ bound = << >>
    /\ previous = None /\ passing = Nobody
    /\ queue = << >>
    /\ user = [at |-> "closed", client |-> None, holds |-> {}, listens |-> 0, selects |-> FALSE]
    /\ selectGroup = {}

Allocated == {c \in Sockets : child[c].state # "free"}

\* socketSOCKET_IS_BOUND(), and every child is: vSocketBind() with xInternal.
Bound == Range(bound)

\* The list s without some sockets, in the order of the list: its k-th element is
\* the one of the elements that stay which has k - 1 others before it.
Without(s, sockets) ==
    LET kept == {i \in DOMAIN s : s[i] \notin sockets}
    IN  [k \in 1 .. Cardinality(kept) |->
            s[CHOOSE i \in kept : Cardinality({j \in kept : j <= i}) = k]]

\* A socket is still an orphan: nobody has accepted it.
Orphan(c) == child[c].bPassQueued \/ child[c].bPassAccept

-----------------------------------------------------------------------------
(* Events                                                                  *)

\* vSocketWakeUpUser() for the listening socket l, and what it does to the
\* event group of its socket set.
WokenUp(l) ==
    [l EXCEPT !.xEventBits = {},
              !.xEventGroup = @ \cup (l.xEventBits \ {"eSELECT_READ"}),
              !.xSocketBits = @ \cup (l.xEventBits \cap {"eSELECT_READ"})]

SelectWoken(l) == selectGroup \cup (l.xEventBits \cap {"eSELECT_READ"})

\* What vSocketSelect() finds on the sockets of the set; a child has inherited
\* its xSelectBits from the listening socket.
Ready == IF listener.pxPeerSocket # None /\ child[listener.pxPeerSocket].bPassAccept
         THEN {"eSELECT_READ"} ELSE {}

Excepted == IF \E c \in Bound : child[c].state = "dead" THEN {"eSELECT_EXCEPT"} ELSE {}

-----------------------------------------------------------------------------
(* Closing                                                                 *)

\* Fault: the count is that of the sockets that were not accepted.
CountOnceOrphans(closed) == Cardinality({c \in closed : Orphan(c)})

\* prvTCPSetSocketCount() for sockets of clients: each takes one off the count.
CountOnce(closed) == Cardinality(closed)

\* vSocketClose() of sockets of clients
Closed(closed) ==
    /\ child' = [c \in Sockets |-> IF c \in closed THEN Free ELSE child[c]]
    /\ bound' = Without(bound, closed)

\* Fault: the count is taken down although it is 0.
FewerUnchecked(l, n) == [l EXCEPT !.usChildCount = @ - n]

Fewer(l, n) == [l EXCEPT !.usChildCount = IF @ > n THEN @ - n ELSE 0]

\* prvTCPSetSocketCount() of a listening socket: its orphans go with it.
Orphans == {c \in Bound : Orphan(c)}

-----------------------------------------------------------------------------
(* The IP task: packets                                                    *)

\* The IP task is done with a packet or an event.
Done == passing = Nobody

\* ... and has called vSocketCloseNextTime( NULL ): it may go on to the next, or sleep.
Idle == Done /\ previous = None

\* prvTCPSocketCopy(): what is not copied is that nobody owns the new socket.
Copied == [state |-> "eSYN_RECEIVED", bPassQueued |-> TRUE, bPassAccept |-> FALSE]

\* prvHandleListen(), for a SYN, and the SYN+ACK that follows.  With a full
\* backlog, or no memory, the SYN is answered by a RST.
HandleListen ==
    /\ Idle /\ listener.state = "eTCP_LISTEN"
    /\ listener.usChildCount < Backlog
    /\ \E c \in Sockets \ Allocated :
          /\ child' = [child EXCEPT ![c] = Copied]
          /\ bound' = Append(bound, c)
    /\ listener' = [listener EXCEPT !.usChildCount = @ + 1]
    /\ UNCHANGED << previous, passing, queue, user, selectGroup >>

\* vTCPStateChange() to eESTABLISHED, up to xEventBits of the parent
Connected(c) ==
    /\ Idle /\ child[c].state = "eSYN_RECEIVED"
    /\ passing' = [by |-> "vTCPStateChange", socket |-> c]
    /\ child' = [child EXCEPT ![c].state = "eESTABLISHED"]
    /\ listener' = [listener EXCEPT !.pxPeerSocket = IF @ = None THEN c ELSE @,
                                    !.xEventBits = @ \cup {"eSOCKET_ACCEPT"}
                                                      \cup (IF user.selects THEN {"eSELECT_READ"} ELSE {})]
    /\ UNCHANGED << bound, previous, queue, user, selectGroup >>

\* ... and the rest of it
Passed ==
    /\ passing.by = "vTCPStateChange"
    /\ child' = [child EXCEPT ![passing.socket].bPassQueued = FALSE,
                              ![passing.socket].bPassAccept = TRUE]
    /\ passing' = Nobody
    /\ listener' = WokenUp(listener)
    /\ selectGroup' = SelectWoken(listener)
    /\ UNCHANGED << bound, previous, queue, user >>

\* Fault: an orphan is closed at once, and not forgotten.
CloseNextTimeNow(c) == IF previous = None THEN {c} ELSE {previous, c}

\* What vSocketCloseNextTime() closes: the socket of the last time.
CloseNextTime(c) == IF previous \in {None, c} THEN {} ELSE {previous}

\* A connection that was never open ends: a RST, a packet out of turn, or hang
\* protection, for which xTCPTimerCheck() may end several in a row.
\* vTCPStateChange() to eCLOSED or eCLOSE_WAIT, prvTCPStatusAgeCheck().
HalfOpenEnds(c) ==
    /\ Done /\ child[c].state = "eSYN_RECEIVED"
    /\ LET closed == CloseNextTime(c)
           dead == [child EXCEPT ![c].state = "dead"]
       IN  /\ child' = [d \in Sockets |-> IF d \in closed THEN Free ELSE dead[d]]
           /\ bound' = Without(bound, closed)
           /\ listener' = Fewer(listener, CountOnce(closed))
    /\ previous' = c
    /\ UNCHANGED << passing, queue, user, selectGroup >>

\* prvCheckNetworkTimers() calls vSocketCloseNextTime( NULL ) in each turn.
CloseOrphan ==
    /\ Done /\ previous # None
    /\ Closed({previous})
    /\ listener' = Fewer(listener, CountOnce({previous}))
    /\ previous' = None
    /\ UNCHANGED << passing, queue, user, selectGroup >>

\* An open connection ends: vTCPStateChange() tells the owner, if there is one.
OpenEnds(c) ==
    /\ Idle /\ child[c].state = "eESTABLISHED"
    /\ child' = [child EXCEPT ![c].state = "dead"]
    /\ selectGroup' = IF user.selects THEN selectGroup \cup {"eSELECT_EXCEPT"} ELSE selectGroup
    /\ UNCHANGED << listener, bound, previous, passing, queue, user >>

-----------------------------------------------------------------------------
(* The IP task: prvIPTask() takes an event off its queue                   *)

\* eTCPAcceptEvent: xTCPCheckNewClient() looks for an orphan that may be accepted ...
CheckNewClient ==
    /\ queue[1].event = "eTCPAcceptEvent"
    /\ LET waiting == Without(bound, {c \in Sockets : ~child[c].bPassAccept})
       IN  passing' = IF listener.state = "eTCP_LISTEN" /\ waiting # << >>
                      THEN [by |-> "xTCPCheckNewClient", socket |-> waiting[1]] ELSE passing
    /\ UNCHANGED << listener, child, bound, previous, selectGroup >>

\* ... and the user's task is told.
NewClientFound ==
    /\ passing.by = "xTCPCheckNewClient"
    /\ LET told == [listener EXCEPT !.pxPeerSocket = passing.socket,
                                    !.xEventBits = @ \cup {"eSOCKET_ACCEPT"}]
       IN  listener' = WokenUp(told) /\ selectGroup' = SelectWoken(told)
    /\ passing' = Nobody
    /\ UNCHANGED << child, bound, previous, queue, user >>

\* eSocketSelectEvent: vSocketSelect()
SocketSelect ==
    /\ queue[1].event = "eSocketSelectEvent"
    /\ listener' = [listener EXCEPT !.xSocketBits = Ready]
    /\ selectGroup' = Ready \cup Excepted \cup {"eSELECT_CALL_IP"}
    /\ UNCHANGED << child, bound, previous, passing >>

\* eSocketCloseEvent for a client's socket: vSocketClose()
CloseClient ==
    /\ queue[1].event = "eSocketCloseEvent" /\ queue[1].socket # None
    /\ Closed({queue[1].socket})
    /\ listener' = Fewer(listener, CountOnce({queue[1].socket}))
    /\ UNCHANGED << previous, passing, selectGroup >>

\* eSocketCloseEvent for the listening socket
CloseListener ==
    /\ queue[1].event = "eSocketCloseEvent" /\ queue[1].socket = None
    /\ Closed(Orphans)
    /\ listener' = NotListening
    /\ UNCHANGED << previous, passing, selectGroup >>

HandleEvent ==
    /\ Idle /\ queue # << >>
    /\ queue' = Tail(queue)
    /\ CheckNewClient \/ SocketSelect \/ CloseClient \/ CloseListener
    /\ UNCHANGED user

-----------------------------------------------------------------------------
(* The user's task                                                         *)

Runs == UserPreempts \/ Idle

\* xSendEventStructToIPTask()
Sends(event, socket) == queue' = Append(queue, [event |-> event, socket |-> socket])

Goes(at) == user' = [user EXCEPT !.at = at]

Waiting == IF user.selects THEN "select" ELSE "accept"

\* vSocketBind(), not xInternal: is the port free, once all that was asked is done?
PortFree == listener.state = "free" /\ bound = << >> /\ queue = << >>

\* FreeRTOS_listen()
Listening == [NotListening EXCEPT !.state = "eTCP_LISTEN"]

\* FreeRTOS_socket(), FreeRTOS_bind() and FreeRTOS_listen(), and for
\* FreeRTOS_select() FreeRTOS_FD_SET().
Listen ==
    /\ Runs /\ user.at = "closed"
    /\ PortFree
    /\ user.listens < MaxListens
    /\ listener' = Listening
    /\ \E selects \in BOOLEAN :
          user' = [user EXCEPT !.listens = @ + 1, !.selects = selects,
                               !.at = IF selects THEN "find" ELSE "accept"]
    /\ UNCHANGED << child, bound, previous, passing, queue, selectGroup >>

\* FreeRTOS_accept(): the part with the scheduler suspended
AcceptTake ==
    /\ Runs /\ user.at = "accept"
    /\ LET c == listener.pxPeerSocket
           taken == c # None /\ child[c].bPassAccept
       IN  /\ listener' = [listener EXCEPT !.pxPeerSocket = None]
           /\ child' = IF taken THEN [child EXCEPT ![c].bPassAccept = FALSE] ELSE child
           /\ user' = IF taken THEN [user EXCEPT !.at = "ask", !.client = c, !.holds = @ \cup {c}]
                      ELSE [user EXCEPT !.at = IF user.selects THEN "select" ELSE "wait"]
    /\ UNCHANGED << bound, previous, passing, queue, selectGroup >>

\* Fault: the IP task is not asked for the next client.
AskNobody == UNCHANGED queue

\* FreeRTOS_accept() asks the IP task for the next client.
Ask == Sends("eTCPAcceptEvent", None)

\* ... and returns.
AcceptReturns ==
    /\ Runs /\ user.at = "ask"
    /\ Ask
    /\ user' = [user EXCEPT !.at = Waiting, !.client = None]
    /\ UNCHANGED << listener, child, bound, previous, passing, selectGroup >>

\* FreeRTOS_accept() waits for eSOCKET_ACCEPT, without a limit.
AcceptWakes ==
    /\ Runs /\ user.at = "wait"
    /\ "eSOCKET_ACCEPT" \in listener.xEventGroup
    /\ listener' = [listener EXCEPT !.xEventGroup = @ \ {"eSOCKET_ACCEPT"}]
    /\ Goes("accept")
    /\ UNCHANGED << child, bound, previous, passing, queue, selectGroup >>

\* FreeRTOS_select() waits for a bit that is asked for.
SelectWakes ==
    /\ Runs /\ user.at = "select"
    /\ selectGroup \ {"eSELECT_CALL_IP"} # {}
    /\ Goes("find")
    /\ UNCHANGED << listener, child, bound, previous, passing, queue, selectGroup >>

\* prvFindSelectedSocket() asks the IP task ...
FindSelected ==
    /\ Runs /\ user.at = "find"
    /\ selectGroup' = selectGroup \ {"eSELECT_CALL_IP"}
    /\ Sends("eSocketSelectEvent", None)
    /\ Goes("found")
    /\ UNCHANGED << listener, child, bound, previous, passing >>

\* ... and waits for the answer; FreeRTOS_FD_ISSET() tells whom to serve.
Found ==
    /\ Runs /\ user.at = "found"
    /\ "eSELECT_CALL_IP" \in selectGroup
    /\ selectGroup' = selectGroup \ {"eSELECT_CALL_IP"}
    /\ Goes(IF "eSELECT_READ" \in listener.xSocketBits THEN "accept" ELSE "select")
    /\ UNCHANGED << listener, child, bound, previous, passing, queue >>

\* FreeRTOS_closesocket() of a client's socket
Close(c) ==
    /\ Runs /\ user.at \in {"accept", "select", "closed"}
    /\ c \in user.holds
    /\ user' = [user EXCEPT !.holds = @ \ {c}]
    /\ Sends("eSocketCloseEvent", c)
    /\ UNCHANGED << listener, child, bound, previous, passing, selectGroup >>

\* FreeRTOS_closesocket() of the listening socket
StopListening ==
    /\ Runs /\ user.at \in {"accept", "select"}
    /\ Sends("eSocketCloseEvent", None)
    /\ Goes("closed")
    /\ UNCHANGED << listener, child, bound, previous, passing, selectGroup >>

-----------------------------------------------------------------------------

IPTask ==
    \/ HandleListen
    \/ \E c \in Sockets : Connected(c) \/ HalfOpenEnds(c) \/ OpenEnds(c)
    \/ Passed \/ NewClientFound
    \/ CloseOrphan
    \/ HandleEvent

UserTask ==
    \/ AcceptTake \/ AcceptReturns \/ AcceptWakes
    \/ SelectWakes \/ FindSelected \/ Found

Next == IPTask \/ UserTask \/ Listen \/ StopListening \/ \E c \in Sockets : Close(c)

Spec == Init /\ [][Next]_vars

\* The IP task ends what it began.  Packets and events wait in one queue, first in
\* first out: the packets that come cannot keep an event waiting for ever; and they
\* leave it some time in which the user's task runs.
Fairness ==
    /\ WF_vars(Passed) /\ WF_vars(NewClientFound) /\ WF_vars(CloseOrphan)
    /\ SF_vars(HandleEvent) /\ SF_vars(UserTask)

FairSpec == Spec /\ Fairness

-----------------------------------------------------------------------------
(* Properties                                                              *)

\* Types; the backlog is never exceeded nor counted below 0 (prvTCPSetSocketCount()),
\* and a socket is in the list of bound sockets once, or free.
TypeOK ==
    /\ listener.pxPeerSocket \in Sockets \cup {None} /\ listener.usChildCount \in 0 .. Backlog
    /\ \A c \in Sockets : child[c].state \in {"free", "eSYN_RECEIVED", "eESTABLISHED", "dead"}
    /\ Bound = Allocated /\ Len(bound) = Cardinality(Bound)
    /\ previous \in Sockets \cup {None} /\ passing.socket \in Sockets \cup {None}
    /\ user.holds \subseteq Sockets /\ Len(queue) <= 2 * Cardinality(Sockets) + 1

\* A socket that the user holds, that is waiting to be accepted or to be closed
\* next time has not been freed, and the user holds none that is an orphan
\* (FreeRTOS_accept(), xTCPCheckNewClient(), vSocketCloseNextTime()).
HandlesLive ==
    /\ user.holds \cup ({listener.pxPeerSocket, previous, passing.socket} \ {None}) \subseteq Allocated
    /\ \A c \in user.holds : ~Orphan(c)

\* The backlog counts the sockets there are: it does not fill up by and by, and a
\* listening socket never stops answering (prvTCPSetSocketCount()).
BacklogHonest ==
    listener.state = "eTCP_LISTEN" => listener.usChildCount = Cardinality(Allocated)

\* Whoever gets through to the server is accepted, unless it stops listening: no
\* wake-up is lost, in FreeRTOS_accept() or in FreeRTOS_select().
Accepted == \A c \in Sockets : child[c].bPassAccept ~> ~child[c].bPassAccept

==============================================================================
