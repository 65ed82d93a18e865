-------------------------- MODULE TcpSockets_proof --------------------------
(***************************************************************************)
(* The sockets of a server, for any number of sockets, any backlog and any *)
(* number of listening sockets: types, the true backlog, and that nobody   *)
(* holds a socket that was freed.                                          *)
(***************************************************************************)
EXTENDS TcpSockets, FiniteSetTheorems, SequenceTheorems, TLAPS

Bits == {"eSOCKET_ACCEPT", "eSELECT_READ", "eSELECT_EXCEPT", "eSELECT_CALL_IP"}

ListenerRecord == [state : {"free", "eTCP_LISTEN"}, pxPeerSocket : Sockets \cup {None},
                   usChildCount : 0 .. Backlog, xEventBits : SUBSET Bits,
                   xEventGroup : SUBSET Bits, xSocketBits : SUBSET Bits]
ChildRecord == [state : {"free", "eSYN_RECEIVED", "eESTABLISHED", "dead"},
                bPassQueued : BOOLEAN, bPassAccept : BOOLEAN]
PassingRecord == [by : {"none", "vTCPStateChange", "xTCPCheckNewClient"},
                  socket : Sockets \cup {None}]
EventRecord == [event : {"eTCPAcceptEvent", "eSocketSelectEvent", "eSocketCloseEvent"},
                socket : Sockets \cup {None}]
UserRecord == [at : {"closed", "accept", "ask", "wait", "select", "find", "found"},
               client : Sockets \cup {None}, holds : SUBSET Sockets, listens : Nat,
               selects : BOOLEAN]

\* What each variable ranges over.
Shapes ==
    /\ listener \in ListenerRecord
    /\ child \in [Sockets -> ChildRecord]
    /\ bound \in Seq(Sockets)
    /\ previous \in Sockets \cup {None}
    /\ passing \in PassingRecord
    /\ queue \in Seq(EventRecord)
    /\ user \in UserRecord
    /\ selectGroup \in SUBSET Bits

\* A socket the user's task was given: open or dead, and no orphan any more.
Given(c) == child[c].state \in {"eESTABLISHED", "dead"} /\ ~Orphan(c)

\* The flags of a client's socket say how far it is handed over.
FlagsFit ==
    \A c \in Sockets :
        /\ child[c].bPassQueued => ~child[c].bPassAccept
        /\ child[c].state = "free" => ~Orphan(c)
        /\ child[c].state = "eSYN_RECEIVED" => child[c].bPassQueued
        /\ child[c].state = "eESTABLISHED" /\ child[c].bPassQueued =>
              passing = [by |-> "vTCPStateChange", socket |-> c]
        /\ child[c].state = "dead" /\ child[c].bPassQueued => previous = c

\* The client that is handed over, and the one that is closed next time, are there.
PassingFits ==
    /\ passing.by = "none" => passing = Nobody
    /\ passing.by = "vTCPStateChange" =>
          /\ passing.socket \in Sockets
          /\ child[passing.socket].state = "eESTABLISHED" /\ child[passing.socket].bPassQueued
    /\ passing.by = "xTCPCheckNewClient" =>
          passing.socket \in Sockets /\ child[passing.socket].state # "free"
    /\ previous # None =>
          passing = Nobody /\ child[previous].state = "dead" /\ child[previous].bPassQueued

\* Without a listening socket there is no orphan and nobody is handed over.
NoListenerNoOrphan ==
    listener.state = "free" =>
        /\ listener.usChildCount = 0
        /\ passing = Nobody
        /\ \A c \in Sockets : ~Orphan(c)

\* The list has every socket there is, once.
ListFits ==
    /\ Bound = Allocated
    /\ \A i, j \in DOMAIN bound : bound[i] = bound[j] => i = j

IsRequest(e) == e.event = "eTCPAcceptEvent"
IsClose(e) == e.event = "eSocketCloseEvent" /\ e.socket # None
IsOther(e) == ~IsRequest(e) /\ ~IsClose(e)

\* The user's task closes only what it was given, and once.
HandlesFit ==
    /\ \A c \in user.holds : Given(c)
    /\ \A i \in DOMAIN queue : IsClose(queue[i]) =>
          Given(queue[i].socket) /\ queue[i].socket \notin user.holds
    /\ \A i, j \in DOMAIN queue :
          IsClose(queue[i]) /\ IsClose(queue[j]) /\ queue[i].socket = queue[j].socket => i = j

\* Of the other events there is one at most: the user's task waits for its answer,
\* or has closed the listening socket with it.
OneOther ==
    /\ \A i, j \in DOMAIN queue : IsOther(queue[i]) /\ IsOther(queue[j]) => i = j
    /\ \A i \in DOMAIN queue : IsOther(queue[i]) =>
          \/ queue[i].event = "eSocketCloseEvent" /\ user.at = "closed"
          \/ /\ queue[i].event = "eSocketSelectEvent" /\ user.at = "found"
             /\ "eSELECT_CALL_IP" \notin selectGroup

\* From place i of the queue on: the requests for another client, and the sockets
\* that the user's task holds or is closing.
Requests(i) == {j \in i .. Len(queue) : IsRequest(queue[j])}
Closing(i) == {c \in Sockets : \E j \in i .. Len(queue) : IsClose(queue[j]) /\ queue[j].socket = c}
GivenAway(i) == user.holds \cup Closing(i)

\* Each request was sent by a task that had just been given a socket, which it
\* closes later: those that wait are no more than the sockets given away, from
\* any place of the queue on.
RequestsFit ==
    \A i \in 1 .. Len(queue) + 1 :
        Cardinality(Requests(i)) + (IF user.at = "ask" THEN 1 ELSE 0) <= Cardinality(GivenAway(i))

\* If the user's task cannot interrupt a hand-over: the client that the listening
\* socket offers may be accepted, or will be as soon as its hand-over ends.
PeerFits ==
    /\ listener.pxPeerSocket # None =>
          \/ child[listener.pxPeerSocket].bPassAccept
          \/ passing = [by |-> "vTCPStateChange", socket |-> listener.pxPeerSocket]
    /\ passing.by = "xTCPCheckNewClient" => child[passing.socket].bPassAccept

IInv ==
    /\ Shapes
    /\ FlagsFit
    /\ PassingFits
    /\ NoListenerNoOrphan
    /\ ListFits
    /\ HandlesFit
    /\ OneOther
    /\ RequestsFit
    /\ BacklogHonest

-----------------------------------------------------------------------------
(* Lists *)

\* The rank of a number in a set of them.
Rank(K, i) == Cardinality({j \in K : j <= i})

\* The elements of a finite set of numbers have ranks of their own, from 1 on.
LEMMA RankGrows ==
    ASSUME NEW n \in Nat, NEW K \in SUBSET (1 .. n)
    PROVE  /\ IsFiniteSet(K) /\ Cardinality(K) \in Nat
           /\ \A i \in K : Rank(K, i) \in 1 .. Cardinality(K)
           /\ \A a, b \in K : Rank(K, a) = Rank(K, b) => a = b
<1>1. IsFiniteSet(K) /\ Cardinality(K) \in Nat /\ K \subseteq Int
    <2>1. IsFiniteSet(1 .. n)
        BY FS_Interval
    <2>2. IsFiniteSet(K)
        BY <2>1, FS_Subset
    <2> QED
        BY <2>2, FS_CardinalityType
<1>2. ASSUME NEW i \in K
      PROVE  /\ IsFiniteSet({j \in K : j <= i})
             /\ Rank(K, i) \in 1 .. Cardinality(K)
    <2>1. {j \in K : j <= i} \in SUBSET K
        OBVIOUS
    <2>2. /\ IsFiniteSet({j \in K : j <= i})
          /\ Cardinality({j \in K : j <= i}) <= Cardinality(K)
        BY <2>1, <1>1, FS_Subset
    <2>3. i \in {j \in K : j <= i}
        OBVIOUS
    <2>4. Cardinality({j \in K : j <= i}) # 0 /\ Cardinality({j \in K : j <= i}) \in Nat
        BY <2>2, <2>3, FS_EmptySet, FS_CardinalityType
    <2> QED
        BY <2>2, <2>4, <1>1 DEF Rank
<1>3. ASSUME NEW a \in K, NEW b \in K, a < b
      PROVE  Rank(K, a) # Rank(K, b)
    <2> DEFINE below == {j \in K : j <= a}
    <2> DEFINE upto == {j \in K : j <= b}
    <2>1. below \in SUBSET upto
        <3>1. \A j \in K : j <= a => j <= b
            BY <1>1, <1>3
        <3> QED
            BY <3>1
    <2>2. b \in upto /\ b \notin below
        BY <1>1, <1>3
    <2>3. IsFiniteSet(upto)
        BY <1>2
    <2>4. Cardinality(upto) # Cardinality(below)
        <3> HIDE DEF below, upto
        <3> QED
            BY <2>1, <2>2, <2>3, FS_Subset
    <2> QED
        BY <2>4 DEF Rank
<1>4. ASSUME NEW a \in K, NEW b \in K, Rank(K, a) = Rank(K, b)
      PROVE  a = b
    <2>1. a \in Int /\ b \in Int
        OBVIOUS
    <2>2. ~(a < b) /\ ~(b < a)
        BY <1>3, <1>4
    <2> QED
        BY <2>1, <2>2
<1> QED
    BY <1>1, <1>2, <1>4

\* Every rank up to the number of elements is taken.
LEMMA RankTaken ==
    ASSUME NEW n \in Nat, NEW K \in SUBSET (1 .. n), NEW k \in 1 .. Cardinality(K)
    PROVE  \E i \in K : Rank(K, i) = k
<1> DEFINE ranks == 1 .. Cardinality(K)
<1> DEFINE rank == [i \in K |-> Rank(K, i)]
<1>1. /\ IsFiniteSet(K) /\ Cardinality(K) \in Nat
      /\ \A i \in K : Rank(K, i) \in ranks
      /\ \A a, b \in K : Rank(K, a) = Rank(K, b) => a = b
    BY RankGrows
<1>2. rank \in Injection(K, ranks)
    BY <1>1 DEF Injection, IsInjective
<1>3. IsFiniteSet(ranks) /\ Cardinality(ranks) = Cardinality(K)
    BY <1>1, FS_Interval
<1>4. rank \in Surjection(K, ranks)
    <2> HIDE DEF rank, ranks
    <2> QED
        BY <1>2, <1>3, FS_Injection
<1>5. PICK i \in K : rank[i] = k
    BY <1>4 DEF Surjection
<1> QED
    BY <1>5

\* Taking sockets off a list leaves the others, in a list without repetition if
\* there was none.
LEMMA WithoutRest ==
    ASSUME NEW S, NEW s \in Seq(S), NEW out
    PROVE  /\ Without(s, out) \in Seq(S)
           /\ Range(Without(s, out)) = Range(s) \ out
           /\ (\A i, j \in DOMAIN s : s[i] = s[j] => i = j) =>
                 \A i, j \in DOMAIN Without(s, out) : Without(s, out)[i] = Without(s, out)[j] => i = j
<1> DEFINE kept == {i \in DOMAIN s : s[i] \notin out}
<1> DEFINE count == Cardinality(kept)
<1> DEFINE place(k) == CHOOSE i \in kept : Rank(kept, i) = k
<1>1. Len(s) \in Nat /\ DOMAIN s = 1 .. Len(s) /\ kept \in SUBSET (1 .. Len(s))
      /\ \A i \in DOMAIN s : s[i] \in S
    OBVIOUS
<1>2. /\ count \in Nat
      /\ \A i \in kept : Rank(kept, i) \in 1 .. count
      /\ \A a, b \in kept : Rank(kept, a) = Rank(kept, b) => a = b
    <2> HIDE DEF kept
    <2> QED
        BY <1>1, RankGrows
<1>3. ASSUME NEW k \in 1 .. count
      PROVE  place(k) \in kept /\ Rank(kept, place(k)) = k
    <2>1. \E i \in kept : Rank(kept, i) = k
        <3> HIDE DEF kept
        <3> QED
            BY <1>1, RankTaken
    <2> HIDE DEF kept
    <2> QED
        BY <2>1
<1>4. Without(s, out) = [k \in 1 .. count |-> s[place(k)]]
    BY DEF Without, Rank
<1>5. ASSUME NEW i \in kept
      PROVE  place(Rank(kept, i)) = i
    <2> HIDE DEF kept
    <2> QED
        BY <1>2, <1>3
<1> HIDE DEF place, count
<1>6. Without(s, out) \in Seq(S) /\ DOMAIN Without(s, out) = 1 .. count
    <2>1. \A k \in 1 .. count : s[place(k)] \in S
        BY <1>1, <1>3
    <2> QED
        BY <2>1, <1>2, <1>4
<1>7. Range(Without(s, out)) = Range(s) \ out
    <2>1. ASSUME NEW x \in Range(Without(s, out))
          PROVE  x \in Range(s) \ out
        <3>1. PICK k \in 1 .. count : x = s[place(k)]
            BY <2>1, <1>4 DEF Range
        <3> QED
            BY <3>1, <1>3 DEF Range
    <2>2. ASSUME NEW x \in Range(s) \ out
          PROVE  x \in Range(Without(s, out))
        <3>1. PICK i \in DOMAIN s : x = s[i]
            BY <2>2 DEF Range
        <3>2. i \in kept
            BY <3>1, <2>2
        <3>3. Rank(kept, i) \in 1 .. count /\ Without(s, out)[Rank(kept, i)] = x
            BY <3>1, <3>2, <1>2, <1>4, <1>5
        <3> QED
            BY <3>3, <1>6 DEF Range
    <2> QED
        BY <2>1, <2>2
<1>8. ASSUME \A i, j \in DOMAIN s : s[i] = s[j] => i = j,
             NEW i \in 1 .. count, NEW j \in 1 .. count,
             Without(s, out)[i] = Without(s, out)[j]
      PROVE  i = j
    <2>1. s[place(i)] = s[place(j)]
        BY <1>8, <1>4
    <2>2. place(i) = place(j)
        BY <2>1, <1>3, <1>8
    <2> QED
        BY <2>2, <1>3
<1> QED
    BY <1>6, <1>7, <1>8

-----------------------------------------------------------------------------
(* Facts about a state that satisfies the invariant *)

\* Nothing is bound, queued or given away at the start.
LEMMA InitIInv == Init => IInv
<1> SUFFICES ASSUME Init PROVE IInv
    OBVIOUS
<1> USE SocketsAssumption
<1>1. Shapes
    <2>1. << >> \in Seq(Sockets) /\ << >> \in Seq(EventRecord)
        OBVIOUS
    <2> QED
        BY <2>1 DEF Init, Shapes, NotListening, Free, Nobody, ListenerRecord, ChildRecord,
           PassingRecord, UserRecord
<1>2. Allocated = {}
    BY DEF Init, Allocated, Free
<1>3. FlagsFit /\ PassingFits /\ NoListenerNoOrphan /\ BacklogHonest
    BY DEF Init, FlagsFit, PassingFits, NoListenerNoOrphan, BacklogHonest, Free, Nobody,
       NotListening, Orphan
<1>4. ListFits
    BY <1>2 DEF Init, ListFits, Bound, Range
<1>5. HandlesFit /\ OneOther
    BY DEF Init, HandlesFit, OneOther
<1>6. RequestsFit
    <2>1. \A i \in 1 .. 1 : Requests(i) = {}
        BY DEF Init, Requests
    <2>2. \A i \in 1 .. 1 : GivenAway(i) = {}
        BY DEF Init, GivenAway, Closing
    <2>3. user.at # "ask" /\ 1 .. Len(queue) + 1 = 1 .. 1
        BY DEF Init
    <2>4. Cardinality({}) = 0
        BY FS_EmptySet
    <2>5. ASSUME NEW i \in 1 .. Len(queue) + 1
          PROVE  Cardinality(Requests(i)) = 0 /\ Cardinality(GivenAway(i)) = 0
        BY <2>1, <2>2, <2>3, <2>4
    <2> QED
        BY <2>3, <2>5 DEF RequestsFit
<1> QED
    BY <1>1, <1>3, <1>4, <1>5, <1>6 DEF IInv

\* The sockets there are, counted.
LEMMA AllocatedCounts ==
    /\ IsFiniteSet(Allocated) /\ Cardinality(Allocated) \in Nat
    /\ \A S \in SUBSET Sockets : IsFiniteSet(S) /\ Cardinality(S) \in Nat
                                 /\ Cardinality(S) <= Cardinality(Sockets)
<1>1. ASSUME NEW S \in SUBSET Sockets
      PROVE  IsFiniteSet(S) /\ Cardinality(S) \in Nat /\ Cardinality(S) <= Cardinality(Sockets)
    BY SocketsAssumption, FS_Subset, FS_CardinalityType
<1> QED
    BY <1>1 DEF Allocated

\* The event at the head of the queue, and what is behind it.
LEMMA HeadOfQueue ==
    ASSUME Shapes, queue # << >>
    PROVE  /\ Len(queue) \in Nat /\ Len(queue) >= 1 /\ queue[1] \in EventRecord
           /\ Tail(queue) \in Seq(EventRecord) /\ Len(Tail(queue)) = Len(queue) - 1
           /\ \A j \in 1 .. Len(queue) - 1 : Tail(queue)[j] = queue[j + 1]
BY DEF Shapes

\* An event sent goes to the end of the queue.
LEMMA EndOfQueue ==
    ASSUME Shapes, NEW e \in EventRecord
    PROVE  /\ Append(queue, e) \in Seq(EventRecord)
           /\ Len(queue) \in Nat /\ Len(Append(queue, e)) = Len(queue) + 1
           /\ \A j \in 1 .. Len(queue) : Append(queue, e)[j] = queue[j]
           /\ Append(queue, e)[Len(queue) + 1] = e
BY DEF Shapes

-----------------------------------------------------------------------------
(* What each variable ranges over *)

\* The count of children stays in its range when sockets are taken off it.
LEMMA FewerShape ==
    ASSUME NEW l \in ListenerRecord, NEW n \in Nat
    PROVE  Fewer(l, n) \in ListenerRecord
           /\ Fewer(l, n).pxPeerSocket = l.pxPeerSocket /\ Fewer(l, n).state = l.state
           /\ Fewer(l, n).usChildCount = IF l.usChildCount > n THEN l.usChildCount - n ELSE 0
BY SocketsAssumption DEF Fewer, ListenerRecord

\* A listener that is woken up has the same client to offer, and the same count.
LEMMA WokenUpShape ==
    ASSUME NEW l \in ListenerRecord
    PROVE  WokenUp(l) \in ListenerRecord
           /\ WokenUp(l).pxPeerSocket = l.pxPeerSocket /\ WokenUp(l).state = l.state
           /\ WokenUp(l).usChildCount = l.usChildCount
BY DEF WokenUp, ListenerRecord

\* Every step keeps every variable in its range.
LEMMA StepShapes == IInv /\ [Next]_vars => Shapes'
<1> SUFFICES ASSUME IInv, [Next]_vars PROVE Shapes'
    OBVIOUS
<1> USE SocketsAssumption
<1>0. Shapes /\ PassingFits
    BY DEF IInv
<1>1. CASE HandleListen
    <2>1. PICK c \in Sockets \ Allocated :
             child' = [child EXCEPT ![c] = Copied] /\ bound' = Append(bound, c)
        BY <1>1 DEF HandleListen
    <2>2. listener.usChildCount + 1 \in 0 .. Backlog
        BY <1>0, <1>1 DEF Shapes, HandleListen, ListenerRecord
    <2>3. listener' \in ListenerRecord
        BY <2>2, <1>0, <1>1 DEF Shapes, HandleListen, ListenerRecord
    <2>4. child' \in [Sockets -> ChildRecord]
        BY <2>1, <1>0 DEF Shapes, ChildRecord, Copied
    <2>5. bound' \in Seq(Sockets)
        BY <2>1, <1>0 DEF Shapes
    <2> QED
        BY <2>3, <2>4, <2>5, <1>0, <1>1 DEF Shapes, HandleListen
<1>2. ASSUME NEW c \in Sockets, Connected(c)
      PROVE  Shapes'
    <2>1. listener' \in ListenerRecord
        BY <1>0, <1>2 DEF Shapes, Connected, ListenerRecord, Bits
    <2>2. child' \in [Sockets -> ChildRecord]
        BY <1>0, <1>2 DEF Shapes, Connected, ChildRecord
    <2>3. passing' \in PassingRecord
        BY <1>2 DEF Connected, PassingRecord
    <2> QED
        BY <2>1, <2>2, <2>3, <1>0, <1>2 DEF Shapes, Connected
<1>3. CASE Passed
    <2>1. listener' \in ListenerRecord
        BY <1>0, <1>3, WokenUpShape DEF Shapes, Passed
    <2>2. child' \in [Sockets -> ChildRecord]
        BY <1>0, <1>3 DEF Shapes, Passed, ChildRecord
    <2>3. passing' \in PassingRecord
        BY <1>3 DEF Passed, PassingRecord, Nobody
    <2>4. selectGroup' \in SUBSET Bits
        BY <1>0, <1>3 DEF Shapes, Passed, SelectWoken, ListenerRecord
    <2> QED
        BY <2>1, <2>2, <2>3, <2>4, <1>0, <1>3 DEF Shapes, Passed
<1>4. ASSUME NEW c \in Sockets, HalfOpenEnds(c)
      PROVE  Shapes'
    <2>1. CloseNextTime(c) \in SUBSET Sockets
        BY <1>0 DEF Shapes, CloseNextTime
    <2>2. listener' \in ListenerRecord
        BY <2>1, <1>0, <1>4, FewerShape, AllocatedCounts DEF Shapes, HalfOpenEnds, CountOnce
    <2>3. child' \in [Sockets -> ChildRecord]
        BY <1>0, <1>4 DEF Shapes, HalfOpenEnds, ChildRecord, Free
    <2>4. bound' \in Seq(Sockets)
        BY <1>0, <1>4, WithoutRest DEF Shapes, HalfOpenEnds
    <2> QED
        BY <2>2, <2>3, <2>4, <1>0, <1>4 DEF Shapes, HalfOpenEnds
<1>5. ASSUME NEW c \in Sockets, OpenEnds(c)
      PROVE  Shapes'
    <2>1. child' \in [Sockets -> ChildRecord]
        BY <1>0, <1>5 DEF Shapes, OpenEnds, ChildRecord
    <2>2. selectGroup' \in SUBSET Bits
        BY <1>0, <1>5 DEF Shapes, OpenEnds, Bits
    <2> QED
        BY <2>1, <2>2, <1>0, <1>5 DEF Shapes, OpenEnds
<1>6. CASE NewClientFound
    <2> DEFINE told == [listener EXCEPT !.pxPeerSocket = passing.socket,
                                        !.xEventBits = @ \cup {"eSOCKET_ACCEPT"}]
    <2>1. told \in ListenerRecord
        BY <1>0 DEF Shapes, ListenerRecord, PassingRecord, Bits
    <2>2. listener' = WokenUp(told) /\ selectGroup' = selectGroup \cup (told.xEventBits \cap {"eSELECT_READ"})
        BY <1>6 DEF NewClientFound, SelectWoken
    <2> HIDE DEF told
    <2>3. listener' \in ListenerRecord /\ selectGroup' \in SUBSET Bits
        BY <2>1, <2>2, <1>0, WokenUpShape DEF Shapes, ListenerRecord
    <2>4. passing' \in PassingRecord
        BY <1>6 DEF NewClientFound, PassingRecord, Nobody
    <2> QED
        BY <2>3, <2>4, <1>0, <1>6 DEF Shapes, NewClientFound
<1>7. CASE CloseOrphan
    <2>1. previous \in Sockets
        BY <1>0, <1>7 DEF Shapes, CloseOrphan
    <2>2. listener' \in ListenerRecord
        BY <2>1, <1>0, <1>7, FewerShape, AllocatedCounts DEF Shapes, CloseOrphan, CountOnce
    <2>3. child' \in [Sockets -> ChildRecord]
        BY <1>0, <1>7 DEF Shapes, CloseOrphan, Closed, ChildRecord, Free
    <2>4. bound' \in Seq(Sockets)
        BY <1>0, <1>7, WithoutRest DEF Shapes, CloseOrphan, Closed
    <2> QED
        BY <2>2, <2>3, <2>4, <1>0, <1>7 DEF Shapes, CloseOrphan
<1>8. CASE HandleEvent
    <2>1. queue' \in Seq(EventRecord) /\ queue[1] \in EventRecord /\ UNCHANGED user
        BY <1>0, <1>8, HeadOfQueue DEF HandleEvent
    <2>2. CASE CheckNewClient
        <3> DEFINE waiting == Without(bound, {c \in Sockets : ~child[c].bPassAccept})
        <3>1. waiting \in Seq(Sockets)
            BY <1>0, WithoutRest DEF Shapes
        <3>2. waiting # << >> => waiting[1] \in Sockets
            BY <3>1
        <3>3. passing' \in PassingRecord
            <4>1. \/ passing' = passing
                  \/ waiting # << >> /\ passing' = [by |-> "xTCPCheckNewClient", socket |-> waiting[1]]
                BY <2>2 DEF CheckNewClient
            <4> HIDE DEF waiting
            <4> QED
                BY <3>2, <4>1, <1>0 DEF Shapes, PassingRecord
        <3> QED
            BY <3>3, <2>1, <2>2, <1>0 DEF Shapes, CheckNewClient
    <2>3. CASE SocketSelect
        <3>1. listener' \in ListenerRecord /\ selectGroup' \in SUBSET Bits
            BY <2>3, <1>0 DEF Shapes, SocketSelect, Ready, Excepted, ListenerRecord, Bits
        <3> QED
            BY <3>1, <2>1, <2>3, <1>0 DEF Shapes, SocketSelect
    <2>4. CASE CloseClient
        <3>1. queue[1].socket \in Sockets
            BY <2>1, <2>4 DEF CloseClient, EventRecord
        <3>2. listener' \in ListenerRecord
            BY <3>1, <2>4, <1>0, FewerShape, AllocatedCounts DEF Shapes, CloseClient, CountOnce
        <3>3. child' \in [Sockets -> ChildRecord] /\ bound' \in Seq(Sockets)
            BY <2>4, <1>0, WithoutRest DEF Shapes, CloseClient, Closed, ChildRecord, Free
        <3> QED
            BY <3>2, <3>3, <2>1, <2>4, <1>0 DEF Shapes, CloseClient
    <2>5. CASE CloseListener
        <3>1. listener' \in ListenerRecord
            BY <2>5 DEF CloseListener, NotListening, ListenerRecord
        <3>2. child' \in [Sockets -> ChildRecord] /\ bound' \in Seq(Sockets)
            BY <2>5, <1>0, WithoutRest DEF Shapes, CloseListener, Closed, ChildRecord, Free
        <3> QED
            BY <3>1, <3>2, <2>1, <2>5, <1>0 DEF Shapes, CloseListener
    <2> QED
        BY <1>8, <2>2, <2>3, <2>4, <2>5 DEF HandleEvent
<1>9. CASE UserTask \/ Listen \/ StopListening \/ \E c \in Sockets : Close(c)
    <2>1. listener' \in ListenerRecord
        <3>1. CASE Listen
            BY <3>1 DEF Listen, ListenerRecord, Listening, NotListening
        <3>2. CASE AcceptTake \/ AcceptWakes
            BY <3>2, <1>0 DEF Shapes, AcceptTake, AcceptWakes, ListenerRecord
        <3>3. CASE AcceptReturns \/ SelectWakes \/ FindSelected \/ Found \/ StopListening
                   \/ \E c \in Sockets : Close(c)
            BY <3>3, <1>0 DEF Shapes, AcceptReturns, SelectWakes, FindSelected, Found,
               StopListening, Close
        <3> QED
            BY <1>9, <3>1, <3>2, <3>3 DEF UserTask
    <2>2. child' \in [Sockets -> ChildRecord]
        <3>1. CASE AcceptTake
            BY <3>1, <1>0 DEF Shapes, AcceptTake, ChildRecord
        <3>2. CASE ~AcceptTake
            BY <3>2, <1>0, <1>9 DEF Shapes, UserTask, AcceptReturns, AcceptWakes, SelectWakes,
               FindSelected, Found, Listen, StopListening, Close
        <3> QED
            BY <3>1, <3>2
    <2>3. queue' \in Seq(EventRecord)
        <3>1. \/ queue' = queue
              \/ \E e \in EventRecord : queue' = Append(queue, e)
            BY <1>0, <1>9 DEF UserTask, AcceptTake, AcceptReturns, AcceptWakes, SelectWakes,
               FindSelected, Found, Listen, StopListening, Close, Ask, Sends, EventRecord
        <3> QED
            BY <3>1, <1>0 DEF Shapes
    <2>4. user' \in UserRecord
        <3>1. CASE AcceptTake
            BY <3>1, <1>0 DEF Shapes, AcceptTake, UserRecord, ListenerRecord
        <3>2. CASE Found \/ SelectWakes \/ FindSelected \/ AcceptWakes \/ StopListening
            BY <3>2, <1>0 DEF Shapes, UserRecord, Found, SelectWakes, FindSelected, AcceptWakes,
               StopListening, Goes
        <3>3. CASE AcceptReturns
            BY <3>3, <1>0 DEF Shapes, UserRecord, AcceptReturns, Waiting
        <3>4. CASE Listen
            <4>1. PICK selects \in BOOLEAN :
                     user' = [user EXCEPT !.listens = @ + 1, !.selects = selects,
                                          !.at = IF selects THEN "find" ELSE "accept"]
                BY <3>4 DEF Listen
            <4>2. user.listens + 1 \in Nat
                BY <1>0 DEF Shapes, UserRecord
            <4>3. ASSUME NEW at \in {"find", "accept"},
                         user' = [user EXCEPT !.listens = @ + 1, !.selects = selects, !.at = at]
                  PROVE  user' \in UserRecord
                BY <4>2, <4>3, <1>0 DEF Shapes, UserRecord
            <4>4. selects = TRUE \/ selects = FALSE
                OBVIOUS
            <4> QED
                BY <4>1, <4>3, <4>4
        <3>5. CASE \E c \in Sockets : Close(c)
            BY <3>5, <1>0 DEF Shapes, UserRecord, Close
        <3> QED
            BY <1>9, <3>1, <3>2, <3>3, <3>4, <3>5 DEF UserTask
    <2>5. selectGroup' \in SUBSET Bits
        BY <1>0, <1>9 DEF Shapes, UserTask, AcceptTake, AcceptReturns, AcceptWakes, SelectWakes,
           FindSelected, Found, Listen, StopListening, Close
    <2>6. UNCHANGED << bound, previous, passing >>
        BY <1>9 DEF UserTask, AcceptTake, AcceptReturns, AcceptWakes, SelectWakes,
           FindSelected, Found, Listen, StopListening, Close
    <2> QED
        BY <2>1, <2>2, <2>3, <2>4, <2>5, <2>6, <1>0 DEF Shapes
<1>10. CASE UNCHANGED vars
    BY <1>0, <1>10 DEF Shapes, vars
<1> QED
    BY <1>1, <1>2, <1>3, <1>4, <1>5, <1>6, <1>7, <1>8, <1>9, <1>10 DEF Next, IPTask

-----------------------------------------------------------------------------
(* The hand-over of a client *)

\* The steps of the user's task that change nothing of the clients' sockets.
UserOnly == AcceptReturns \/ AcceptWakes \/ SelectWakes \/ FindSelected \/ Found \/ StopListening
            \/ \E c \in Sockets : Close(c)

Handover == FlagsFit /\ PassingFits /\ NoListenerNoOrphan

\* What becomes of the clients' sockets in those steps.
LEMMA UserOnlyFrame ==
    ASSUME Shapes, UserOnly
    PROVE  /\ UNCHANGED << child, bound, previous, passing >>
           /\ listener'.state = listener.state /\ listener'.usChildCount = listener.usChildCount
           /\ listener'.pxPeerSocket = listener.pxPeerSocket
<1>1. CASE AcceptWakes
    BY <1>1 DEF Shapes, AcceptWakes, ListenerRecord
<1>2. CASE ~AcceptWakes
    BY <1>2 DEF UserOnly, AcceptReturns, SelectWakes, FindSelected, Found, StopListening, Close
<1> QED
    BY <1>1, <1>2

\* The facts about the hand-over speak of sockets, flags and the listener's state only.
LEMMA HandoverUnchanged ==
    ASSUME Handover, UNCHANGED << child, previous, passing >>,
           listener'.state = listener.state /\ listener'.usChildCount = listener.usChildCount
    PROVE  Handover'
BY DEF Handover, FlagsFit, PassingFits, NoListenerNoOrphan, Orphan

\* Every step of the IP task and of the user's task keeps the hand-over in order.
LEMMA StepHandover == IInv /\ [Next]_vars => Handover'
<1> SUFFICES ASSUME IInv, [Next]_vars PROVE Handover'
    OBVIOUS
<1> USE SocketsAssumption
<1>0. Shapes /\ FlagsFit /\ PassingFits /\ NoListenerNoOrphan /\ ListFits /\ HandlesFit
    BY DEF IInv
<1>a. /\ \A c \in Sockets : child[c] \in ChildRecord
      /\ listener \in ListenerRecord /\ passing \in PassingRecord
      /\ previous \in Sockets \cup {None}
    BY <1>0 DEF Shapes
<1>1. CASE HandleListen
    <2>1. PICK c \in Sockets \ Allocated :
             child' = [child EXCEPT ![c] = Copied] /\ bound' = Append(bound, c)
        BY <1>1 DEF HandleListen
    <2>2. /\ UNCHANGED << previous, passing >> /\ listener'.state = "eTCP_LISTEN"
          /\ passing = Nobody /\ previous = None
        BY <1>a, <1>1 DEF HandleListen, ListenerRecord, Idle, Done
    <2>3. /\ child'[c] = Copied /\ \A d \in Sockets \ {c} : child'[d] = child[d]
        BY <1>0, <2>1 DEF Shapes
    <2>4. FlagsFit'
        BY <1>0, <2>1, <2>2, <2>3 DEF FlagsFit, Copied, Orphan
    <2> QED
        BY <2>2, <2>4 DEF Handover, PassingFits, NoListenerNoOrphan, Nobody
<1>2. ASSUME NEW c \in Sockets, Connected(c)
      PROVE  Handover'
    <2>1. /\ passing = Nobody /\ previous = None /\ previous' = None
          /\ child[c].state = "eSYN_RECEIVED"
          /\ passing' = [by |-> "vTCPStateChange", socket |-> c]
          /\ child' = [child EXCEPT ![c].state = "eESTABLISHED"]
        BY <1>2 DEF Connected, Idle, Done
    <2>2. /\ child'[c].state = "eESTABLISHED" /\ child'[c].bPassQueued = child[c].bPassQueued
          /\ child'[c].bPassAccept = child[c].bPassAccept
          /\ \A d \in Sockets \ {c} : child'[d] = child[d]
        BY <1>0, <2>1 DEF Shapes, ChildRecord
    <2>3. listener'.state = listener.state
        BY <1>a, <1>2 DEF Connected, ListenerRecord
    <2>4. child[c].bPassQueued /\ ~child[c].bPassAccept
        BY <1>0, <2>1 DEF FlagsFit
    <2>5. FlagsFit'
        BY <1>0, <2>1, <2>2, <2>4 DEF FlagsFit, Orphan, Nobody
    <2>6. listener.state # "free"
        BY <1>0, <2>4 DEF NoListenerNoOrphan, Orphan
    <2> QED
        BY <2>1, <2>2, <2>3, <2>4, <2>5, <2>6 DEF Handover, PassingFits, NoListenerNoOrphan
<1>3. CASE Passed
    <2>1. PICK c \in Sockets :
              c = passing.socket /\ child[c].state = "eESTABLISHED" /\ child[c].bPassQueued
              /\ passing # Nobody
        BY <1>0, <1>3 DEF PassingFits, Passed, Nobody
    <2>2. previous = None /\ listener.state # "free"
        BY <1>0, <2>1 DEF PassingFits, NoListenerNoOrphan
    <2>3. /\ child' = [child EXCEPT ![c].bPassQueued = FALSE, ![c].bPassAccept = TRUE]
          /\ passing' = Nobody /\ previous' = previous /\ listener' = WokenUp(listener)
        BY <2>1, <1>3 DEF Passed
    <2>4. /\ child'[c].state = "eESTABLISHED" /\ ~child'[c].bPassQueued /\ child'[c].bPassAccept
          /\ \A d \in Sockets \ {c} : child'[d] = child[d]
        BY <1>0, <2>1, <2>3 DEF Shapes, ChildRecord
    <2>5. listener'.state = listener.state
        BY <1>a, <2>3, WokenUpShape
    <2>6. \A d \in Sockets \ {c} : child[d].bPassQueued => child[d].state # "eESTABLISHED"
        BY <1>0, <2>1 DEF FlagsFit
    <2>7. FlagsFit'
        <3> DEFINE Fits(d) ==
                /\ child[d].bPassQueued => ~child[d].bPassAccept
                /\ child[d].state = "free" => ~(child[d].bPassQueued \/ child[d].bPassAccept)
                /\ child[d].state = "eSYN_RECEIVED" => child[d].bPassQueued
                /\ child[d].state = "eESTABLISHED" /\ child[d].bPassQueued =>
                      passing = [by |-> "vTCPStateChange", socket |-> d]
                /\ child[d].state = "dead" /\ child[d].bPassQueued => previous = d
        <3>1. \A d \in Sockets : Fits(d)
            BY <1>0 DEF FlagsFit, Orphan
        <3>2. Fits(c)'
            BY <2>4
        <3>3. ASSUME NEW d \in Sockets \ {c} PROVE Fits(d)'
            BY <3>1, <2>2, <2>3, <2>4, <2>6
        <3> QED
            BY <3>2, <3>3 DEF FlagsFit, Orphan
    <2> QED
        BY <2>2, <2>3, <2>5, <2>7 DEF Handover, PassingFits, NoListenerNoOrphan, Nobody
<1>4. ASSUME NEW c \in Sockets, HalfOpenEnds(c)
      PROVE  Handover'
    <2> DEFINE closed == CloseNextTime(c)
    <2>1. /\ passing = Nobody /\ passing' = Nobody /\ previous' = c
          /\ child[c].state = "eSYN_RECEIVED"
          /\ child' = [d \in Sockets |-> IF d \in closed THEN Free
                                         ELSE [child EXCEPT ![c].state = "dead"][d]]
        BY <1>4 DEF HalfOpenEnds, Done
    <2>2. closed = {previous} \ {None}
        BY <1>0, <2>1 DEF CloseNextTime, PassingFits
    <2>3. child[c].bPassQueued /\ ~child[c].bPassAccept /\ c # previous
        BY <1>0, <2>1 DEF FlagsFit, PassingFits
    <2>4. /\ child'[c].state = "dead" /\ child'[c].bPassQueued /\ ~child'[c].bPassAccept
          /\ \A d \in Sockets \ {c} : child'[d] = IF d = previous THEN Free ELSE child[d]
        BY <1>0, <2>1, <2>2, <2>3 DEF Shapes, ChildRecord
    <2>5. listener.state # "free" /\ listener'.state = listener.state
        <3>1. listener' = Fewer(listener, CountOnce(closed)) /\ CountOnce(closed) \in Nat
            <4>1. closed \in SUBSET Sockets
                BY <1>a, <2>2
            <4> QED
                BY <4>1, <1>4, AllocatedCounts DEF HalfOpenEnds, CountOnce
        <3> QED
            BY <3>1, <1>a, <1>0, <2>3, FewerShape DEF NoListenerNoOrphan, Orphan
    <2>6. FlagsFit'
        <3> DEFINE Fits(d) ==
                /\ child[d].bPassQueued => ~child[d].bPassAccept
                /\ child[d].state = "free" => ~(child[d].bPassQueued \/ child[d].bPassAccept)
                /\ child[d].state = "eSYN_RECEIVED" => child[d].bPassQueued
                /\ child[d].state = "eESTABLISHED" /\ child[d].bPassQueued =>
                      passing = [by |-> "vTCPStateChange", socket |-> d]
                /\ child[d].state = "dead" /\ child[d].bPassQueued => previous = d
        <3>1. \A d \in Sockets : Fits(d)
            BY <1>0 DEF FlagsFit, Orphan
        <3>2. Fits(c)'
            BY <2>1, <2>4
        <3>3. ASSUME NEW d \in Sockets \ {c} PROVE Fits(d)'
            BY <3>1, <2>1, <2>3, <2>4 DEF Free, Nobody
        <3> QED
            BY <3>2, <3>3 DEF FlagsFit, Orphan
    <2> QED
        BY <2>1, <2>4, <2>5, <2>6 DEF Handover, PassingFits, NoListenerNoOrphan, Nobody
<1>5. ASSUME NEW c \in Sockets, OpenEnds(c)
      PROVE  Handover'
    <2>1. /\ passing = Nobody /\ previous = None
          /\ UNCHANGED << listener, passing, previous >>
          /\ child[c].state = "eESTABLISHED"
          /\ child' = [child EXCEPT ![c].state = "dead"]
        BY <1>5 DEF OpenEnds, Idle, Done
    <2>2. /\ child'[c].state = "dead" /\ child'[c].bPassQueued = child[c].bPassQueued
          /\ child'[c].bPassAccept = child[c].bPassAccept
          /\ \A d \in Sockets \ {c} : child'[d] = child[d]
        BY <1>0, <2>1 DEF Shapes, ChildRecord
    <2>3. ~child[c].bPassQueued
        BY <1>0, <2>1 DEF FlagsFit, Nobody
    <2>4. FlagsFit' /\ NoListenerNoOrphan'
        BY <1>0, <2>1, <2>2, <2>3 DEF FlagsFit, NoListenerNoOrphan, Orphan
    <2> QED
        BY <2>1, <2>4 DEF Handover, PassingFits, Nobody
<1>6. CASE NewClientFound
    <2> DEFINE told == [listener EXCEPT !.pxPeerSocket = passing.socket,
                                        !.xEventBits = @ \cup {"eSOCKET_ACCEPT"}]
    <2>1. /\ passing.by = "xTCPCheckNewClient" /\ passing' = Nobody /\ listener' = WokenUp(told)
          /\ UNCHANGED << child, previous >>
        BY <1>6 DEF NewClientFound
    <2>2. told \in ListenerRecord /\ told.state = listener.state
        BY <1>a DEF ListenerRecord, PassingRecord, Bits
    <2> HIDE DEF told
    <2>3. listener'.state = listener.state
        BY <2>1, <2>2, WokenUpShape
    <2>4. passing # Nobody
        BY <2>1 DEF Nobody
    <2>5. previous = None /\ listener.state # "free"
        BY <1>0, <2>4 DEF PassingFits, NoListenerNoOrphan
    <2>6. FlagsFit'
        BY <1>0, <2>1 DEF FlagsFit, Orphan
    <2> QED
        BY <2>1, <2>3, <2>5, <2>6 DEF Handover, PassingFits, NoListenerNoOrphan, Nobody
<1>7. CASE CloseOrphan
    <2>1. /\ passing = Nobody /\ passing' = Nobody /\ previous \in Sockets /\ previous' = None
          /\ child' = [d \in Sockets |-> IF d \in {previous} THEN Free ELSE child[d]]
          /\ listener' = Fewer(listener, CountOnce({previous}))
        BY <1>a, <1>7 DEF CloseOrphan, Done, Closed
    <2>2. listener.state # "free" /\ listener'.state = listener.state
        <3>1. CountOnce({previous}) \in Nat
            BY <2>1, AllocatedCounts DEF CountOnce
        <3>2. child[previous].bPassQueued
            BY <1>0, <2>1 DEF PassingFits
        <3> QED
            BY <3>1, <3>2, <1>a, <1>0, <2>1, FewerShape DEF NoListenerNoOrphan, Orphan
    <2>3. FlagsFit'
        BY <1>0, <2>1 DEF FlagsFit, Orphan, Free, Nobody
    <2> QED
        BY <2>1, <2>2, <2>3 DEF Handover, PassingFits, NoListenerNoOrphan, Nobody
<1>8. CASE HandleEvent
    <2>1. /\ passing = Nobody /\ previous = None /\ queue[1] \in EventRecord
        BY <1>0, <1>8, HeadOfQueue DEF HandleEvent, Idle, Done
    <2>2. CASE CheckNewClient
        <3> DEFINE waiting == Without(bound, {c \in Sockets : ~child[c].bPassAccept})
        <3>1. /\ UNCHANGED << listener, child, previous >>
              /\ passing' = IF listener.state = "eTCP_LISTEN" /\ waiting # << >>
                            THEN [by |-> "xTCPCheckNewClient", socket |-> waiting[1]] ELSE passing
            BY <2>2 DEF CheckNewClient
        <3>2. waiting \in Seq(Sockets) /\ Range(waiting) \subseteq Bound
            BY <1>0, WithoutRest DEF Shapes, Bound
        <3> HIDE DEF waiting
        <3>3. waiting # << >> => waiting[1] \in Sockets /\ child[waiting[1]].state # "free"
            BY <3>2, <1>0 DEF Range, ListFits, Allocated
        <3>4. FlagsFit'
            BY <1>0, <2>1, <3>1 DEF FlagsFit, Orphan, Nobody
        <3> QED
            BY <2>1, <3>1, <3>3, <3>4, <1>0 DEF Handover, PassingFits, NoListenerNoOrphan, Nobody, Orphan
    <2>3. CASE SocketSelect
        <3>1. listener'.state = listener.state /\ listener'.usChildCount = listener.usChildCount
            BY <2>3, <1>a DEF SocketSelect, ListenerRecord
        <3>2. UNCHANGED << child, previous, passing >>
            BY <2>3 DEF SocketSelect
        <3> QED
            BY <3>1, <3>2, <1>0, HandoverUnchanged DEF Handover
    <2>4. CASE CloseClient
        <3> DEFINE c == queue[1].socket
        <3>1. /\ c \in Sockets
              /\ child' = [d \in Sockets |-> IF d \in {c} THEN Free ELSE child[d]]
              /\ listener' = Fewer(listener, CountOnce({c}))
              /\ UNCHANGED << passing, previous >>
            BY <2>1, <2>4 DEF CloseClient, Closed, EventRecord
        <3>2. CountOnce({c}) \in Nat
            BY <3>1, AllocatedCounts DEF CountOnce
        <3> HIDE DEF c
        <3>3. /\ listener'.state = listener.state
              /\ listener.usChildCount = 0 => listener'.usChildCount = 0
            BY <3>1, <3>2, <1>a, FewerShape
        <3>4. FlagsFit'
            BY <1>0, <2>1, <3>1 DEF FlagsFit, Orphan, Free
        <3> QED
            BY <3>1, <3>3, <3>4, <2>1, <1>0 DEF Handover, PassingFits, NoListenerNoOrphan, Nobody, Orphan, Free
    <2>5. CASE CloseListener
        <3>1. /\ child' = [d \in Sockets |-> IF d \in Orphans THEN Free ELSE child[d]]
              /\ listener' = NotListening /\ UNCHANGED << passing, previous >>
            BY <2>5 DEF CloseListener, Closed
        <3>2. ASSUME NEW d \in Sockets
              PROVE  child'[d] = IF Orphan(d) THEN Free ELSE child[d]
            <4>1. d \in Orphans <=> Orphan(d)
                BY <1>0 DEF Orphans, ListFits, Allocated, FlagsFit
            <4> QED
                BY <3>1, <4>1
        <3>3. FlagsFit'
            BY <1>0, <2>1, <3>1, <3>2 DEF FlagsFit, Orphan, Free
        <3> QED
            BY <2>1, <3>1, <3>2, <3>3 DEF Handover, PassingFits, NoListenerNoOrphan, NotListening,
               Nobody, Orphan, Free
    <2> QED
        BY <1>8, <2>2, <2>3, <2>4, <2>5 DEF HandleEvent
<1>9. CASE AcceptTake
    <2> DEFINE c == listener.pxPeerSocket
    <2>1. UNCHANGED << previous, passing >> /\ listener' = [listener EXCEPT !.pxPeerSocket = None]
        BY <1>9 DEF AcceptTake
    <2>2. listener'.state = listener.state /\ listener'.usChildCount = listener.usChildCount
        BY <2>1, <1>a DEF ListenerRecord
    <2>3. CASE c # None /\ child[c].bPassAccept
        <3>1. c \in Sockets /\ child' = [child EXCEPT ![c].bPassAccept = FALSE]
            BY <2>3, <1>a, <1>9 DEF AcceptTake, ListenerRecord
        <3>2. /\ child'[c].state = child[c].state /\ child'[c].bPassQueued = child[c].bPassQueued
              /\ ~child'[c].bPassAccept
              /\ \A d \in Sockets \ {c} : child'[d] = child[d]
            BY <1>0, <3>1 DEF Shapes, ChildRecord
        <3> HIDE DEF c
        <3>3. FlagsFit'
            BY <1>0, <2>1, <3>1, <3>2 DEF FlagsFit, Orphan
        <3>4. PassingFits'
            BY <1>0, <2>1, <3>1, <3>2 DEF PassingFits
        <3>5. NoListenerNoOrphan'
            BY <1>0, <2>1, <2>2, <3>1, <3>2 DEF NoListenerNoOrphan, Orphan
        <3> QED
            BY <3>3, <3>4, <3>5 DEF Handover
    <2>4. CASE ~(c # None /\ child[c].bPassAccept)
        <3>1. child' = child
            BY <2>4, <1>9 DEF AcceptTake
        <3> QED
            BY <3>1, <2>1, <2>2, <1>0, HandoverUnchanged DEF Handover
    <2> QED
        BY <2>3, <2>4
<1>10. CASE Listen
    <2>1. UNCHANGED << child, previous, passing >> /\ listener'.state = "eTCP_LISTEN"
        BY <1>10 DEF Listen, Listening, NotListening
    <2> QED
        BY <1>0, <2>1 DEF Handover, FlagsFit, PassingFits, NoListenerNoOrphan, Orphan
<1>11. CASE UserOnly
    BY <1>11, <1>0, UserOnlyFrame, HandoverUnchanged DEF Handover
<1>12. CASE UNCHANGED vars
    BY <1>12, <1>0, HandoverUnchanged DEF Handover, vars
<1> QED
    BY <1>1, <1>2, <1>3, <1>4, <1>5, <1>6, <1>7, <1>8, <1>9, <1>10, <1>11, <1>12
    DEF Next, IPTask, UserTask, UserOnly

-----------------------------------------------------------------------------
(* The list of bound sockets and the count of the backlog *)

Counted == ListFits /\ BacklogHonest

\* Sockets that are closed leave the list, and the count, with the memory.
LEMMA FreedCounted ==
    ASSUME Shapes, Counted, NEW F \in SUBSET Allocated,
           Allocated' = Allocated \ F, bound' = Without(bound, F),
           listener' = Fewer(listener, CountOnce(F))
    PROVE  Counted'
<1>1. /\ IsFiniteSet(Allocated) /\ Cardinality(Allocated) \in Nat
      /\ IsFiniteSet(F) /\ Cardinality(F) \in Nat /\ Cardinality(F) <= Cardinality(Allocated)
    BY AllocatedCounts, FS_Subset, FS_CardinalityType
<1>2. Cardinality(Allocated') = Cardinality(Allocated) - Cardinality(F)
    <2>1. Allocated \cap F = F
        OBVIOUS
    <2> QED
        BY <2>1, <1>1, FS_Difference
<1>3. ListFits'
    <2>1. bound \in Seq(Sockets) /\ Range(bound) = Allocated
          /\ \A i, j \in DOMAIN bound : bound[i] = bound[j] => i = j
        BY DEF Shapes, Counted, ListFits, Bound
    <2>2. Range(bound') = Allocated \ F
          /\ \A i, j \in DOMAIN bound' : bound'[i] = bound'[j] => i = j
        BY <2>1, WithoutRest
    <2> QED
        BY <2>2 DEF ListFits, Bound
<1>4. BacklogHonest'
    <2>1. /\ listener \in ListenerRecord /\ listener.usChildCount \in Nat
          /\ CountOnce(F) = Cardinality(F)
        BY SocketsAssumption DEF Shapes, CountOnce, ListenerRecord
    <2>2. listener' = Fewer(listener, Cardinality(F))
        BY <2>1
    <2>3. /\ listener'.state = listener.state
          /\ listener'.usChildCount = IF listener.usChildCount > Cardinality(F)
                                      THEN listener.usChildCount - Cardinality(F) ELSE 0
        BY <2>1, <2>2, <1>1, FewerShape
    <2> QED
        BY <2>1, <2>3, <1>1, <1>2 DEF Counted, BacklogHonest
<1> QED
    BY <1>3, <1>4 DEF Counted

\* A step that makes no socket and frees none, and leaves the list and the count.
LEMMA CountedUnchanged ==
    ASSUME Counted, bound' = bound, Allocated' = Allocated,
           listener'.state = listener.state /\ listener'.usChildCount = listener.usChildCount
    PROVE  Counted'
BY DEF Counted, ListFits, Bound, BacklogHonest

\* Every step keeps the list complete and the count true.
LEMMA StepCounted == IInv /\ [Next]_vars => Counted'
<1> SUFFICES ASSUME IInv, [Next]_vars PROVE Counted'
    OBVIOUS
<1> USE SocketsAssumption
<1>0. /\ Shapes /\ FlagsFit /\ PassingFits /\ NoListenerNoOrphan /\ HandlesFit /\ Counted
      /\ Bound = Allocated
    BY DEF IInv, Counted, ListFits
<1>a. /\ listener \in ListenerRecord /\ passing \in PassingRecord
      /\ previous \in Sockets \cup {None} /\ bound \in Seq(Sockets)
      /\ child \in [Sockets -> ChildRecord]
    BY <1>0 DEF Shapes
<1>1. CASE HandleListen
    <2>1. PICK c \in Sockets \ Allocated :
             child' = [child EXCEPT ![c] = Copied] /\ bound' = Append(bound, c)
        BY <1>1 DEF HandleListen
    <2>2. Allocated' = Allocated \cup {c}
        BY <1>a, <2>1 DEF Allocated, Copied
    <2>3. Cardinality(Allocated') = Cardinality(Allocated) + 1
        BY <2>1, <2>2, AllocatedCounts, FS_AddElement
    <2>4. /\ listener'.state = listener.state
          /\ listener'.usChildCount = listener.usChildCount + 1
        BY <1>a, <1>1 DEF HandleListen, ListenerRecord
    <2>5. /\ Len(bound) \in Nat /\ Len(bound') = Len(bound) + 1
          /\ \A i \in 1 .. Len(bound) : bound'[i] = bound[i]
          /\ bound'[Len(bound) + 1] = c
          /\ DOMAIN bound = 1 .. Len(bound) /\ DOMAIN bound' = 1 .. Len(bound) + 1
        BY <1>a, <2>1
    <2>6. \A i \in 1 .. Len(bound) : bound[i] # c
        BY <1>0, <2>1, <2>5 DEF Bound, Range
    <2>7. Bound' = Bound \cup {c}
        BY <2>5 DEF Bound, Range
    <2>8. \A i, j \in DOMAIN bound' : bound'[i] = bound'[j] => i = j
        BY <2>5, <2>6, <1>0 DEF Counted, ListFits
    <2>9. ListFits'
        BY <2>2, <2>7, <2>8, <1>0 DEF ListFits
    <2> QED
        BY <2>3, <2>4, <2>9, <1>0 DEF Counted, BacklogHonest
<1>2. ASSUME NEW c \in Sockets, Connected(c)
      PROVE  Counted'
    <2>1. /\ listener'.state = listener.state /\ listener'.usChildCount = listener.usChildCount
          /\ bound' = bound
        BY <1>a, <1>2 DEF Connected, ListenerRecord
    <2>2. child[c].state # "free" /\ child' = [child EXCEPT ![c].state = "eESTABLISHED"]
        BY <1>2 DEF Connected
    <2>3. Allocated' = Allocated
        BY <2>2, <1>a DEF Allocated, ChildRecord
    <2> QED
        BY <2>1, <2>3, <1>0, CountedUnchanged
<1>3. CASE Passed
    <2>1. /\ listener'.state = listener.state /\ listener'.usChildCount = listener.usChildCount
          /\ bound' = bound
        BY <1>a, <1>3, WokenUpShape DEF Passed
    <2>2. \A c \in Sockets : child'[c].state = child[c].state
        BY <1>a, <1>3 DEF Passed, ChildRecord
    <2> QED
        BY <2>1, <2>2, <1>0, CountedUnchanged DEF Allocated
<1>4. ASSUME NEW c \in Sockets, HalfOpenEnds(c)
      PROVE  Counted'
    <2> DEFINE closed == CloseNextTime(c)
    <2>1. /\ child[c].state # "free"
          /\ child' = [d \in Sockets |-> IF d \in closed THEN Free
                                         ELSE [child EXCEPT ![c].state = "dead"][d]]
          /\ bound' = Without(bound, closed)
          /\ listener' = Fewer(listener, CountOnce(closed))
        BY <1>4 DEF HalfOpenEnds
    <2>2. closed \in SUBSET Allocated
        BY <1>0, <1>a DEF CloseNextTime, PassingFits, Allocated
    <2>3. Allocated' = Allocated \ closed
        <3> HIDE DEF closed
        <3> QED
            BY <2>1, <2>2, <1>a DEF Allocated, Free, ChildRecord
    <2> HIDE DEF closed
    <2> QED
        BY <2>1, <2>2, <2>3, <1>0, FreedCounted
<1>5. ASSUME NEW c \in Sockets, OpenEnds(c)
      PROVE  Counted'
    <2>1. /\ child[c].state # "free" /\ child' = [child EXCEPT ![c].state = "dead"]
          /\ UNCHANGED << listener, bound >>
        BY <1>5 DEF OpenEnds
    <2>2. Allocated' = Allocated
        BY <2>1, <1>a DEF Allocated, ChildRecord
    <2> QED
        BY <2>1, <2>2, <1>0, CountedUnchanged
<1>6. CASE NewClientFound
    <2> DEFINE told == [listener EXCEPT !.pxPeerSocket = passing.socket,
                                        !.xEventBits = @ \cup {"eSOCKET_ACCEPT"}]
    <2>1. listener' = WokenUp(told) /\ UNCHANGED << child, bound >>
        BY <1>6 DEF NewClientFound
    <2>2. /\ told \in ListenerRecord /\ told.state = listener.state
          /\ told.usChildCount = listener.usChildCount
        BY <1>a DEF ListenerRecord, PassingRecord, Bits
    <2> HIDE DEF told
    <2>3. listener'.state = listener.state /\ listener'.usChildCount = listener.usChildCount
        BY <2>1, <2>2, WokenUpShape
    <2> QED
        BY <2>1, <2>3, <1>0, CountedUnchanged DEF Allocated
<1>7. CASE CloseOrphan
    <2> DEFINE closed == {previous}
    <2>1. /\ child' = [d \in Sockets |-> IF d \in closed THEN Free ELSE child[d]]
          /\ bound' = Without(bound, closed)
          /\ listener' = Fewer(listener, CountOnce(closed))
        BY <1>7 DEF CloseOrphan, Closed
    <2>2. closed \in SUBSET Allocated
        BY <1>0, <1>a, <1>7 DEF CloseOrphan, PassingFits, Allocated
    <2>3. Allocated' = Allocated \ closed
        BY <2>1, <1>a DEF Allocated, Free
    <2> QED
        BY <2>1, <2>2, <2>3, <1>0, FreedCounted
<1>8. CASE HandleEvent
    <2>1. queue # << >> /\ queue[1] \in EventRecord
        BY <1>0, <1>8, HeadOfQueue DEF HandleEvent
    <2>2. CASE CheckNewClient
        BY <2>2, <1>0, CountedUnchanged DEF CheckNewClient, Allocated
    <2>3. CASE SocketSelect
        <3>1. /\ listener'.state = listener.state /\ listener'.usChildCount = listener.usChildCount
              /\ UNCHANGED << child, bound >>
            BY <2>3, <1>a DEF SocketSelect, ListenerRecord
        <3> QED
            BY <3>1, <1>0, CountedUnchanged DEF Allocated
    <2>4. CASE CloseClient
        <3> DEFINE closed == {queue[1].socket}
        <3>1. /\ child' = [d \in Sockets |-> IF d \in closed THEN Free ELSE child[d]]
              /\ bound' = Without(bound, closed)
              /\ listener' = Fewer(listener, CountOnce(closed))
            BY <2>4 DEF CloseClient, Closed
        <3>2. closed \in SUBSET Allocated
            <4>1. queue[1].socket \in Sockets /\ IsClose(queue[1]) /\ 1 \in DOMAIN queue
                BY <2>1, <2>4, <1>0, HeadOfQueue DEF CloseClient, EventRecord, IsClose
            <4>2. Given(queue[1].socket)
                BY <4>1, <1>0 DEF HandlesFit
            <4> QED
                BY <4>1, <4>2 DEF Given, Allocated
        <3> HIDE DEF closed
        <3>3. Allocated' = Allocated \ closed
            BY <3>1, <1>a DEF Allocated, Free
        <3> QED
            BY <3>1, <3>2, <3>3, <1>0, FreedCounted
    <2>5. CASE CloseListener
        <3>1. /\ child' = [d \in Sockets |-> IF d \in Orphans THEN Free ELSE child[d]]
              /\ bound' = Without(bound, Orphans)
              /\ listener' = NotListening
            BY <2>5 DEF CloseListener, Closed
        <3>2. Allocated' = Allocated \ Orphans
            BY <3>1, <1>a DEF Allocated, Free
        <3>3. Range(bound') = Bound \ Orphans
              /\ \A i, j \in DOMAIN bound' : bound'[i] = bound'[j] => i = j
            <4>1. \A i, j \in DOMAIN bound : bound[i] = bound[j] => i = j
                BY <1>0 DEF Counted, ListFits
            <4> QED
                BY <4>1, <3>1, <1>a, WithoutRest DEF Bound
        <3>4. listener'.state = "free"
            BY <3>1 DEF NotListening
        <3> QED
            BY <3>2, <3>3, <3>4, <1>0 DEF Counted, ListFits, Bound, BacklogHonest
    <2> QED
        BY <1>8, <2>2, <2>3, <2>4, <2>5 DEF HandleEvent
<1>9. CASE AcceptTake
    <2>1. /\ listener'.state = listener.state /\ listener'.usChildCount = listener.usChildCount
          /\ bound' = bound
        BY <1>a, <1>9 DEF AcceptTake, ListenerRecord
    <2>2. \A c \in Sockets : child'[c].state = child[c].state
        BY <1>a, <1>9 DEF AcceptTake, ChildRecord
    <2> QED
        BY <2>1, <2>2, <1>0, CountedUnchanged DEF Allocated
<1>10. CASE Listen
    <2>1. /\ UNCHANGED << child, bound >> /\ bound = << >>
          /\ listener'.usChildCount = 0
        BY <1>10 DEF Listen, PortFree, Listening, NotListening
    <2>2. Bound = {}
        BY <2>1 DEF Bound, Range
    <2>3. Allocated' = {} /\ Cardinality(Allocated') = 0
        BY <2>1, <2>2, <1>0, FS_EmptySet DEF Allocated
    <2>4. ListFits'
        BY <2>1, <2>3, <2>2, <1>0 DEF Counted, ListFits, Bound
    <2> QED
        BY <2>1, <2>3, <2>4 DEF Counted, BacklogHonest
<1>11. CASE UserOnly
    BY <1>11, <1>0, UserOnlyFrame, CountedUnchanged DEF Allocated
<1>12. CASE UNCHANGED vars
    BY <1>12, <1>0, CountedUnchanged DEF vars, Allocated
<1> QED
    BY <1>1, <1>2, <1>3, <1>4, <1>5, <1>6, <1>7, <1>8, <1>9, <1>10, <1>11, <1>12
    DEF Next, IPTask, UserTask, UserOnly

-----------------------------------------------------------------------------
(* What the user's task holds, and what it has asked for *)

\* A socket that was given to the user's task stays with it until the IP task
\* frees it, for the event that asks for it.
LEMMA GivenStays ==
    ASSUME IInv, [Next]_vars, NEW c \in Sockets, Given(c)
    PROVE  \/ Given(c)'
           \/ HandleEvent /\ CloseClient /\ queue[1].socket = c
<1>0. Shapes /\ FlagsFit /\ PassingFits
    BY DEF IInv
<1>a. /\ child \in [Sockets -> ChildRecord] /\ previous \in Sockets \cup {None}
      /\ child[c].state \in {"eESTABLISHED", "dead"}
      /\ ~child[c].bPassQueued /\ ~child[c].bPassAccept
    BY <1>0 DEF Shapes, Given, Orphan
<1>1. CASE child'[c] = child[c]
    BY <1>1, <1>a DEF Given, Orphan
<1>2. CASE HandleListen
    BY <1>2, <1>1, <1>a DEF HandleListen, Allocated
<1>3. ASSUME NEW d \in Sockets, Connected(d)
      PROVE  child'[c] = child[c]
    BY <1>3, <1>a DEF Connected
<1>4. CASE Passed
    BY <1>4, <1>0, <1>1, <1>a DEF Passed, PassingFits
<1>5. ASSUME NEW d \in Sockets, HalfOpenEnds(d)
      PROVE  child'[c] = child[c]
    <2>1. c # d /\ c \notin CloseNextTime(d)
        BY <1>5, <1>0, <1>a DEF HalfOpenEnds, CloseNextTime, PassingFits
    <2> QED
        BY <2>1, <1>5, <1>a DEF HalfOpenEnds
<1>6. ASSUME NEW d \in Sockets, OpenEnds(d)
      PROVE  Given(c)'
    BY <1>6, <1>a DEF OpenEnds, Given, Orphan, ChildRecord
<1>7. CASE CloseOrphan
    <2>1. c # previous
        BY <1>7, <1>0, <1>a DEF CloseOrphan, PassingFits
    <2> QED
        BY <2>1, <1>7, <1>1, <1>a DEF CloseOrphan, Closed
<1>8. CASE HandleEvent
    <2>1. CASE CheckNewClient \/ SocketSelect
        BY <2>1, <1>1 DEF CheckNewClient, SocketSelect
    <2>2. CASE CloseClient
        BY <2>2, <1>8, <1>1, <1>a DEF CloseClient, Closed
    <2>3. CASE CloseListener
        <3>1. c \notin Orphans
            BY <1>a DEF Orphans, Orphan
        <3> QED
            BY <3>1, <2>3, <1>1, <1>a DEF CloseListener, Closed
    <2> QED
        BY <1>8, <2>1, <2>2, <2>3 DEF HandleEvent
<1>9. CASE AcceptTake
    BY <1>9, <1>1, <1>a DEF AcceptTake, Given, Orphan
<1>10. CASE NewClientFound \/ Listen \/ UserOnly \/ UNCHANGED vars
    <2>1. UNCHANGED child
        BY <1>10, <1>0, UserOnlyFrame DEF NewClientFound, Listen, vars
    <2> QED
        BY <2>1, <1>1
<1> QED
    BY <1>1, <1>2, <1>3, <1>4, <1>5, <1>6, <1>7, <1>8, <1>9, <1>10
    DEF Next, IPTask, UserTask, UserOnly

\* The events that wait do not change what the user's task holds.
LEMMA TailHandles ==
    ASSUME IInv, [Next]_vars, HandleEvent
    PROVE  HandlesFit'
<1>1. /\ Len(queue) \in Nat /\ Len(queue) >= 1 /\ queue' = Tail(queue) /\ UNCHANGED user
      /\ Len(queue') = Len(queue) - 1
      /\ DOMAIN queue = 1 .. Len(queue) /\ DOMAIN queue' = 1 .. Len(queue) - 1
      /\ \A j \in DOMAIN queue' : j + 1 \in DOMAIN queue /\ queue'[j] = queue[j + 1]
      /\ 1 \in DOMAIN queue
      /\ \A j \in DOMAIN queue : queue[j] \in EventRecord
      /\ HandlesFit /\ user.holds \in SUBSET Sockets
    BY HeadOfQueue DEF HandleEvent, IInv, Shapes, UserRecord
<1>2. ASSUME NEW c \in user'.holds
      PROVE  Given(c)'
    <2>1. CloseClient => IsClose(queue[1])
        BY DEF CloseClient, IsClose
    <2>2. c \in Sockets /\ Given(c) /\ ~(CloseClient /\ queue[1].socket = c)
        BY <1>1, <2>1 DEF HandlesFit
    <2> QED
        BY <2>2, GivenStays
<1>3. ASSUME NEW j \in DOMAIN queue', IsClose(queue'[j])
      PROVE  Given(queue[j].socket)' /\ queue'[j].socket \notin user'.holds
    <2>1. PICK c \in Sockets : c = queue'[j].socket
        BY <1>1, <1>3 DEF EventRecord, IsClose
    <2>2. Given(c) /\ c \notin user.holds
        BY <1>1, <1>3, <2>1 DEF HandlesFit
    <2>3. CloseClient => IsClose(queue[1])
        BY DEF CloseClient, IsClose
    <2>4. ~(CloseClient /\ queue[1].socket = c)
        <3>1. ~(1 = j + 1)
            BY <1>1
        <3> QED
            BY <3>1, <1>1, <1>3, <2>1, <2>3 DEF HandlesFit
    <2>5. Given(c)'
        BY <2>2, <2>4, GivenStays
    <2> QED
        BY <2>1, <2>2, <2>5, <1>1 DEF Given, Orphan
<1>4. ASSUME NEW i \in DOMAIN queue', NEW j \in DOMAIN queue',
             IsClose(queue'[i]), IsClose(queue'[j]), queue'[i].socket = queue'[j].socket
      PROVE  i = j
    <2>1. i + 1 = j + 1
        BY <1>1, <1>4 DEF HandlesFit
    <2> QED
        BY <2>1, <1>1
<1> QED
    BY <1>2, <1>3, <1>4 DEF HandlesFit, IsClose

\* An event that is sent goes behind the others, and closes at most what it names.
LEMMA SentHandles ==
    ASSUME IInv, NEW e \in EventRecord, queue' = Append(queue, e), UNCHANGED child,
           user'.holds = user.holds \ {e.socket},
           IsClose(e) => e.socket \in user.holds
    PROVE  HandlesFit'
<1>1. /\ Len(queue) \in Nat /\ Len(queue') = Len(queue) + 1
      /\ DOMAIN queue = 1 .. Len(queue) /\ DOMAIN queue' = 1 .. Len(queue) + 1
      /\ \A j \in DOMAIN queue : queue'[j] = queue[j]
      /\ queue'[Len(queue) + 1] = e
      /\ HandlesFit
    BY EndOfQueue DEF IInv, Shapes
<1>2. \A c : Given(c)' <=> Given(c)
    BY DEF Given, Orphan
<1>3. \A c \in user'.holds : Given(c)'
    BY <1>1, <1>2 DEF HandlesFit
<1>4. ASSUME NEW j \in DOMAIN queue', IsClose(queue'[j])
      PROVE  Given(queue[j].socket)' /\ queue'[j].socket \notin user'.holds
    <2>1. CASE j \in DOMAIN queue
        BY <2>1, <1>1, <1>2, <1>4 DEF HandlesFit, Given, Orphan
    <2>2. CASE j = Len(queue) + 1
        BY <2>2, <1>1, <1>2, <1>4 DEF HandlesFit, Given, Orphan
    <2> QED
        BY <2>1, <2>2, <1>1
<1>5. ASSUME NEW i \in DOMAIN queue', NEW j \in DOMAIN queue',
             IsClose(queue'[i]), IsClose(queue'[j]), queue'[i].socket = queue'[j].socket
      PROVE  i = j
    <2>1. CASE i \in DOMAIN queue /\ j \in DOMAIN queue
        BY <2>1, <1>1, <1>5 DEF HandlesFit
    <2>2. CASE i = Len(queue) + 1 /\ j \in DOMAIN queue
        BY <2>2, <1>1, <1>5 DEF HandlesFit
    <2>3. CASE i \in DOMAIN queue /\ j = Len(queue) + 1
        BY <2>3, <1>1, <1>5 DEF HandlesFit
    <2> QED
        BY <2>1, <2>2, <2>3, <1>1
<1> QED
    BY <1>3, <1>4, <1>5 DEF HandlesFit, IsClose

\* What the user's task sends.
LEMMA WhatIsSent ==
    ASSUME Shapes, NEW e, e \in
        {[event |-> "eTCPAcceptEvent", socket |-> None], [event |-> "eSocketSelectEvent", socket |-> None],
         [event |-> "eSocketCloseEvent", socket |-> None]}
    PROVE  e \in EventRecord /\ ~IsClose(e) /\ user.holds \ {e.socket} = user.holds
BY SocketsAssumption DEF EventRecord, IsClose, Shapes, UserRecord

\* Every step leaves the user's task with sockets it was given.
LEMMA StepHandles == IInv /\ [Next]_vars => HandlesFit'
<1> SUFFICES ASSUME IInv, [Next]_vars PROVE HandlesFit'
    OBVIOUS
<1>0. Shapes /\ HandlesFit /\ FlagsFit
    BY DEF IInv
<1>a. /\ user \in UserRecord /\ user.holds \in SUBSET Sockets
      /\ \A j \in DOMAIN queue : queue[j] \in EventRecord
    BY <1>0 DEF Shapes, UserRecord
<1>1. ASSUME ~HandleEvent, UNCHANGED queue, user'.holds = user.holds
      PROVE  HandlesFit'
    <2>1. \A c \in user'.holds : Given(c)'
        BY <1>0, <1>a, <1>1, GivenStays DEF HandlesFit
    <2>2. ASSUME NEW j \in DOMAIN queue', IsClose(queue'[j])
          PROVE  Given(queue[j].socket)' /\ queue'[j].socket \notin user'.holds
        <3>1. PICK c \in Sockets : c = queue[j].socket
            BY <1>1, <1>a, <2>2 DEF IsClose, EventRecord
        <3>2. Given(c) /\ c \notin user.holds
            BY <1>0, <1>1, <2>2, <3>1 DEF HandlesFit
        <3>3. Given(c)'
            BY <1>1, <3>2, GivenStays
        <3> QED
            BY <1>1, <3>1, <3>2, <3>3 DEF Given, Orphan
    <2>3. \A i, j \in DOMAIN queue' :
             IsClose(queue'[i]) /\ IsClose(queue'[j]) /\ queue'[i].socket = queue'[j].socket => i = j
        BY <1>0, <1>1 DEF HandlesFit
    <2> QED
        BY <2>1, <2>2, <2>3 DEF HandlesFit, IsClose
<1>2. CASE HandleEvent
    BY <1>2, TailHandles
<1>3. ASSUME ~HandleEvent, IPTask \/ AcceptWakes \/ SelectWakes \/ Found \/ Listen \/ UNCHANGED vars
      PROVE  HandlesFit'
    <2>1. UNCHANGED queue
        BY <1>3 DEF IPTask, HandleListen, Connected, HalfOpenEnds, OpenEnds, Passed, NewClientFound,
           CloseOrphan, AcceptWakes, SelectWakes, Found, Listen, vars
    <2>2. user'.holds = user.holds
        <3>1. CASE UNCHANGED user
            BY <3>1
        <3>2. CASE AcceptWakes \/ SelectWakes \/ Found
            BY <3>2, <1>a DEF AcceptWakes, SelectWakes, Found, Goes, UserRecord
        <3>3. CASE Listen
            BY <3>3, <1>a DEF Listen, UserRecord
        <3> QED
            BY <1>3, <3>1, <3>2, <3>3 DEF IPTask, HandleListen, Connected, HalfOpenEnds, OpenEnds,
               Passed, NewClientFound, CloseOrphan, vars
    <2> QED
        BY <2>1, <2>2, <1>1, <1>3
<1>4. CASE AcceptTake /\ ~HandleEvent
    <2> DEFINE c == listener.pxPeerSocket
    <2>1. CASE c # None /\ child[c].bPassAccept
        <3>1. PICK d \in Sockets : d = c
            BY <2>1, <1>0 DEF Shapes, ListenerRecord
        <3>2. /\ child' = [child EXCEPT ![d].bPassAccept = FALSE]
              /\ user'.holds = user.holds \cup {d} /\ UNCHANGED queue
            BY <2>1, <3>1, <1>4, <1>a DEF AcceptTake, UserRecord
        <3>3. Given(d)'
            BY <3>1, <3>2, <2>1, <1>0 DEF FlagsFit, Given, Orphan, Shapes, ChildRecord
        <3>4. ASSUME NEW b \in Sockets, Given(b)
              PROVE  Given(b)' /\ b # d
            BY <3>1, <3>4, <2>1, <1>4, GivenStays DEF Given, Orphan
        <3>5. \A b \in user'.holds : Given(b)'
            BY <3>2, <3>3, <3>4, <1>0, <1>a DEF HandlesFit
        <3>6. ASSUME NEW j \in DOMAIN queue', IsClose(queue'[j])
              PROVE  Given(queue[j].socket)' /\ queue'[j].socket \notin user'.holds
            <4>1. PICK b \in Sockets : b = queue[j].socket
                BY <3>2, <1>a, <3>6 DEF IsClose, EventRecord
            <4>2. Given(b) /\ b \notin user.holds
                BY <1>0, <3>2, <3>6, <4>1 DEF HandlesFit
            <4> QED
                BY <4>1, <4>2, <3>2, <3>4 DEF Given, Orphan
        <3>7. \A i, j \in DOMAIN queue' :
                 IsClose(queue'[i]) /\ IsClose(queue'[j]) /\ queue'[i].socket = queue'[j].socket => i = j
            BY <1>0, <3>2 DEF HandlesFit
        <3> QED
            BY <3>5, <3>6, <3>7 DEF HandlesFit, IsClose
    <2>2. CASE ~(c # None /\ child[c].bPassAccept)
        <3>1. user'.holds = user.holds /\ UNCHANGED queue
            BY <2>2, <1>4, <1>a DEF AcceptTake, UserRecord
        <3> QED
            BY <3>1, <1>1, <1>4
    <2> QED
        BY <2>1, <2>2
<1>5. CASE AcceptReturns \/ FindSelected \/ StopListening
    <2>1. user'.holds = user.holds /\ UNCHANGED child
        BY <1>5, <1>a DEF AcceptReturns, FindSelected, StopListening, Goes, UserRecord
    <2>2. PICK e \in {[event |-> "eTCPAcceptEvent", socket |-> None],
                      [event |-> "eSocketSelectEvent", socket |-> None],
                      [event |-> "eSocketCloseEvent", socket |-> None]} : queue' = Append(queue, e)
        BY <1>5 DEF AcceptReturns, FindSelected, StopListening, Ask, Sends
    <2>3. e \in EventRecord /\ ~IsClose(e) /\ user.holds \ {e.socket} = user.holds
        BY <1>0, WhatIsSent
    <2> QED
        BY <2>1, <2>2, <2>3, SentHandles
<1>6. ASSUME NEW c \in Sockets, Close(c)
      PROVE  HandlesFit'
    <2> DEFINE e == [event |-> "eSocketCloseEvent", socket |-> c]
    <2>1. /\ e \in EventRecord /\ e.socket = c /\ c \in user.holds
          /\ queue' = Append(queue, e) /\ UNCHANGED child
        BY <1>6 DEF EventRecord, Close, Sends
    <2>2. user'.holds = user.holds \ {c}
        BY <1>6, <1>a DEF Close, UserRecord
    <2> HIDE DEF e
    <2> QED
        BY <2>1, <2>2, SentHandles
<1> QED
    BY <1>2, <1>3, <1>4, <1>5, <1>6 DEF Next, UserTask

-----------------------------------------------------------------------------
(* The events in the queue, counted *)

\* A task that waits for nothing has no question in the queue.
LEMMA NoOther ==
    ASSUME OneOther, user.at \notin {"closed", "found"} \/ (user.at = "found" /\ "eSELECT_CALL_IP" \in selectGroup)
    PROVE  \A i \in DOMAIN queue : ~IsOther(queue[i])
BY DEF OneOther

\* Every step leaves at most one question in the queue, and the task waiting for it.
LEMMA StepOneOther == IInv /\ [Next]_vars => OneOther'
<1> SUFFICES ASSUME IInv, [Next]_vars PROVE OneOther'
    OBVIOUS
<1>0. Shapes /\ OneOther
    BY DEF IInv
<1>a. /\ user \in UserRecord /\ listener \in ListenerRecord
      /\ Len(queue) \in Nat /\ DOMAIN queue = 1 .. Len(queue)
    BY <1>0 DEF Shapes
<1>1. ASSUME UNCHANGED << queue, user >>,
             "eSELECT_CALL_IP" \in selectGroup' => "eSELECT_CALL_IP" \in selectGroup
      PROVE  OneOther'
    BY <1>1, <1>0 DEF OneOther, IsOther, IsRequest, IsClose
<1>2. ASSUME UNCHANGED queue, \A i \in DOMAIN queue : ~IsOther(queue[i])
      PROVE  OneOther'
    BY <1>2 DEF OneOther, IsOther, IsRequest, IsClose
<1>3. ASSUME NEW e \in EventRecord, queue' = Append(queue, e),
             IsOther(e) => \A i \in DOMAIN queue : ~IsOther(queue[i]),
             \A i \in DOMAIN queue : IsOther(queue[i]) => UNCHANGED << user.at, selectGroup >>,
             IsOther(e) => \/ e.event = "eSocketCloseEvent" /\ user'.at = "closed"
                           \/ /\ e.event = "eSocketSelectEvent" /\ user'.at = "found"
                              /\ "eSELECT_CALL_IP" \notin selectGroup'
      PROVE  OneOther'
    <2>1. /\ DOMAIN queue' = 1 .. Len(queue) + 1
          /\ \A j \in DOMAIN queue : queue'[j] = queue[j]
          /\ queue'[Len(queue) + 1] = e
        BY <1>0, <1>3, EndOfQueue
    <2>2. ASSUME NEW i \in DOMAIN queue', NEW j \in DOMAIN queue',
                 IsOther(queue'[i]), IsOther(queue'[j])
          PROVE  i = j
        <3>1. CASE i \in DOMAIN queue /\ j \in DOMAIN queue
            BY <3>1, <2>1, <2>2, <1>0 DEF OneOther
        <3>2. CASE ~(i \in DOMAIN queue /\ j \in DOMAIN queue)
            BY <3>2, <2>1, <2>2, <1>3, <1>a
        <3> QED
            BY <3>1, <3>2
    <2>3. ASSUME NEW i \in DOMAIN queue', IsOther(queue'[i])
          PROVE  \/ queue'[i].event = "eSocketCloseEvent" /\ user'.at = "closed"
                 \/ /\ queue'[i].event = "eSocketSelectEvent" /\ user'.at = "found"
                    /\ "eSELECT_CALL_IP" \notin selectGroup'
        <3>1. CASE i \in DOMAIN queue
            BY <3>1, <2>1, <2>3, <1>0, <1>3 DEF OneOther
        <3>2. CASE i = Len(queue) + 1
            BY <3>2, <2>1, <2>3, <1>3
        <3> QED
            BY <3>1, <3>2, <2>1, <1>a
    <2> QED
        BY <2>2, <2>3 DEF OneOther, IsOther, IsRequest, IsClose
<1>4. CASE HandleEvent
    <2>1. /\ DOMAIN queue' = 1 .. Len(queue) - 1 /\ UNCHANGED user
          /\ \A j \in DOMAIN queue' : j + 1 \in DOMAIN queue /\ queue'[j] = queue[j + 1]
          /\ 1 \in DOMAIN queue
        BY <1>0, <1>4, HeadOfQueue DEF HandleEvent, Shapes
    <2>2. ASSUME NEW i \in DOMAIN queue', IsOther(queue'[i])
          PROVE  /\ \A j \in DOMAIN queue' : IsOther(queue'[j]) => i = j
                 /\ ~SocketSelect
        <3>1. ASSUME NEW j \in DOMAIN queue', IsOther(queue'[j])
              PROVE  i = j
            <4>1. i + 1 = j + 1
                BY <2>1, <2>2, <3>1, <1>0 DEF OneOther
            <4> QED
                BY <4>1, <2>1, <1>a
        <3>2. SocketSelect => IsOther(queue[1])
            BY DEF SocketSelect, IsOther, IsRequest, IsClose
        <3>3. ~(1 = i + 1)
            BY <2>1, <1>a
        <3>4. ~SocketSelect
            BY <3>2, <3>3, <2>1, <2>2, <1>0 DEF OneOther
        <3> QED
            BY <3>1, <3>4
    <2>3. ASSUME NEW i \in DOMAIN queue', IsOther(queue'[i])
          PROVE  \/ queue'[i].event = "eSocketCloseEvent" /\ user'.at = "closed"
                 \/ /\ queue'[i].event = "eSocketSelectEvent" /\ user'.at = "found"
                    /\ "eSELECT_CALL_IP" \notin selectGroup'
        <3>1. UNCHANGED selectGroup
            BY <1>4, <2>2, <2>3 DEF HandleEvent, CheckNewClient, CloseClient, CloseListener
        <3> QED
            BY <3>1, <2>1, <2>3, <1>0 DEF OneOther
    <2> QED
        BY <2>2, <2>3 DEF OneOther, IsOther, IsRequest, IsClose
<1>5. CASE HandleListen \/ CloseOrphan \/ UNCHANGED vars
    BY <1>5, <1>1 DEF HandleListen, CloseOrphan, vars
<1>6. CASE \E c \in Sockets : Connected(c) \/ HalfOpenEnds(c) \/ OpenEnds(c)
    BY <1>6, <1>1 DEF Connected, HalfOpenEnds, OpenEnds
<1>7. CASE Passed \/ NewClientFound
    BY <1>7, <1>1 DEF Passed, NewClientFound, SelectWoken
<1>8. CASE AcceptTake \/ AcceptWakes \/ SelectWakes
    <2>1. user.at \notin {"closed", "found"} /\ UNCHANGED queue
        BY <1>8 DEF AcceptTake, AcceptWakes, SelectWakes
    <2> QED
        BY <2>1, <1>0, <1>2, NoOther
<1>9. CASE Found
    BY <1>9, <1>0, <1>2, NoOther DEF Found
<1>10. CASE Listen
    BY <1>10, <1>2 DEF Listen, PortFree
<1>11. CASE AcceptReturns
    <2> DEFINE e == [event |-> "eTCPAcceptEvent", socket |-> None]
    <2>1. e \in EventRecord /\ ~IsOther(e) /\ queue' = Append(queue, e) /\ user.at = "ask"
        BY <1>11 DEF EventRecord, IsOther, IsRequest, AcceptReturns, Ask, Sends
    <2> HIDE DEF e
    <2> QED
        BY <2>1, <1>0, <1>3, NoOther
<1>12. CASE FindSelected
    <2> DEFINE e == [event |-> "eSocketSelectEvent", socket |-> None]
    <2>1. /\ e \in EventRecord /\ e.event = "eSocketSelectEvent" /\ queue' = Append(queue, e)
          /\ user.at = "find" /\ user'.at = "found" /\ "eSELECT_CALL_IP" \notin selectGroup'
        BY <1>12, <1>a DEF EventRecord, FindSelected, Sends, Goes, UserRecord
    <2> HIDE DEF e
    <2> QED
        BY <2>1, <1>0, <1>3, NoOther
<1>13. CASE StopListening
    <2> DEFINE e == [event |-> "eSocketCloseEvent", socket |-> None]
    <2>1. /\ e \in EventRecord /\ e.event = "eSocketCloseEvent" /\ queue' = Append(queue, e)
          /\ user.at \in {"accept", "select"} /\ user'.at = "closed"
        BY <1>13, <1>a DEF EventRecord, StopListening, Sends, Goes, UserRecord
    <2> HIDE DEF e
    <2> QED
        BY <2>1, <1>0, <1>3, NoOther
<1>14. ASSUME NEW c \in Sockets, Close(c)
       PROVE  OneOther'
    <2> DEFINE e == [event |-> "eSocketCloseEvent", socket |-> c]
    <2>1. /\ e \in EventRecord /\ ~IsOther(e) /\ queue' = Append(queue, e)
          /\ user'.at = user.at /\ UNCHANGED selectGroup
        BY <1>14, <1>a, SocketsAssumption DEF EventRecord, Close, Sends, IsOther, IsClose, UserRecord
    <2> HIDE DEF e
    <2> QED
        BY <2>1, <1>3
<1> QED
    BY <1>4, <1>5, <1>6, <1>7, <1>8, <1>9, <1>10, <1>11, <1>12, <1>13, <1>14
    DEF Next, IPTask, UserTask

\* The sets that are counted are finite.
LEMMA CountedSets ==
    ASSUME Shapes, NEW i \in Nat
    PROVE  /\ IsFiniteSet(Requests(i)) /\ Cardinality(Requests(i)) \in Nat
           /\ GivenAway(i) \in SUBSET Sockets
           /\ IsFiniteSet(GivenAway(i)) /\ Cardinality(GivenAway(i)) \in Nat
<1>1. IsFiniteSet(i .. Len(queue)) /\ Requests(i) \in SUBSET (i .. Len(queue))
    BY FS_Interval DEF Shapes, Requests
<1>2. GivenAway(i) \in SUBSET Sockets
    BY DEF GivenAway, Closing, Shapes, UserRecord
<1> QED
    BY <1>1, <1>2, AllocatedCounts, FS_Subset, FS_CardinalityType

\* Once the event at the head is gone, each place counts what the next one did.
LEMMA TailCounted ==
    ASSUME Shapes, queue # << >>, queue' = Tail(queue), UNCHANGED user, NEW i \in 1 .. Len(queue)
    PROVE  /\ Cardinality(Requests(i)') = Cardinality(Requests(i + 1))
           /\ GivenAway(i)' = GivenAway(i + 1)
<1>1. /\ Len(queue) \in Nat /\ Len(queue') = Len(queue) - 1 /\ i \in Nat
      /\ \A j \in i .. Len(queue) - 1 : queue'[j] = queue[j + 1]
    BY HeadOfQueue
<1> DEFINE A == {j \in i .. Len(queue') : IsRequest(queue'[j])}
<1> DEFINE B == {j \in i + 1 .. Len(queue) : IsRequest(queue[j])}
<1>2. A = Requests(i)' /\ B = Requests(i + 1)
    BY DEF Requests, IsRequest
<1>3. \A j \in A : j \in Int /\ j + 1 \in B
    BY <1>1
<1>4. \A j \in B : j \in Int /\ j - 1 \in A
    <2>1. ASSUME NEW j \in B
          PROVE  j - 1 \in A
        <3>1. j - 1 \in i .. Len(queue) - 1 /\ (j - 1) + 1 = j
            BY <1>1
        <3> QED
            BY <3>1, <1>1
    <2> QED
        BY <2>1
<1>5. Cardinality(A) = Cardinality(B)
    <2> DEFINE f == [j \in A |-> j + 1]
    <2> HIDE DEF A, B
    <2>1. f \in [A -> B] /\ \A a, b \in A : f[a] = f[b] => a = b
        BY <1>3
    <2>2. \A b \in B : \E a \in A : f[a] = b
        <3>1. ASSUME NEW b \in B
              PROVE  b - 1 \in A /\ f[b - 1] = b
            BY <1>4
        <3> QED
            BY <3>1
    <2>3. f \in Injection(A, B) /\ f \in Surjection(A, B)
        BY <2>1, <2>2 DEF Injection, IsInjective, Surjection
    <2>4. IsFiniteSet(B)
        BY <1>1, <1>2, CountedSets
    <2> HIDE DEF f
    <2> QED
        BY <2>3, <2>4, FS_Injection
<1>6. Closing(i)' = Closing(i + 1)
    <2>1. ASSUME NEW c \in Sockets, NEW j \in i .. Len(queue'), IsClose(queue'[j]), queue'[j].socket = c
          PROVE  \E k \in i + 1 .. Len(queue) : IsClose(queue[k]) /\ queue[k].socket = c
        <3>1. j + 1 \in i + 1 .. Len(queue) /\ queue'[j] = queue[j + 1]
            BY <1>1
        <3> QED
            BY <3>1, <2>1
    <2>2. ASSUME NEW c \in Sockets, NEW j \in i + 1 .. Len(queue), IsClose(queue[j]), queue[j].socket = c
          PROVE  \E k \in i .. Len(queue') : IsClose(queue'[k]) /\ queue'[k].socket = c
        <3>1. j - 1 \in i .. Len(queue') /\ queue'[j - 1] = queue[j]
            BY <1>1
        <3> QED
            BY <3>1, <2>2
    <2> QED
        BY <2>1, <2>2 DEF Closing, IsClose
<1> QED
    BY <1>2, <1>5, <1>6 DEF GivenAway

\* An event that is sent is counted from its own place and from those before it.
LEMMA SentCounted ==
    ASSUME Shapes, NEW e \in EventRecord, queue' = Append(queue, e)
    PROVE  /\ \A i \in 1 .. Len(queue) + 1 :
                 /\ Requests(i)' = Requests(i) \cup (IF IsRequest(e) THEN {Len(queue) + 1} ELSE {})
                 /\ Len(queue) + 1 \notin Requests(i)
                 /\ Closing(i)' = Closing(i) \cup (IF IsClose(e) THEN {e.socket} ELSE {})
           /\ \A i : i = Len(queue) + 2 => Requests(i)' = {}
<1>1. /\ Len(queue) \in Nat /\ Len(queue') = Len(queue) + 1
      /\ \A j \in 1 .. Len(queue) : queue'[j] = queue[j]
      /\ queue'[Len(queue) + 1] = e
    BY EndOfQueue
<1>2. ASSUME NEW i \in 1 .. Len(queue) + 1
      PROVE  /\ Requests(i)' = Requests(i) \cup (IF IsRequest(e) THEN {Len(queue) + 1} ELSE {})
             /\ Len(queue) + 1 \notin Requests(i)
             /\ Closing(i)' = Closing(i) \cup (IF IsClose(e) THEN {e.socket} ELSE {})
    <2>1. i .. Len(queue') = (i .. Len(queue)) \cup {Len(queue) + 1}
          /\ i .. Len(queue) \subseteq 1 .. Len(queue)
        BY <1>1
    <2>2. Requests(i)' = Requests(i) \cup (IF IsRequest(e) THEN {Len(queue) + 1} ELSE {})
        BY <1>1, <2>1 DEF Requests, IsRequest
    <2>3. Len(queue) + 1 \notin Requests(i)
        BY <1>1 DEF Requests
    <2>4. IsClose(e) => e.socket \in Sockets
        BY DEF IsClose, EventRecord
    <2>5. Closing(i)' = Closing(i) \cup (IF IsClose(e) THEN {e.socket} ELSE {})
        BY <1>1, <2>1, <2>4 DEF Closing, IsClose
    <2> QED
        BY <2>2, <2>3, <2>5
<1>3. \A i : i = Len(queue) + 2 => Requests(i)' = {}
    BY <1>1 DEF Requests
<1> QED
    BY <1>2, <1>3

\* Every step leaves at most as many requests as sockets were given away.
LEMMA StepRequests == IInv /\ [Next]_vars => RequestsFit'
<1> SUFFICES ASSUME IInv, [Next]_vars PROVE RequestsFit'
    OBVIOUS
<1>0. Shapes /\ RequestsFit /\ HandlesFit
    BY DEF IInv
<1>a. /\ user \in UserRecord /\ user.holds \in SUBSET Sockets
      /\ Len(queue) \in Nat /\ DOMAIN queue = 1 .. Len(queue)
      /\ \A j \in DOMAIN queue : queue[j] \in EventRecord
    BY <1>0 DEF Shapes, UserRecord
<1>b. \A i \in 1 .. Len(queue) + 1 :
         /\ Cardinality(Requests(i)) \in Nat /\ IsFiniteSet(Requests(i))
         /\ Cardinality(GivenAway(i)) \in Nat /\ IsFiniteSet(GivenAway(i))
         /\ Cardinality(Requests(i)) <= Cardinality(GivenAway(i))
         /\ user.at = "ask" => Cardinality(Requests(i)) + 1 <= Cardinality(GivenAway(i))
    <2>1. ASSUME NEW i \in 1 .. Len(queue) + 1
          PROVE  /\ Cardinality(Requests(i)) \in Nat /\ IsFiniteSet(Requests(i))
                 /\ Cardinality(GivenAway(i)) \in Nat /\ IsFiniteSet(GivenAway(i))
        <3>1. i \in Nat
            OBVIOUS
        <3> QED
            BY <3>1, <1>0, CountedSets
    <2> QED
        BY <2>1, <1>0 DEF RequestsFit
<1>1. ASSUME UNCHANGED queue, user'.holds = user.holds, user'.at # "ask" \/ user.at = "ask"
      PROVE  RequestsFit'
    <2>1. \A i : Requests(i)' = Requests(i) /\ GivenAway(i)' = GivenAway(i)
        BY <1>1 DEF Requests, GivenAway, Closing, IsRequest, IsClose
    <2> QED
        BY <2>1, <1>1, <1>b DEF RequestsFit
<1>2. ASSUME NEW e \in EventRecord, queue' = Append(queue, e), user'.at # "ask",
             IsRequest(e) => user.at = "ask",
             user.holds \subseteq user'.holds \cup (IF IsClose(e) THEN {e.socket} ELSE {})
      PROVE  RequestsFit'
    <2>1. Len(queue') = Len(queue) + 1
        BY <1>0, <1>2, EndOfQueue
    <2>2. Shapes'
        BY StepShapes
    <2>3. ASSUME NEW i \in 1 .. Len(queue) + 1
          PROVE  Cardinality(Requests(i)') <= Cardinality(GivenAway(i)')
        <3>1. i \in Nat
            OBVIOUS
        <3>2. /\ Requests(i)' = Requests(i) \cup (IF IsRequest(e) THEN {Len(queue) + 1} ELSE {})
              /\ Len(queue) + 1 \notin Requests(i)
              /\ Closing(i)' = Closing(i) \cup (IF IsClose(e) THEN {e.socket} ELSE {})
            BY <1>0, <1>2, SentCounted
        <3>3. /\ IsFiniteSet(GivenAway(i)') /\ Cardinality(GivenAway(i)') \in Nat
              /\ GivenAway(i) \subseteq GivenAway(i)'
            <4>1. GivenAway(i)' \in SUBSET Sockets
                BY <2>2 DEF GivenAway, Closing, Shapes, UserRecord
            <4>2. GivenAway(i) \subseteq GivenAway(i)'
                BY <1>2, <3>2 DEF GivenAway
            <4> HIDE DEF GivenAway
            <4> QED
                BY <4>1, <4>2, AllocatedCounts
        <3>4. Cardinality(GivenAway(i)) <= Cardinality(GivenAway(i)')
            BY <3>3, FS_Subset
        <3>5. CASE IsRequest(e)
            <4>1. Requests(i)' = Requests(i) \cup {Len(queue) + 1}
                BY <3>2, <3>5
            <4>2. Cardinality(Requests(i)') = Cardinality(Requests(i)) + 1
                BY <4>1, <3>2, <1>b, FS_AddElement
            <4> QED
                BY <4>2, <3>3, <3>4, <3>5, <1>2, <1>b
        <3>6. CASE ~IsRequest(e)
            <4>1. Requests(i)' = Requests(i)
                BY <3>2, <3>6
            <4> QED
                BY <4>1, <3>3, <3>4, <1>b
        <3> QED
            BY <3>5, <3>6
    <2>4. ASSUME NEW i, i = Len(queue) + 2
          PROVE  Cardinality(Requests(i)') <= Cardinality(GivenAway(i)')
        <3>1. Requests(i)' = {}
            BY <2>4, <1>0, <1>2, SentCounted
        <3>2. GivenAway(i)' \in SUBSET Sockets
            BY <2>2 DEF GivenAway, Closing, Shapes, UserRecord
        <3>3. Cardinality(GivenAway(i)') \in Nat /\ Cardinality({}) = 0
            BY <3>2, AllocatedCounts, FS_EmptySet
        <3> QED
            BY <3>1, <3>3
    <2>5. \A i \in 1 .. Len(queue') + 1 : i \in 1 .. Len(queue) + 1 \/ i = Len(queue) + 2
        BY <2>1, <1>a
    <2>6. ASSUME NEW i \in 1 .. Len(queue') + 1
          PROVE  /\ Cardinality(Requests(i)') <= Cardinality(GivenAway(i)')
                 /\ Cardinality(Requests(i)') \in Nat
        <3>1. i \in Nat /\ IsFiniteSet(i .. Len(queue')) /\ Requests(i)' \in SUBSET (i .. Len(queue'))
            BY <2>1, <1>a, FS_Interval DEF Requests
        <3>2. IsFiniteSet(Requests(i)')
            BY <3>1, FS_Subset
        <3>3. Cardinality(Requests(i)') \in Nat
            BY <3>2, FS_CardinalityType
        <3> QED
            BY <3>3, <2>3, <2>4, <2>5
    <2> QED
        BY <2>6, <1>2 DEF RequestsFit
<1>3. CASE HandleEvent
    <2>1. queue # << >> /\ queue' = Tail(queue) /\ UNCHANGED user
        BY <1>3 DEF HandleEvent
    <2>2. Len(queue') = Len(queue) - 1
        BY <2>1, <1>0, HeadOfQueue
    <2>3. ASSUME NEW i \in 1 .. Len(queue') + 1
          PROVE  i \in 1 .. Len(queue) /\ i + 1 \in 1 .. Len(queue) + 1
        BY <2>2, <1>a
    <2>4. \A i \in 1 .. Len(queue) : Cardinality(Requests(i)') = Cardinality(Requests(i + 1))
                                     /\ GivenAway(i)' = GivenAway(i + 1)
        BY <2>1, <1>0, TailCounted
    <2> QED
        BY <2>1, <2>3, <2>4, <1>b DEF RequestsFit
<1>4. CASE AcceptTake
    <2> DEFINE c == listener.pxPeerSocket
    <2>1. CASE c # None /\ child[c].bPassAccept
        <3>1. PICK d \in Sockets : d = c
            BY <2>1, <1>0 DEF Shapes, ListenerRecord
        <3>2. /\ user'.holds = user.holds \cup {d} /\ UNCHANGED queue /\ user.at = "accept"
              /\ user'.at = "ask"
            BY <2>1, <3>1, <1>4, <1>a DEF AcceptTake, UserRecord
        <3>3. ~Given(d)
            BY <3>1, <2>1 DEF Given, Orphan
        <3>4. ASSUME NEW i \in 1 .. Len(queue) + 1
              PROVE  /\ Requests(i)' = Requests(i)
                     /\ Cardinality(GivenAway(i)') = Cardinality(GivenAway(i)) + 1
            <4>1. Requests(i)' = Requests(i) /\ Closing(i)' = Closing(i)
                BY <3>2 DEF Requests, Closing, IsRequest, IsClose
            <4>2. GivenAway(i)' = GivenAway(i) \cup {d}
                BY <4>1, <3>2 DEF GivenAway
            <4>3. \A j \in i .. Len(queue) : j \in DOMAIN queue
                BY <1>a
            <4>4. d \notin GivenAway(i)
                BY <4>3, <3>3, <1>0 DEF GivenAway, Closing, HandlesFit
            <4> QED
                BY <4>1, <4>2, <4>4, <1>b, FS_AddElement
        <3> QED
            BY <3>2, <3>4, <1>b DEF RequestsFit
    <2>2. CASE ~(c # None /\ child[c].bPassAccept)
        <3>1. user'.holds = user.holds /\ UNCHANGED queue /\ user'.at # "ask"
            BY <2>2, <1>4, <1>a DEF AcceptTake, UserRecord
        <3> QED
            BY <3>1, <1>1
    <2> QED
        BY <2>1, <2>2
<1>5. CASE AcceptReturns
    <2> DEFINE e == [event |-> "eTCPAcceptEvent", socket |-> None]
    <2>1. e \in EventRecord /\ queue' = Append(queue, e) /\ user.at = "ask"
        BY <1>5 DEF EventRecord, AcceptReturns, Ask, Sends
    <2>2. user'.at # "ask" /\ user'.holds = user.holds
        BY <1>5, <1>a DEF AcceptReturns, UserRecord, Waiting
    <2> HIDE DEF e
    <2> QED
        BY <2>1, <2>2, <1>2
<1>6. CASE FindSelected
    <2> DEFINE e == [event |-> "eSocketSelectEvent", socket |-> None]
    <2>1. e \in EventRecord /\ ~IsRequest(e) /\ queue' = Append(queue, e)
        BY <1>6 DEF EventRecord, FindSelected, Sends, IsRequest
    <2>2. user'.at # "ask" /\ user'.holds = user.holds
        BY <1>6, <1>a DEF FindSelected, UserRecord, Goes
    <2> HIDE DEF e
    <2> QED
        BY <2>1, <2>2, <1>2
<1>7. CASE StopListening
    <2> DEFINE e == [event |-> "eSocketCloseEvent", socket |-> None]
    <2>1. e \in EventRecord /\ ~IsRequest(e) /\ queue' = Append(queue, e)
        BY <1>7 DEF EventRecord, StopListening, Sends, IsRequest
    <2>2. user'.at # "ask" /\ user'.holds = user.holds
        BY <1>7, <1>a DEF StopListening, UserRecord, Goes
    <2> HIDE DEF e
    <2> QED
        BY <2>1, <2>2, <1>2
<1>8. ASSUME NEW c \in Sockets, Close(c)
      PROVE  RequestsFit'
    <2> DEFINE e == [event |-> "eSocketCloseEvent", socket |-> c]
    <2>1. /\ e \in EventRecord /\ ~IsRequest(e) /\ IsClose(e) /\ e.socket = c
          /\ queue' = Append(queue, e)
        BY <1>8, SocketsAssumption DEF EventRecord, Close, Sends, IsRequest, IsClose
    <2>2. user'.at # "ask" /\ user'.holds = user.holds \ {c}
        BY <1>8, <1>a DEF Close, UserRecord
    <2> HIDE DEF e
    <2> QED
        BY <2>1, <2>2, <1>2
<1>9. CASE AcceptWakes \/ SelectWakes \/ Found
    BY <1>9, <1>1, <1>a DEF AcceptWakes, SelectWakes, Found, Goes, UserRecord
<1>10. CASE Listen
    <2>1. user'.holds = user.holds /\ user'.at # "ask"
        BY <1>10, <1>a DEF Listen, UserRecord
    <2> QED
        BY <2>1, <1>1, <1>10 DEF Listen
<1>11. CASE IPTask /\ ~HandleEvent
    <2>1. UNCHANGED << queue, user >>
        BY <1>11 DEF IPTask, HandleListen, Connected, HalfOpenEnds, OpenEnds, Passed,
           NewClientFound, CloseOrphan
    <2> QED
        BY <2>1, <1>1
<1>12. CASE UNCHANGED vars
    BY <1>12, <1>1 DEF vars
<1> QED
    BY <1>3, <1>4, <1>5, <1>6, <1>7, <1>8, <1>9, <1>10, <1>11, <1>12 DEF Next, UserTask

-----------------------------------------------------------------------------
(* Theorems *)

\* The invariant holds at the start and in every step (the whole of FreeRTOS_Sockets.c
\* that is modelled here).
THEOREM Invariance == Spec => []IInv
<1>1. Init => IInv
    BY InitIInv
<1>2. IInv /\ [Next]_vars => IInv'
    BY StepShapes, StepHandover, StepCounted, StepHandles, StepOneOther, StepRequests
    DEF IInv, Handover, Counted
<1> QED
    BY <1>1, <1>2, PTL DEF Spec

\* A listening socket's usChildCount is the number of sockets there are, whatever
\* the order in which clients come and go and the tasks run: the backlog does not
\* fill up by and by (prvTCPSetSocketCount()).
THEOREM BacklogIsTrue == Spec => []BacklogHonest
<1>1. IInv => BacklogHonest
    BY DEF IInv
<1> QED
    BY <1>1, Invariance, PTL

\* A list without repetition has as many elements as places.
LEMMA PlacesCounted ==
    ASSUME NEW S, NEW s \in Seq(S), \A i, j \in DOMAIN s : s[i] = s[j] => i = j,
           IsFiniteSet(Range(s))
    PROVE  Cardinality(Range(s)) = Len(s)
<1>1. Len(s) \in Nat /\ DOMAIN s = 1 .. Len(s) /\ s \in [1 .. Len(s) -> Range(s)]
    BY DEF Range
<1>2. IsFiniteSet(1 .. Len(s)) /\ Cardinality(1 .. Len(s)) = Len(s)
    BY <1>1, FS_Interval
<1>3. s \in Injection(1 .. Len(s), Range(s)) /\ s \in Surjection(1 .. Len(s), Range(s))
    BY <1>1 DEF Injection, IsInjective, Surjection, Range
<1> QED
    BY <1>2, <1>3, FS_Injection

\* The queue holds a request and a close for each socket at most, and one question.
LEMMA QueueBounded ==
    ASSUME IInv
    PROVE  Len(queue) <= 2 * Cardinality(Sockets) + 1
<1> DEFINE places == 1 .. Len(queue)
<1> DEFINE closes == {j \in places : IsClose(queue[j])}
<1> DEFINE others == {j \in places : IsOther(queue[j])}
<1>0. Shapes /\ HandlesFit /\ OneOther /\ RequestsFit
    BY DEF IInv
<1>1. /\ Len(queue) \in Nat /\ IsFiniteSet(places) /\ Cardinality(places) = Len(queue)
      /\ DOMAIN queue = places /\ \A j \in places : queue[j] \in EventRecord
    <2>1. Len(queue) \in Nat /\ DOMAIN queue = 1 .. Len(queue) /\ \A j \in places : queue[j] \in EventRecord
        BY <1>0 DEF Shapes
    <2>2. IsFiniteSet(1 .. Len(queue)) /\ Cardinality(1 .. Len(queue)) = Len(queue)
        BY <2>1, FS_Interval
    <2> QED
        BY <2>1, <2>2
<1>2. /\ IsFiniteSet(Requests(1)) /\ Cardinality(Requests(1)) \in Nat
      /\ Cardinality(Requests(1)) <= Cardinality(Sockets) /\ Cardinality(Sockets) \in Nat
    <2>1. /\ IsFiniteSet(Requests(1)) /\ Cardinality(Requests(1)) \in Nat
          /\ GivenAway(1) \in SUBSET Sockets
        BY <1>0, CountedSets
    <2>2. Cardinality(GivenAway(1)) <= Cardinality(Sockets) /\ Cardinality(GivenAway(1)) \in Nat
          /\ Cardinality(Sockets) \in Nat
        BY <2>1, AllocatedCounts
    <2>3. 1 \in 1 .. Len(queue) + 1
        BY <1>1
    <2>4. Cardinality(Requests(1)) <= Cardinality(GivenAway(1))
        BY <2>1, <2>2, <2>3, <1>0 DEF RequestsFit
    <2> QED
        BY <2>1, <2>2, <2>4
<1>3. IsFiniteSet(closes) /\ Cardinality(closes) \in Nat /\ Cardinality(closes) <= Cardinality(Sockets)
    <2> DEFINE f == [j \in closes |-> queue[j].socket]
    <2>1. f \in Injection(closes, Sockets)
        <3>1. \A j \in closes : queue[j].socket \in Sockets
            BY <1>1 DEF IsClose, EventRecord
        <3>2. \A a, b \in closes : f[a] = f[b] => a = b
            BY <1>0, <1>1 DEF HandlesFit
        <3> HIDE DEF closes
        <3> QED
            BY <3>1, <3>2 DEF Injection, IsInjective
    <2> HIDE DEF closes, f
    <2> QED
        BY <2>1, SocketsAssumption, FS_Injection, FS_CardinalityType
<1>4. IsFiniteSet(others) /\ Cardinality(others) \in Nat /\ Cardinality(others) <= 1
    <2>1. others = {} \/ \E j \in others : others = {j}
        BY <1>0, <1>1 DEF OneOther
    <2> HIDE DEF others
    <2>2. CASE others = {}
        BY <2>2, FS_EmptySet
    <2>3. CASE \E j \in others : others = {j}
        <3>1. PICK j \in others : others = {j}
            BY <2>3
        <3>2. IsFiniteSet({j}) /\ Cardinality({j}) = 1
            BY FS_Singleton
        <3> QED
            BY <3>1, <3>2
    <2> QED
        BY <2>1, <2>2, <2>3
<1>5. places = (Requests(1) \cup closes) \cup others
    BY DEF Requests, IsOther
<1>6. Cardinality(places) <= Cardinality(Requests(1)) + Cardinality(closes) + Cardinality(others)
    <2> HIDE DEF places, closes, others
    <2>1. /\ IsFiniteSet(Requests(1) \cup closes)
          /\ Cardinality(Requests(1) \cup closes) =
                Cardinality(Requests(1)) + Cardinality(closes) - Cardinality(Requests(1) \cap closes)
          /\ Cardinality(Requests(1) \cap closes) \in Nat
          /\ Cardinality(Requests(1) \cup closes) \in Nat
        BY <1>2, <1>3, FS_Union, FS_Intersection, FS_CardinalityType
    <2>2. /\ Cardinality(places) = Cardinality(Requests(1) \cup closes) + Cardinality(others)
                                   - Cardinality((Requests(1) \cup closes) \cap others)
          /\ Cardinality((Requests(1) \cup closes) \cap others) \in Nat
        BY <2>1, <1>4, <1>5, FS_Union, FS_Intersection, FS_CardinalityType
    <2> QED
        BY <2>1, <2>2, <1>2, <1>3, <1>4
<1> HIDE DEF places, closes, others
<1> QED
    BY <1>1, <1>2, <1>3, <1>4, <1>6

\* Types, the backlog between 0 and its limit, every socket bound once or free, and
\* at most two events for each socket and one more in the queue (the whole of
\* FreeRTOS_Sockets.c that is modelled here).
THEOREM TypeCorrect == Spec => []TypeOK
<1>1. ASSUME IInv PROVE TypeOK
    <2>1. Shapes /\ ListFits
        BY <1>1 DEF IInv
    <2>2. Len(bound) = Cardinality(Bound)
        <3>1. bound \in Seq(Sockets) /\ Range(bound) = Allocated
              /\ \A i, j \in DOMAIN bound : bound[i] = bound[j] => i = j
            BY <2>1 DEF Shapes, ListFits, Bound
        <3>2. IsFiniteSet(Range(bound))
            BY <3>1, AllocatedCounts
        <3> QED
            BY <3>1, <3>2, PlacesCounted DEF Bound
    <2>3. Len(queue) <= 2 * Cardinality(Sockets) + 1
        BY <1>1, QueueBounded
    <2> QED
        BY <2>1, <2>2, <2>3 DEF TypeOK, Shapes, ListFits, ListenerRecord, ChildRecord, PassingRecord,
           UserRecord
<1> QED
    BY <1>1, Invariance, PTL

-----------------------------------------------------------------------------
(* A user's task that cannot interrupt a hand-over *)

\* Every step leaves the listening socket with a client that may be accepted.
LEMMA StepPeer ==
    ASSUME ~UserPreempts
    PROVE  IInv /\ PeerFits /\ [Next]_vars => PeerFits'
<1> SUFFICES ASSUME IInv, PeerFits, [Next]_vars PROVE PeerFits'
    OBVIOUS
<1> USE SocketsAssumption
<1>0. /\ Shapes /\ FlagsFit /\ PassingFits
      /\ child \in [Sockets -> ChildRecord] /\ listener \in ListenerRecord
      /\ passing \in PassingRecord /\ previous \in Sockets \cup {None}
      /\ listener.pxPeerSocket \in Sockets \cup {None}
    BY DEF IInv, Shapes, ListenerRecord
<1>1. ASSUME Done
      PROVE  /\ passing.by = "none"
             /\ listener.pxPeerSocket # None => child[listener.pxPeerSocket].bPassAccept
    BY <1>1 DEF Done, Nobody, PeerFits
<1>2. ASSUME UNCHANGED passing, listener'.pxPeerSocket = listener.pxPeerSocket,
             \A c \in Sockets : child[c].bPassAccept => child'[c].bPassAccept
      PROVE  PeerFits'
    BY <1>0, <1>2 DEF PeerFits, PassingFits
<1>3. CASE HandleListen
    <2>1. listener'.pxPeerSocket = listener.pxPeerSocket /\ UNCHANGED passing
        BY <1>0, <1>3 DEF HandleListen, ListenerRecord
    <2>2. \A c \in Sockets : child[c].bPassAccept => child'[c] = child[c]
        BY <1>0, <1>3 DEF HandleListen, Allocated, FlagsFit, Orphan
    <2> QED
        BY <2>1, <2>2, <1>2
<1>4. ASSUME NEW c \in Sockets, Connected(c)
      PROVE  PeerFits'
    <2>1. /\ passing' = [by |-> "vTCPStateChange", socket |-> c] /\ Done
          /\ listener'.pxPeerSocket = IF listener.pxPeerSocket = None THEN c ELSE listener.pxPeerSocket
        BY <1>0, <1>4 DEF Connected, ListenerRecord, Idle
    <2>2. \A d \in Sockets : child[d].bPassAccept => child'[d].bPassAccept
        BY <1>0, <1>4 DEF Connected, ChildRecord
    <2> QED
        BY <2>1, <2>2, <1>0, <1>1 DEF PeerFits
<1>5. CASE Passed
    <2>1. /\ passing' = Nobody /\ listener'.pxPeerSocket = listener.pxPeerSocket
          /\ passing.by = "vTCPStateChange" /\ passing.socket \in Sockets
        BY <1>0, <1>5, WokenUpShape DEF Passed, PassingFits
    <2>2. /\ \A d \in Sockets : child[d].bPassAccept => child'[d].bPassAccept
          /\ child'[passing.socket].bPassAccept
        BY <2>1, <1>0, <1>5 DEF Passed, ChildRecord
    <2> QED
        BY <2>1, <2>2, <1>0 DEF PeerFits, Nobody
<1>6. ASSUME NEW c \in Sockets, HalfOpenEnds(c)
      PROVE  PeerFits'
    <2>2. listener'.pxPeerSocket = listener.pxPeerSocket /\ UNCHANGED passing
        <3>1. CloseNextTime(c) \in SUBSET Sockets
            BY <1>0 DEF CloseNextTime
        <3> QED
            BY <3>1, <1>0, <1>6, FewerShape, AllocatedCounts DEF HalfOpenEnds, CountOnce
    <2>3. ASSUME NEW d \in Sockets, child[d].bPassAccept
          PROVE  child'[d].bPassAccept
        <3>1. d \notin CloseNextTime(c)
            BY <2>3, <1>0 DEF CloseNextTime, PassingFits, FlagsFit
        <3> QED
            BY <3>1, <2>3, <1>0, <1>6 DEF HalfOpenEnds, ChildRecord
    <2> QED
        BY <2>2, <2>3, <1>2
<1>7. ASSUME NEW c \in Sockets, OpenEnds(c)
      PROVE  PeerFits'
    BY <1>0, <1>2, <1>7 DEF OpenEnds, ChildRecord
<1>8. CASE NewClientFound
    <2> DEFINE told == [listener EXCEPT !.pxPeerSocket = passing.socket,
                                        !.xEventBits = @ \cup {"eSOCKET_ACCEPT"}]
    <2>1. /\ listener' = WokenUp(told) /\ passing' = Nobody /\ UNCHANGED child
          /\ passing.by = "xTCPCheckNewClient"
        BY <1>8 DEF NewClientFound
    <2>2. told \in ListenerRecord /\ told.pxPeerSocket = passing.socket
        BY <1>0 DEF ListenerRecord, PassingRecord, Bits
    <2> HIDE DEF told
    <2>3. listener'.pxPeerSocket = passing.socket
        BY <2>1, <2>2, WokenUpShape
    <2> QED
        BY <2>1, <2>3 DEF PeerFits, Nobody
<1>9. CASE CloseOrphan
    <2>1. previous \in Sockets /\ child[previous].bPassQueued /\ UNCHANGED passing
        BY <1>0, <1>9 DEF CloseOrphan, PassingFits
    <2>2. listener'.pxPeerSocket = listener.pxPeerSocket
        BY <2>1, <1>0, <1>9, FewerShape, AllocatedCounts DEF CloseOrphan, CountOnce
    <2>3. \A d \in Sockets : child[d].bPassAccept => child'[d] = child[d]
        BY <2>1, <1>0, <1>9 DEF CloseOrphan, Closed, FlagsFit
    <2> QED
        BY <2>1, <2>2, <2>3, <1>2
<1>10. CASE HandleEvent
    <2>0. Done /\ queue # << >> /\ queue[1] \in EventRecord /\ 1 \in DOMAIN queue
        BY <1>0, <1>10, HeadOfQueue DEF HandleEvent, Idle, Shapes
    <2>1. CASE CheckNewClient
        <3> DEFINE refused == {c \in Sockets : ~child[c].bPassAccept}
        <3> DEFINE waiting == Without(bound, refused)
        <3>1. waiting \in Seq(Sockets) /\ Range(waiting) = Range(bound) \ refused
            BY <1>0, WithoutRest DEF Shapes
        <3>2. \/ passing' = passing
              \/ waiting # << >> /\ passing' = [by |-> "xTCPCheckNewClient", socket |-> waiting[1]]
            BY <2>1 DEF CheckNewClient
        <3>3. waiting # << >> => waiting[1] \in Sockets /\ waiting[1] \notin refused
            <4> HIDE DEF waiting, refused
            <4> QED
                BY <3>1 DEF Range
        <3>4. waiting # << >> => child[waiting[1]].bPassAccept
            BY <3>3
        <3> HIDE DEF waiting, refused
        <3> QED
            BY <3>2, <3>4, <2>0, <2>1, <1>1 DEF CheckNewClient, PeerFits
    <2>2. CASE SocketSelect
        <3>1. listener'.pxPeerSocket = listener.pxPeerSocket
            BY <2>2, <1>0 DEF SocketSelect, ListenerRecord
        <3> QED
            BY <3>1, <2>2, <1>2 DEF SocketSelect
    <2>3. CASE CloseClient
        <3>1. queue[1].socket \in Sockets /\ Given(queue[1].socket)
            BY <2>0, <2>3 DEF CloseClient, EventRecord, IsClose, IInv, HandlesFit
        <3>2. listener'.pxPeerSocket = listener.pxPeerSocket /\ UNCHANGED passing
            BY <3>1, <2>3, <1>0, FewerShape, AllocatedCounts DEF CloseClient, CountOnce
        <3>3. \A d \in Sockets : child[d].bPassAccept => child'[d] = child[d]
            BY <3>1, <2>3, <1>0 DEF CloseClient, Closed, Given, Orphan
        <3> QED
            BY <3>2, <3>3, <1>2
    <2>4. CASE CloseListener
        BY <2>0, <2>4, <1>1 DEF CloseListener, NotListening, PeerFits
    <2> QED
        BY <1>10, <2>1, <2>2, <2>3, <2>4 DEF HandleEvent
<1>11. CASE AcceptTake
    <2>1. Done /\ UNCHANGED passing
        BY <1>11 DEF AcceptTake, Runs, Idle
    <2>2. listener'.pxPeerSocket = None
        BY <1>0, <1>11 DEF AcceptTake, ListenerRecord
    <2> QED
        BY <2>1, <2>2, <1>1 DEF PeerFits
<1>12. CASE Listen
    <2>1. Done /\ UNCHANGED passing /\ listener'.pxPeerSocket = None
        BY <1>12 DEF Listen, Runs, Idle, Listening, NotListening
    <2> QED
        BY <2>1, <1>1 DEF PeerFits
<1>13. CASE UserOnly
    BY <1>0, <1>2, <1>13, UserOnlyFrame
<1>14. CASE UNCHANGED vars
    BY <1>2, <1>14 DEF vars
<1> QED
    BY <1>3, <1>4, <1>5, <1>6, <1>7, <1>8, <1>9, <1>10, <1>11, <1>12, <1>13, <1>14
    DEF Next, IPTask, UserTask, UserOnly

\* If the user's task has a lower priority than the IP task, which then hands a
\* client over without being interrupted: no socket that the user's task holds, or
\* that is offered to it, has been freed (FreeRTOS_accept(), xTCPCheckNewClient(),
\* vSocketCloseNextTime()).
THEOREM HandlesStayLive ==
    ASSUME ~UserPreempts
    PROVE  Spec => []HandlesLive
<1>1. Init => PeerFits
    BY DEF Init, PeerFits, NotListening, Nobody
<1>2. IInv /\ PeerFits /\ [Next]_vars => PeerFits'
    BY StepPeer
<1>3. ASSUME IInv, PeerFits PROVE HandlesLive
    <2>1. Shapes /\ FlagsFit /\ PassingFits /\ HandlesFit
        BY <1>3 DEF IInv
    <2>2. /\ listener.pxPeerSocket \in Sockets \cup {None} /\ previous \in Sockets \cup {None}
          /\ passing.socket \in Sockets \cup {None} /\ user.holds \in SUBSET Sockets
          /\ passing.by \in {"none", "vTCPStateChange", "xTCPCheckNewClient"}
        BY <2>1 DEF Shapes, ListenerRecord, PassingRecord, UserRecord
    <2>3. \A c \in user.holds : c \in Allocated /\ ~Orphan(c)
        BY <2>1, <2>2 DEF HandlesFit, Given, Allocated
    <2>4. passing.socket # None => passing.socket \in Allocated
        BY <2>1, <2>2 DEF PassingFits, Nobody, Allocated
    <2>5. previous # None => previous \in Allocated
        BY <2>1, <2>2 DEF PassingFits, Allocated
    <2>6. listener.pxPeerSocket # None => listener.pxPeerSocket \in Allocated
        BY <2>1, <2>2, <2>4, <1>3 DEF PeerFits, FlagsFit, Orphan, Allocated
    <2> QED
        BY <2>3, <2>4, <2>5, <2>6 DEF HandlesLive
<1> QED
    BY <1>1, <1>2, <1>3, Invariance, PTL DEF Spec
=============================================================================
