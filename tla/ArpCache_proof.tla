--------------------------- MODULE ArpCache_proof ---------------------------
(***************************************************************************)
(* The ARP cache and its network buffers for every number of hosts, rows,  *)
(* buffers and events: the properties of ArpCache, proved from the         *)
(* inductive invariant IInv.                                               *)
(***************************************************************************)
EXTENDS ArpCache, FiniteSetTheorems, TLAPS

Frames == {"ARP_REQUEST", "ARP_REPLY", "ARP_REPLY_TO_OTHERS", "UDP", "ICMP"}

\* What a frame says of its sender was true when it was sent.
Honest(packet) == packet.ip \in IPs /\ packet.mac \in owned[packet.ip]

-----------------------------------------------------------------------------
(* Lemmas                                                                  *)

\* The limit of an age is the larger of the two values a row starts with.
LEMMA AgeLimit ==
    /\ Max({MaxAge, MaxRetransmissions}) \in Nat
    /\ MaxAge \in 0 .. Max({MaxAge, MaxRetransmissions})
    /\ MaxRetransmissions \in 0 .. Max({MaxAge, MaxRetransmissions})
<1>1. MaxAge \in Nat /\ MaxRetransmissions \in Nat
  BY ArpAssumption
<1>2. \E n \in {MaxAge, MaxRetransmissions} : \A y \in {MaxAge, MaxRetransmissions} : n >= y
  BY <1>1
<1>3. /\ Max({MaxAge, MaxRetransmissions}) \in {MaxAge, MaxRetransmissions}
      /\ \A y \in {MaxAge, MaxRetransmissions} : Max({MaxAge, MaxRetransmissions}) >= y
  BY <1>2, Zenon DEF Max
<1>. QED
  BY <1>1, <1>3

\* The largest row of a set that has only one is that one.
LEMMA MaxOfOne ==
    ASSUME NEW S \in SUBSET Rows, NEW x \in S, \A y \in S : y = x
    PROVE  Max(S) = x
<1>1. x \in Int
  BY DEF Rows
<1>2. \A y \in S : x >= y
  BY <1>1
<1>. QED
  BY <1>2 DEF Max

\* The buffers in a queue of events.
Buffered(q) == {i \in DOMAIN q : q[i].type # "eARPTimerEvent"}

Holds(packet) == IF packet.type = "eARPTimerEvent" THEN 0 ELSE 1

LEMMA BufferedFinite ==
    ASSUME NEW q \in Seq(Packet)
    PROVE  IsFiniteSet(Buffered(q)) /\ Cardinality(Buffered(q)) \in Nat
<1>1. IsFiniteSet(1 .. Len(q))
  BY FS_Interval
<1>2. Buffered(q) \in SUBSET (1 .. Len(q))
  BY DEF Buffered
<1>3. IsFiniteSet(Buffered(q))
  BY <1>1, <1>2, FS_Subset
<1>. QED
  BY <1>3, FS_CardinalityType

\* An event put at the end of the queue adds its buffer ...
LEMMA BufferedAppend ==
    ASSUME NEW q \in Seq(Packet), NEW packet \in Packet
    PROVE  Cardinality(Buffered(Append(q, packet))) = Cardinality(Buffered(q)) + Holds(packet)
<1>1. IsFiniteSet(Buffered(q)) /\ Cardinality(Buffered(q)) \in Nat
  BY BufferedFinite
<1>2. CASE packet.type = "eARPTimerEvent"
  <2>1. Buffered(Append(q, packet)) = Buffered(q)
    BY <1>2 DEF Buffered
  <2>. QED
    BY <1>1, <1>2, <2>1 DEF Holds
<1>3. CASE packet.type # "eARPTimerEvent"
  <2>1. Buffered(Append(q, packet)) = Buffered(q) \cup {Len(q) + 1}
    BY <1>3 DEF Buffered
  <2>2. Len(q) + 1 \notin Buffered(q)
    BY DEF Buffered
  <2>3. Cardinality(Buffered(q) \cup {Len(q) + 1}) = Cardinality(Buffered(q)) + 1
    BY <1>1, <2>2, FS_AddElement
  <2>. QED
    BY <1>3, <2>1, <2>3 DEF Holds
<1>. QED
  BY <1>2, <1>3

\* ... and one taken from its front removes it.
LEMMA BufferedTail ==
    ASSUME NEW q \in Seq(Packet), q # << >>
    PROVE  Cardinality(Buffered(q)) = Cardinality(Buffered(Tail(q))) + Holds(q[1])
<1>. DEFINE S == Buffered(Tail(q))
            T == Buffered(q) \ {1}
            f == [i \in S |-> i + 1]
<1>1. IsFiniteSet(Buffered(q)) /\ Cardinality(Buffered(q)) \in Nat
  BY BufferedFinite
<1>2. Tail(q) \in Seq(Packet) /\ Len(Tail(q)) = Len(q) - 1 /\ Len(q) \in Nat /\ Len(q) >= 1
  OBVIOUS
<1>3. \A i \in 1 .. Len(q) - 1 : Tail(q)[i] = q[i + 1]
  OBVIOUS
<1>4. S = {i \in 1 .. Len(q) - 1 : q[i + 1].type # "eARPTimerEvent"}
  BY <1>2, <1>3 DEF Buffered
<1>5. T = {i \in 2 .. Len(q) : q[i].type # "eARPTimerEvent"}
  BY <1>2 DEF Buffered
<1>6. IsFiniteSet(S) /\ Cardinality(S) \in Nat
  BY <1>2, BufferedFinite
<1>7. f \in Bijection(S, T)
  <2>1. f \in [S -> T]
    <3>1. \A i \in S : i + 1 \in T
      BY <1>2, <1>4, <1>5
    <3>. HIDE DEF S, T
    <3>. QED
      BY <3>1
  <2>2. \A a, b \in S : f[a] = f[b] => a = b
    BY <1>4
  <2>3. \A t \in T : \E s \in S : f[s] = t
    <3>. SUFFICES ASSUME NEW t \in T PROVE \E s \in S : f[s] = t
      OBVIOUS
    <3>1. /\ t \in 2 .. Len(q) /\ q[t].type # "eARPTimerEvent"
          /\ t - 1 \in 1 .. Len(q) - 1 /\ (t - 1) + 1 = t
      BY <1>2, <1>5
    <3>2. t - 1 \in S
      BY <1>4, <3>1
    <3>. QED
      BY <3>1, <3>2
  <2>4. DOMAIN f = S
    OBVIOUS
  <2>5. IsInjective(f)
    BY <2>2, <2>4, Zenon DEF IsInjective
  <2>. QED
    BY <2>1, <2>3, <2>5, Zenon DEF Bijection, Injection, Surjection
<1>8. Cardinality(T) = Cardinality(S)
  <2>1. ExistsBijection(S, T)
    BY <1>7 DEF ExistsBijection
  <2>. QED
    BY <1>6, <2>1, FS_Bijection
<1>9. Cardinality(T) = IF 1 \in Buffered(q) THEN Cardinality(Buffered(q)) - 1 ELSE Cardinality(Buffered(q))
  BY <1>1, FS_RemoveElement
<1>10. 1 \in Buffered(q) <=> q[1].type # "eARPTimerEvent"
  BY <1>2 DEF Buffered
<1>. QED
  BY <1>1, <1>6, <1>8, <1>9, <1>10 DEF Holds

-----------------------------------------------------------------------------
(* The cache                                                               *)

RowType == [ip : IPs \cup {None}, mac : MACs \cup {None},
            age : 0 .. Max({MaxAge, MaxRetransmissions}), valid : BOOLEAN]

Unique(c) ==
    \A x, y \in Rows : x # y =>
        /\ c[x].ip # None => c[x].ip # c[y].ip
        /\ c[x].mac # None => c[x].mac # c[y].mac

Directed(c) == \A x \in Rows : c[x].valid /\ c[x].ip # None => c[x].mac \in owned[c[x].ip]

InUse(c) == \A x \in Rows : c[x].age > 0 => c[x].ip # None

\* All that is to be kept of the cache.
CacheOK(c) == c \in [Rows -> RowType] /\ Unique(c) /\ Directed(c) /\ InUse(c)

\* The cache with a row for a host
WithRow(z, mac, ip) == [cache EXCEPT ![z] = [ip |-> ip, mac |-> mac, age |-> MaxAge, valid |-> TRUE]]

\* A row for a host, put where neither its address nor its adapter has another row.
LEMMA RowPut ==
    ASSUME owned \in [IPs -> SUBSET MACs], CacheOK(cache), NEW ip \in IPs, NEW mac \in owned[ip], NEW z \in Rows,
           \A x \in Rows \ {z} : cache[x].ip # ip /\ cache[x].mac # mac
    PROVE  CacheOK(WithRow(z, mac, ip))
<1>. DEFINE row == [ip |-> ip, mac |-> mac, age |-> MaxAge, valid |-> TRUE]
            c == [cache EXCEPT ![z] = row]
<1>1. row \in RowType
  <2>1. mac \in MACs
    OBVIOUS
  <2>. QED
    BY <2>1, AgeLimit DEF RowType
<1>2. c \in [Rows -> RowType]
  BY <1>1 DEF CacheOK
<1>3. c[z] = row /\ \A x \in Rows \ {z} : c[x] = cache[x]
  BY DEF CacheOK
<1>. HIDE DEF c
<1>4. row.ip = ip /\ row.mac = mac
  OBVIOUS
<1>. HIDE DEF row
<1>5. Unique(c)
  <2>. SUFFICES ASSUME NEW x \in Rows, NEW y \in Rows, x # y
                PROVE  /\ c[x].ip # None => c[x].ip # c[y].ip
                       /\ c[x].mac # None => c[x].mac # c[y].mac
    BY DEF Unique
  <2>1. CASE x = z
    BY <1>3, <1>4, <2>1
  <2>2. CASE y = z
    BY <1>3, <1>4, <2>2
  <2>3. CASE x # z /\ y # z
    BY <1>3, <2>3 DEF CacheOK, Unique
  <2>. QED
    BY <2>1, <2>2, <2>3
<1>6. Directed(c)
  <2>. SUFFICES ASSUME NEW x \in Rows, c[x].valid, c[x].ip # None PROVE c[x].mac \in owned[c[x].ip]
    BY DEF Directed
  <2>1. CASE x = z
    BY <1>3, <1>4, <2>1
  <2>2. CASE x # z
    BY <1>3, <2>2 DEF CacheOK, Directed
  <2>. QED
    BY <2>1, <2>2
<1>7. InUse(c)
  <2>. SUFFICES ASSUME NEW x \in Rows, c[x].age > 0 PROVE c[x].ip # None
    BY DEF InUse
  <2>1. CASE x = z
    BY <1>3, <1>4, <2>1, ArpAssumption
  <2>2. CASE x # z
    BY <1>3, <2>2 DEF CacheOK, InUse
  <2>. QED
    BY <2>1, <2>2
<1>. QED
  BY <1>2, <1>5, <1>6, <1>7 DEF CacheOK, WithRow, c, row

\* vARPRefreshCacheEntry() for an adapter the host had
LEMMA RefreshedOK ==
    ASSUME owned \in [IPs -> SUBSET MACs], CacheOK(cache), NEW ip \in IPs, NEW mac \in owned[ip]
    PROVE  CacheOK(Refreshed(mac, ip))
<1>. DEFINE row == [ip |-> ip, mac |-> mac, age |-> MaxAge, valid |-> TRUE]
            withMAC == {x \in Rows : cache[x].mac = mac /\ cache[x].ip # ip}
            both == \E x \in WithIP(ip) : cache[x].mac = mac
<1>1. ip # None /\ mac # None /\ mac \in MACs
  BY ArpAssumption
<1>2. CASE both
  <2>1. PICK z \in WithIP(ip) : cache[z].mac = mac
    BY <1>2
  <2>2. z \in Rows /\ cache[z].ip = ip
    BY DEF WithIP
  <2>3. \A x \in Rows \ {z} : cache[x].ip # ip /\ cache[x].mac # mac
    BY <1>1, <2>1, <2>2 DEF CacheOK, Unique
  <2>4. [x \in Rows |-> IF cache[x].ip = ip /\ cache[x].mac = mac THEN row ELSE cache[x]]
        = [cache EXCEPT ![z] = row]
    BY <2>1, <2>2, <2>3 DEF CacheOK
  <2>5. Refreshed(mac, ip) = WithRow(z, mac, ip)
    BY <1>2, <2>4 DEF Refreshed, WithRow
  <2>. QED
    BY <2>2, <2>3, <2>5, RowPut
<1>3. CASE ~both /\ withMAC # {}
  <2>1. PICK z \in withMAC : TRUE
    BY <1>3
  <2>2. \A x \in Rows \ {z} : cache[x].mac # mac
    BY <1>1, <2>1 DEF CacheOK, Unique
  <2>3. Max(withMAC) = z
    BY <2>1, <2>2, MaxOfOne
  <2>. DEFINE c == [x \in Rows |-> IF x = z THEN row ELSE IF x \in WithIP(ip) THEN EmptyRow ELSE cache[x]]
  <2>4. Refreshed(mac, ip) = c
    BY <1>3, <2>3 DEF Refreshed
  <2>5. row \in RowType /\ EmptyRow \in RowType
    BY <1>1, AgeLimit DEF RowType, EmptyRow
  <2>6. c \in [Rows -> RowType]
    BY <2>5 DEF CacheOK
  <2>7. /\ c[z] = row
        /\ \A x \in Rows \ {z} : c[x] = EmptyRow \/ (c[x] = cache[x] /\ cache[x].ip # ip)
    BY <2>1 DEF WithIP
  <2>8. row.ip = ip /\ row.mac = mac
    OBVIOUS
  <2>. HIDE DEF c, row
  <2>9. EmptyRow.ip = None /\ EmptyRow.mac = None /\ EmptyRow.age = 0 /\ EmptyRow.valid = FALSE
    BY DEF EmptyRow
  <2>10. Unique(c)
    <3>. SUFFICES ASSUME NEW x \in Rows, NEW y \in Rows, x # y
                  PROVE  /\ c[x].ip # None => c[x].ip # c[y].ip
                         /\ c[x].mac # None => c[x].mac # c[y].mac
      BY DEF Unique
    <3>1. CASE x = z
      BY <1>1, <2>2, <2>7, <2>8, <2>9, <3>1
    <3>2. CASE y = z
      BY <1>1, <2>2, <2>7, <2>8, <2>9, <3>2
    <3>3. CASE x # z /\ y # z
      <4>1. CASE c[x] = EmptyRow
        BY <2>9, <4>1
      <4>2. CASE c[y] = EmptyRow
        BY <2>9, <4>2
      <4>3. CASE c[x] = cache[x] /\ c[y] = cache[y]
        BY <4>3 DEF CacheOK, Unique
      <4>. QED
        BY <2>7, <3>3, <4>1, <4>2, <4>3
    <3>. QED
      BY <3>1, <3>2, <3>3
  <2>11. Directed(c)
    <3>. SUFFICES ASSUME NEW x \in Rows, c[x].valid, c[x].ip # None PROVE c[x].mac \in owned[c[x].ip]
      BY DEF Directed
    <3>1. CASE x = z
      BY <2>7, <2>8, <3>1
    <3>2. CASE x # z
      BY <2>7, <2>9, <3>2 DEF CacheOK, Directed
    <3>. QED
      BY <3>1, <3>2
  <2>12. InUse(c)
    BY <1>1, <2>7, <2>8, <2>9 DEF CacheOK, InUse
  <2>. QED
    BY <2>4, <2>6, <2>10, <2>11, <2>12 DEF CacheOK
<1>4. CASE ~both /\ withMAC = {}
  <2>. DEFINE z == IF WithIP(ip) # {} THEN Max(WithIP(ip)) ELSE Oldest
  <2>1. Refreshed(mac, ip) = WithRow(z, mac, ip)
    BY <1>4 DEF Refreshed, WithRow
  <2>2. \A x \in Rows : cache[x].mac # mac
    BY <1>4 DEF WithIP
  <2>3. CASE WithIP(ip) # {}
    <3>1. PICK y \in WithIP(ip) : TRUE
      BY <2>3
    <3>2. y \in Rows /\ cache[y].ip = ip
      BY DEF WithIP
    <3>3. \A x \in Rows \ {y} : cache[x].ip # ip
      BY <1>1, <3>2 DEF CacheOK, Unique
    <3>4. WithIP(ip) \in SUBSET Rows /\ \A x \in WithIP(ip) : x = y
      BY <3>3 DEF WithIP
    <3>5. z = y
      BY <2>3, <3>4, MaxOfOne
    <3>. QED
      BY <2>1, <2>2, <3>2, <3>3, <3>5, RowPut
  <2>4. CASE WithIP(ip) = {} /\ z \in Rows
    <3>1. \A x \in Rows : cache[x].ip # ip
      BY <2>4 DEF WithIP
    <3>. QED
      BY <2>1, <2>2, <2>4, <3>1, RowPut
  <2>5. CASE z \notin Rows
    <3>1. WithRow(z, mac, ip) = cache
      BY <2>5 DEF CacheOK, WithRow
    <3>. QED
      BY <2>1, <3>1
  <2>. QED
    BY <2>3, <2>4, <2>5
<1>. QED
  BY <1>2, <1>3, <1>4

\* vARPRefreshCacheEntry() without a MAC address, for a host that has no row
LEMMA PlaceholderOK ==
    ASSUME CacheOK(cache), NEW ip \in IPs, CacheMiss(ip)
    PROVE  CacheOK(Placeholder(ip))
<1>. DEFINE z == Oldest
            row == [cache[z] EXCEPT !.ip = ip, !.age = MaxRetransmissions, !.valid = FALSE]
            c == [cache EXCEPT ![z] = row]
<1>1. Placeholder(ip) = c
  BY DEF Placeholder, CacheMiss
<1>2. \A x \in Rows : cache[x].ip # ip
  BY DEF CacheMiss, WithIP
<1>3. CASE z \notin Rows
  <2>1. c = cache
    BY <1>3 DEF CacheOK
  <2>. QED
    BY <1>1, <2>1
<1>4. CASE z \in Rows
  <2>1. cache[z] \in RowType
    BY <1>4 DEF CacheOK
  <2>2. row \in RowType /\ row.ip = ip /\ row.mac = cache[z].mac /\ row.valid = FALSE
    BY <2>1, AgeLimit DEF RowType
  <2>3. c \in [Rows -> RowType] /\ c[z] = row /\ \A x \in Rows \ {z} : c[x] = cache[x]
    BY <1>4, <2>2 DEF CacheOK
  <2>. HIDE DEF c, row, z
  <2>4. Unique(c)
    <3>. SUFFICES ASSUME NEW x \in Rows, NEW y \in Rows, x # y
                  PROVE  /\ c[x].ip # None => c[x].ip # c[y].ip
                         /\ c[x].mac # None => c[x].mac # c[y].mac
      BY DEF Unique
    <3>1. c[x].mac = cache[x].mac /\ c[y].mac = cache[y].mac
      BY <2>2, <2>3
    <3>2. CASE x = z
      BY <1>2, <2>2, <2>3, <3>1, <3>2 DEF CacheOK, Unique
    <3>3. CASE y = z
      BY <1>2, <2>2, <2>3, <3>1, <3>3 DEF CacheOK, Unique
    <3>4. CASE x # z /\ y # z
      BY <2>3, <3>4 DEF CacheOK, Unique
    <3>. QED
      BY <3>2, <3>3, <3>4
  <2>5. Directed(c)
    <3>. SUFFICES ASSUME NEW x \in Rows, c[x].valid, c[x].ip # None PROVE c[x].mac \in owned[c[x].ip]
      BY DEF Directed
    <3>1. x # z
      BY <2>2, <2>3
    <3>. QED
      BY <2>3, <3>1 DEF CacheOK, Directed
  <2>6. InUse(c)
    <3>. SUFFICES ASSUME NEW x \in Rows, c[x].age > 0 PROVE c[x].ip # None
      BY DEF InUse
    <3>1. CASE x = z
      BY <2>2, <2>3, <3>1, ArpAssumption
    <3>2. CASE x # z
      BY <2>3, <3>2 DEF CacheOK, InUse
    <3>. QED
      BY <3>1, <3>2
  <2>. QED
    BY <1>1, <2>3, <2>4, <2>5, <2>6 DEF CacheOK
<1>. QED
  BY <1>3, <1>4

\* Rows that keep their owner, or lose it, with another age
LEMMA SameOwners ==
    ASSUME CacheOK(cache), NEW c \in [Rows -> RowType],
           \A x \in Rows : /\ c[x].ip \in {cache[x].ip, None}
                           /\ c[x].mac = cache[x].mac /\ c[x].valid = cache[x].valid
                           /\ c[x].age > 0 => c[x].ip # None
    PROVE  CacheOK(c)
<1>1. Unique(c)
  BY DEF CacheOK, Unique
<1>2. Directed(c)
  BY DEF CacheOK, Directed
<1>3. InUse(c)
  BY DEF InUse
<1>. QED
  BY <1>1, <1>2, <1>3 DEF CacheOK

\* vARPRefreshCacheEntryAge()
LEMMA AgeRefreshedOK ==
    ASSUME CacheOK(cache), NEW ip \in IPs, NEW mac
    PROVE  CacheOK(AgeRefreshed(mac, ip))
<1>. DEFINE c == AgeRefreshed(mac, ip)
<1>1. \A x \in Rows : cache[x] \in RowType /\ [cache[x] EXCEPT !.age = MaxAge] \in RowType
  BY AgeLimit DEF CacheOK, RowType
<1>2. c \in [Rows -> RowType]
  BY <1>1 DEF AgeRefreshed
<1>3. \A x \in Rows : /\ c[x].ip \in {cache[x].ip, None}
                      /\ c[x].mac = cache[x].mac /\ c[x].valid = cache[x].valid
                      /\ c[x].age > 0 => c[x].ip # None
  <2>. SUFFICES ASSUME NEW x \in Rows
                PROVE  /\ c[x].ip \in {cache[x].ip, None}
                       /\ c[x].mac = cache[x].mac /\ c[x].valid = cache[x].valid
                       /\ c[x].age > 0 => c[x].ip # None
    OBVIOUS
  <2>1. CASE cache[x].ip = ip /\ cache[x].mac = mac
    <3>1. c[x] = [cache[x] EXCEPT !.age = MaxAge]
      BY <2>1 DEF AgeRefreshed
    <3>. QED
      BY <1>1, <2>1, <3>1, ArpAssumption DEF RowType
  <2>2. CASE ~(cache[x].ip = ip /\ cache[x].mac = mac)
    <3>1. c[x] = cache[x]
      BY <2>2 DEF AgeRefreshed
    <3>. QED
      BY <3>1 DEF CacheOK, InUse
  <2>. QED
    BY <2>1, <2>2
<1>. QED
  BY <1>2, <1>3, SameOwners

\* vARPAgeCache()
LEMMA AgedOK ==
    ASSUME CacheOK(cache)
    PROVE  CacheOK([x \in Rows |-> Aged(cache[x])])
<1>. DEFINE c == [x \in Rows |-> Aged(cache[x])]
<1>1. \A x \in Rows : /\ c[x] \in RowType
                      /\ c[x].ip \in {cache[x].ip, None}
                      /\ c[x].mac = cache[x].mac /\ c[x].valid = cache[x].valid
                      /\ c[x].age > 0 => c[x].ip # None
  <2>. SUFFICES ASSUME NEW x \in Rows, NEW row, row = cache[x]
                PROVE  /\ Aged(row) \in RowType
                       /\ Aged(row).ip \in {row.ip, None}
                       /\ Aged(row).mac = row.mac /\ Aged(row).valid = row.valid
                       /\ Aged(row).age > 0 => Aged(row).ip # None
    OBVIOUS
  <2>1. row \in RowType /\ (row.age > 0 => row.ip # None)
    BY DEF CacheOK, InUse
  <2>2. CASE row.age = 0
    <3>1. Aged(row) = row
      BY <2>2 DEF Aged
    <3>. QED
      BY <2>1, <3>1
  <2>3. CASE row.age # 0
    <3>1. row.age \in Nat /\ row.age <= Max({MaxAge, MaxRetransmissions}) /\ row.age > 0
      BY <2>1, <2>3, AgeLimit DEF RowType
    <3>2. Aged(row) = [row EXCEPT !.age = row.age - 1, !.ip = IF row.age = 1 THEN None ELSE row.ip]
      BY <2>3 DEF Aged
    <3>3. row.age - 1 \in 0 .. Max({MaxAge, MaxRetransmissions})
      BY <3>1, AgeLimit
    <3>4. Aged(row) \in RowType
      BY <2>1, <3>2, <3>3 DEF RowType
    <3>5. /\ Aged(row).ip = IF row.age = 1 THEN None ELSE row.ip
          /\ Aged(row).mac = row.mac /\ Aged(row).valid = row.valid /\ Aged(row).age = row.age - 1
      BY <2>1, <3>2 DEF RowType
    <3>. QED
      BY <2>1, <3>1, <3>4, <3>5
  <2>. QED
    BY <2>2, <2>3
<1>2. c \in [Rows -> RowType]
  BY <1>1
<1>. QED
  BY <1>1, <1>2, SameOwners

\* FreeRTOS_ClearARP()
LEMMA ClearedOK == CacheOK([x \in Rows |-> EmptyRow])
<1>1. EmptyRow \in RowType
  BY AgeLimit DEF EmptyRow, RowType
<1>. QED
  BY <1>1 DEF CacheOK, Unique, Directed, InUse, EmptyRow

-----------------------------------------------------------------------------
(* The queue and the buffers                                               *)

Parked(packet) == IF packet = NoPacket THEN 0 ELSE 1

Good(packet) ==
    /\ packet \in Packet /\ packet.type # "none"
    /\ packet.type \in Frames => Honest(packet)
    /\ packet.type = "eStackTxEvent" => packet.ip \in IPs

\* All that is to be kept of the queue.
QueueOK(q) == q \in Seq(Packet) /\ Len(q) <= QueueLength /\ \A i \in 1 .. Len(q) : Good(q[i])

WaitingOK(packet) ==
    packet \in Packet /\ (packet = NoPacket \/ (packet.type \in {"UDP", "ICMP"} /\ Honest(packet)))

LEMMA NoPacketType == NoPacket \in Packet
BY DEF NoPacket, Packet

LEMMA TailOK ==
    ASSUME NEW q, QueueOK(q), q # << >>
    PROVE  QueueOK(Tail(q)) /\ Good(q[1]) /\ Len(Tail(q)) < QueueLength
<1>1. q \in Seq(Packet) /\ Len(q) \in Nat /\ Len(q) >= 1
  BY DEF QueueOK
<1>2. Tail(q) \in Seq(Packet) /\ Len(Tail(q)) = Len(q) - 1
  BY <1>1
<1>3. \A i \in 1 .. Len(Tail(q)) : Tail(q)[i] = q[i + 1] /\ i + 1 \in 1 .. Len(q)
  BY <1>1, <1>2
<1>4. \A i \in 1 .. Len(Tail(q)) : Good(Tail(q)[i])
  BY <1>3 DEF QueueOK
<1>5. 1 \in 1 .. Len(q)
  BY <1>1
<1>6. QueueLength \in Nat
  BY ArpAssumption
<1>. QED
  BY <1>1, <1>2, <1>4, <1>5, <1>6 DEF QueueOK

LEMMA AppendOK ==
    ASSUME NEW q, QueueOK(q), NEW packet, Good(packet), Len(q) < QueueLength
    PROVE  QueueOK(Append(q, packet))
<1>1. q \in Seq(Packet) /\ Len(q) \in Nat /\ packet \in Packet /\ QueueLength \in Nat
  BY ArpAssumption DEF QueueOK, Good
<1>2. Append(q, packet) \in Seq(Packet) /\ Len(Append(q, packet)) = Len(q) + 1
  BY <1>1
<1>3. \A i \in 1 .. Len(q) + 1 : Append(q, packet)[i] = IF i <= Len(q) THEN q[i] ELSE packet
  BY <1>1
<1>4. \A i \in 1 .. Len(q) + 1 : Good(Append(q, packet)[i])
  BY <1>1, <1>3 DEF QueueOK
<1>. QED
  BY <1>1, <1>2, <1>4 DEF QueueOK

\* A host's adapter is one it had.
OwnersHonest ==
    owner \in [IPs -> MACs] /\ owned \in [IPs -> SUBSET MACs] /\ \A ip \in IPs : owner[ip] \in owned[ip]

\* The number of free buffers follows from the last conjunct.
IInv ==
    /\ CacheOK(cache) /\ QueueOK(queue) /\ WaitingOK(waiting) /\ OwnersHonest
    /\ timer \in BOOLEAN /\ asked \subseteq IPs
    /\ free \in Nat /\ list \in 0 .. MaxPackets /\ held \in 0 .. MaxHeld
    /\ free + Cardinality(Buffered(queue)) + Parked(waiting) + list + held = Buffers

LEMMA Implied == IInv => TypeOK /\ BuffersAccounted /\ OneRowEach /\ NeverMisdirected
<1>. SUFFICES ASSUME IInv PROVE TypeOK /\ BuffersAccounted /\ OneRowEach /\ NeverMisdirected
  OBVIOUS
<1>1. /\ cache \in [Rows -> [ip : IPs \cup {None}, mac : MACs \cup {None},
                             age : 0 .. Max({MaxAge, MaxRetransmissions}), valid : BOOLEAN]]
      /\ OneRowEach /\ NeverMisdirected
  BY Zenon DEF IInv, CacheOK, RowType, Unique, Directed, OneRowEach, NeverMisdirected
<1>2. free \in 0 .. Buffers
  <2>1. Cardinality(Buffered(queue)) \in Nat
    BY BufferedFinite DEF IInv, QueueOK
  <2>2. Parked(waiting) \in Nat
    BY DEF Parked
  <2>3. list \in Nat /\ held \in Nat /\ Buffers \in Nat
    BY ArpAssumption DEF IInv
  <2>4. free \in Nat /\ free + Cardinality(Buffered(queue)) + Parked(waiting) + list + held = Buffers
    BY DEF IInv
  <2>. QED
    BY <2>1, <2>2, <2>3, <2>4
<1>3. TypeOK
  BY <1>1, <1>2, Zenon DEF TypeOK, IInv, QueueOK, WaitingOK, OwnersHonest
<1>4. BuffersAccounted
  BY DEF IInv, BuffersAccounted, Buffered, Parked
<1>. QED
  BY <1>1, <1>3, <1>4

\* The first event leaves the queue ...
LEMMA Front ==
    ASSUME IInv, queue # << >>
    PROVE  /\ QueueOK(Tail(queue)) /\ Len(Tail(queue)) < QueueLength /\ Good(queue[1])
           /\ queue[1] \in Packet
           /\ Cardinality(Buffered(Tail(queue))) \in Nat
           /\ Cardinality(Buffered(queue)) = Cardinality(Buffered(Tail(queue))) + Holds(queue[1])
<1>1. QueueOK(queue)
  BY DEF IInv
<1>2. queue \in Seq(Packet)
  BY <1>1 DEF QueueOK
<1>3. QueueOK(Tail(queue)) /\ Good(queue[1]) /\ Len(Tail(queue)) < QueueLength
  BY <1>1, TailOK
<1>4. Cardinality(Buffered(queue)) = Cardinality(Buffered(Tail(queue))) + Holds(queue[1])
  BY <1>2, BufferedTail
<1>5. Cardinality(Buffered(Tail(queue))) \in Nat
  BY <1>3, BufferedFinite DEF QueueOK
<1>. QED
  BY <1>3, <1>4, <1>5 DEF Good

\* ... or an event comes to its end.
LEMMA Back ==
    ASSUME IInv, Fits, NEW packet, Good(packet)
    PROVE  /\ QueueOK(Append(queue, packet))
           /\ Cardinality(Buffered(Append(queue, packet))) = Cardinality(Buffered(queue)) + Holds(packet)
<1>1. QueueOK(queue)
  BY DEF IInv
<1>2. queue \in Seq(Packet) /\ packet \in Packet
  BY <1>1 DEF QueueOK, Good
<1>. QED
  BY <1>1, <1>2, AppendOK, BufferedAppend DEF Fits

\* A frame says who sent it.
LEMMA FrameGood ==
    ASSUME IInv, NEW ip \in IPs, NEW type \in Frames
    PROVE  Good(Frame(type, ip)) /\ Holds(Frame(type, ip)) = 1
<1>1. owner[ip] \in owned[ip] /\ owner[ip] \in MACs
  BY DEF IInv, OwnersHonest
<1>. QED
  BY <1>1 DEF Good, Frame, Frames, Honest, Packet, Holds

-----------------------------------------------------------------------------
(* The steps                                                               *)

\* A step of the stack, the driver or the user, with hosts that stay
LEMMA Assembled ==
    ASSUME IInv, UNCHANGED hosts,
           CacheOK(cache'), QueueOK(queue'), WaitingOK(waiting'),
           timer' \in BOOLEAN, asked' \subseteq IPs,
           free' \in Nat, list' \in 0 .. MaxPackets, held' \in 0 .. MaxHeld,
           free' + Cardinality(Buffered(queue')) + Parked(waiting') + list' + held' = Buffers
    PROVE  IInv'
<1>1. owner' = owner /\ owned' = owned
  BY DEF hosts
<1>2. CacheOK(cache)'
  BY <1>1 DEF CacheOK, RowType, Unique, Directed, InUse
<1>3. QueueOK(queue)'
  BY <1>1 DEF QueueOK, Good, Honest
<1>4. WaitingOK(waiting)'
  BY <1>1 DEF WaitingOK, Honest
<1>5. OwnersHonest'
  BY <1>1 DEF IInv, OwnersHonest
<1>6. (free + Cardinality(Buffered(queue)) + Parked(waiting) + list + held = Buffers)'
  BY DEF Buffered, Parked
<1>. QED
  BY <1>2, <1>3, <1>4, <1>5, <1>6 DEF IInv

\* The first event is handled: its buffer is released, kept or passed on.
LEMMA HandledStep ==
    ASSUME IInv, UNCHANGED hosts, queue # << >>, NEW n \in Nat, Handled(n),
           CacheOK(cache'), WaitingOK(waiting'), timer' \in BOOLEAN, asked' \subseteq IPs,
           list' \in 0 .. MaxPackets, held' \in 0 .. MaxHeld,
           Parked(waiting') + list' + held' + n = Parked(waiting) + list + held + Holds(queue[1])
    PROVE  IInv'
<1>1. /\ free \in Nat /\ list \in Nat /\ held \in Nat /\ Parked(waiting) \in Nat
      /\ free + Cardinality(Buffered(queue)) + Parked(waiting) + list + held = Buffers
  BY ArpAssumption DEF IInv, Parked
<1>2. queue' = Tail(queue) /\ free' = free + n
  BY DEF Handled
<1>3. /\ Holds(queue[1]) \in Nat /\ Parked(waiting') \in Nat
      /\ list' \in Nat /\ held' \in Nat
  BY ArpAssumption DEF Holds, Parked
<1>4. /\ Cardinality(Buffered(Tail(queue))) \in Nat
      /\ Cardinality(Buffered(queue)) = Cardinality(Buffered(Tail(queue))) + Holds(queue[1])
      /\ QueueOK(Tail(queue))
  BY Front
<1>5. free' + Cardinality(Buffered(Tail(queue))) + Parked(waiting') + list' + held' = Buffers
  <2>. DEFINE before == Cardinality(Buffered(queue))
              after == Cardinality(Buffered(Tail(queue)))
              hold == Holds(queue[1])
              p == Parked(waiting)
  <2>1. free \in Nat /\ list \in Nat /\ held \in Nat /\ p \in Nat /\ free + before + p + list + held = Buffers
    BY <1>1
  <2>2. PICK p2 \in Nat, l2 \in Nat, h2 \in Nat : Parked(waiting') = p2 /\ list' = l2 /\ held' = h2
    BY <1>3
  <2>3. hold \in Nat /\ after \in Nat /\ before = after + hold
    BY <1>3, <1>4
  <2>4. p2 + l2 + h2 + n = p + list + held + hold
    BY <2>2
  <2>. HIDE DEF before, after, hold, p
  <2>5. (free + n) + after + p2 + l2 + h2 = Buffers
    BY <2>1, <2>3, <2>4
  <2>. QED
    BY <1>2, <2>2, <2>5 DEF after
<1>6. free' \in Nat
  BY <1>1, <1>2
<1>. QED
  BY <1>2, <1>4, <1>5, <1>6, Assembled

LEMMA Stays ==
    ASSUME IInv
    PROVE  /\ WaitingOK(waiting) /\ timer \in BOOLEAN /\ asked \subseteq IPs /\ CacheOK(cache)
           /\ list \in 0 .. MaxPackets /\ held \in 0 .. MaxHeld /\ Parked(waiting) \in Nat
           /\ list \in Nat /\ held \in Nat /\ MaxPackets \in Nat /\ MaxHeld \in Nat
BY ArpAssumption DEF IInv, Parked

LEMMA RequestStep == ASSUME IInv, HandleARPRequest PROVE IInv'
<1>1. queue # << >> /\ queue[1].type = "ARP_REQUEST"
  BY DEF HandleARPRequest, IsNext
<1>2. Handled(1) /\ UNCHANGED << waiting, timer, list, held, asked, hosts >>
  BY DEF HandleARPRequest
<1>3. Holds(queue[1]) = 1
  BY <1>1 DEF Holds
<1>4. Honest(queue[1])
  BY <1>1, Front DEF Good, Frames
<1>5. CacheOK(cache')
  BY <1>4, RefreshedOK DEF HandleARPRequest, Honest, IInv, OwnersHonest
<1>. QED
  BY <1>1, <1>2, <1>3, <1>5, Stays, HandledStep

LEMMA ReplyStep == ASSUME IInv, HandleARPReply PROVE IInv'
<1>1. queue # << >> /\ queue[1].type \in {"ARP_REPLY", "ARP_REPLY_TO_OTHERS"}
  BY DEF HandleARPReply, IsNext
<1>2. UNCHANGED << list, held, asked, hosts >>
  BY DEF HandleARPReply
<1>3. Holds(queue[1]) = 1
  BY <1>1 DEF Holds
<1>4. Honest(queue[1])
  BY <1>1, Front DEF Good, Frames
<1>5. CacheOK(cache')
  <2>1. CacheOK(Refreshed(queue[1].mac, queue[1].ip))
    BY <1>4, RefreshedOK DEF Honest, IInv, OwnersHonest
  <2>2. cache' \in {Refreshed(queue[1].mac, queue[1].ip), cache}
    BY DEF HandleARPReply
  <2>. QED
    BY <2>1, <2>2 DEF IInv
<1>6. CASE UNCHANGED << waiting, timer >> /\ Handled(1)
  BY <1>1, <1>2, <1>3, <1>5, <1>6, Stays, HandledStep
<1>7. CASE waiting # NoPacket /\ waiting' = NoPacket /\ timer' = FALSE /\ Handled(2)
  <2>1. Parked(waiting) = 1 /\ Parked(waiting') = 0
    BY <1>7 DEF Parked
  <2>2. WaitingOK(waiting')
    BY <1>7, NoPacketType DEF WaitingOK
  <2>3. Parked(waiting') + list' + held' + 2 = Parked(waiting) + list + held + Holds(queue[1])
    BY <1>2, <1>3, <2>1, Stays
  <2>. QED
    BY <1>1, <1>2, <1>5, <1>7, <2>2, <2>3, Stays, HandledStep
<1>8. CASE /\ waiting # NoPacket /\ waiting' = NoPacket /\ timer' = FALSE
           /\ queue' = Append(Tail(queue), waiting) /\ free' = free + 1
  <2>1. Parked(waiting) = 1 /\ Parked(waiting') = 0
    BY <1>8 DEF Parked
  <2>2. WaitingOK(waiting')
    BY <1>8, NoPacketType DEF WaitingOK
  <2>3. Good(waiting) /\ Holds(waiting) = 1
    BY <1>8 DEF IInv, WaitingOK, Good, Frames, Holds
  <2>4. QueueOK(queue')
    BY <1>1, <1>8, <2>3, Front, AppendOK
  <2>5. Cardinality(Buffered(queue')) = Cardinality(Buffered(queue))
    <3>1. Tail(queue) \in Seq(Packet) /\ waiting \in Packet
      BY <1>1, <2>3, Front DEF QueueOK, Good
    <3>. QED
      BY <1>1, <1>3, <1>8, <2>3, <3>1, Front, BufferedAppend
  <2>6. /\ free \in Nat /\ list \in Nat /\ held \in Nat /\ Cardinality(Buffered(queue)) \in Nat
        /\ free + Cardinality(Buffered(queue)) + 1 + list + held = Buffers
    BY <1>1, <2>1, Front, ArpAssumption, BufferedFinite DEF IInv, QueueOK
  <2>7. free' + Cardinality(Buffered(queue')) + Parked(waiting') + list' + held' = Buffers
    BY <1>2, <1>8, <2>1, <2>5, <2>6
  <2>8. free' \in Nat /\ list' \in 0 .. MaxPackets /\ held' \in 0 .. MaxHeld /\ asked' \subseteq IPs
    BY <1>2, <1>8, <2>6 DEF IInv
  <2>. QED
    BY <1>2, <1>5, <1>8, <2>2, <2>4, <2>7, <2>8, Assembled
<1>. QED
  BY <1>6, <1>7, <1>8 DEF HandleARPReply

\* Owners are asked only for addresses of hosts.
LEMMA AskOK ==
    ASSUME IInv, NEW ips \in SUBSET IPs, Ask(ips)
    PROVE  asked' \subseteq IPs
BY DEF IInv, Ask

LEMMA UnresolvedStep == ASSUME IInv, HandleUnresolved PROVE IInv'
<1>1. queue # << >> /\ queue[1].type \in {"UDP", "ICMP"}
  BY DEF HandleUnresolved, IsNext
<1>2. UNCHANGED << cache, list, held, hosts >> /\ Park(queue[1])
  BY DEF HandleUnresolved
<1>3. Holds(queue[1]) = 1
  BY <1>1 DEF Holds
<1>4. Honest(queue[1]) /\ queue[1] \in Packet
  BY <1>1, Front DEF Good, Frames
<1>5. asked' \subseteq IPs
  BY <1>4, AskOK DEF HandleUnresolved, Honest
<1>6. CASE waiting = NoPacket /\ waiting' = queue[1] /\ timer' = TRUE /\ Handled(0)
  <2>1. Parked(waiting) = 0 /\ Parked(waiting') = 1
    BY <1>1, <1>6 DEF Parked, NoPacket
  <2>2. WaitingOK(waiting')
    BY <1>1, <1>4, <1>6 DEF WaitingOK
  <2>. QED
    BY <1>1, <1>2, <1>3, <1>5, <1>6, <2>1, <2>2, Stays, HandledStep
<1>7. CASE UNCHANGED << waiting, timer >> /\ Handled(1)
  BY <1>1, <1>2, <1>3, <1>5, <1>7, Stays, HandledStep
<1>. QED
  BY <1>2, <1>6, <1>7 DEF Park, StartTimer

LEMMA UDPStep == ASSUME IInv, HandleUDP PROVE IInv'
<1>1. queue # << >> /\ queue[1].type = "UDP"
  BY DEF HandleUDP, IsNext
<1>2. UNCHANGED << waiting, timer, held, asked, hosts >>
  BY DEF HandleUDP
<1>3. Holds(queue[1]) = 1 /\ Honest(queue[1])
  BY <1>1, Front DEF Holds, Good, Frames
<1>4. CacheOK(cache')
  BY <1>3, AgeRefreshedOK DEF HandleUDP, Honest, IInv
<1>5. MaxPackets \in Nat /\ MaxHeld \in Nat
  BY ArpAssumption
<1>6. CASE list < MaxPackets /\ list' = list + 1 /\ Handled(0)
  BY <1>1, <1>2, <1>3, <1>4, <1>5, <1>6, Stays, HandledStep
<1>7. CASE UNCHANGED list /\ Handled(1)
  BY <1>1, <1>2, <1>3, <1>4, <1>5, <1>7, Stays, HandledStep
<1>. QED
  BY <1>6, <1>7 DEF HandleUDP

LEMMA ICMPStep == ASSUME IInv, HandleICMP PROVE IInv'
<1>1. queue # << >> /\ queue[1].type = "ICMP"
  BY DEF HandleICMP, IsNext
<1>2. UNCHANGED << waiting, timer, list, held, asked, hosts >> /\ Handled(1)
  BY DEF HandleICMP
<1>3. Holds(queue[1]) = 1 /\ Honest(queue[1])
  BY <1>1, Front DEF Holds, Good, Frames
<1>4. CacheOK(cache')
  BY <1>3, AgeRefreshedOK DEF HandleICMP, Honest, IInv
<1>. QED
  BY <1>1, <1>2, <1>3, <1>4, Stays, HandledStep

LEMMA StackTxStep == ASSUME IInv, HandleStackTx PROVE IInv'
<1>1. queue # << >> /\ queue[1].type = "eStackTxEvent"
  BY DEF HandleStackTx, IsNext
<1>2. UNCHANGED << waiting, timer, list, held, hosts >> /\ Handled(1)
  BY DEF HandleStackTx
<1>3. Holds(queue[1]) = 1 /\ queue[1].ip \in IPs
  BY <1>1, Front DEF Holds, Good
<1>4. CacheOK(cache')
  BY <1>3, PlaceholderOK DEF HandleStackTx, IInv
<1>5. asked' \subseteq IPs
  BY <1>3 DEF HandleStackTx, IInv
<1>. QED
  BY <1>1, <1>2, <1>3, <1>4, <1>5, Stays, HandledStep

LEMMA ARPTimerStep == ASSUME IInv, HandleARPTimer PROVE IInv'
<1>1. queue # << >> /\ queue[1].type = "eARPTimerEvent"
  BY DEF HandleARPTimer, IsNext
<1>2. UNCHANGED << waiting, timer, list, held, hosts >> /\ Handled(0)
  BY DEF HandleARPTimer
<1>3. Holds(queue[1]) = 0
  BY <1>1 DEF Holds
<1>4. CacheOK(cache')
  BY AgedOK DEF HandleARPTimer, IInv
<1>5. asked' \subseteq IPs
  <2>1. \A x \in Rows : cache[x].age > 0 => cache[x].ip \in IPs
    BY DEF IInv, CacheOK, InUse, RowType
  <2>2. Unconfirmed \in SUBSET IPs
    BY <2>1 DEF Unconfirmed
  <2>. QED
    BY <2>2, AskOK DEF HandleARPTimer
<1>. QED
  BY <1>1, <1>2, <1>3, <1>4, <1>5, Stays, HandledStep

LEMMA ARPTimerAdded == ASSUME IInv, CheckARPTimer PROVE IInv'
<1>. DEFINE event == [NoPacket EXCEPT !.type = "eARPTimerEvent"]
<1>1. Good(event) /\ Holds(event) = 0
  BY DEF Good, Holds, Packet, NoPacket, Frames
<1>2. /\ Fits /\ queue' = Append(queue, event)
      /\ UNCHANGED << cache, waiting, timer, free, list, held, asked, hosts >>
  BY DEF CheckARPTimer, stack
<1>3. QueueOK(queue') /\ Cardinality(Buffered(queue')) = Cardinality(Buffered(queue)) + 0
  BY <1>1, <1>2, Back
<1>4. Cardinality(Buffered(queue)) \in Nat
  BY BufferedFinite DEF IInv, QueueOK
<1>5. Cardinality(Buffered(queue')) = Cardinality(Buffered(queue))
  BY <1>3, <1>4
<1>. QED
  BY <1>2, <1>3, <1>5, Stays, Assembled DEF IInv

\* Steps that leave the queue and the cache alone
LEMMA BuffersMoved ==
    ASSUME IInv, UNCHANGED << cache, queue, asked, hosts >>,
           WaitingOK(waiting'), timer' \in BOOLEAN, free' \in Nat,
           list' \in 0 .. MaxPackets, held' \in 0 .. MaxHeld,
           free' + Parked(waiting') + list' + held' = free + Parked(waiting) + list + held
    PROVE  IInv'
<1>. DEFINE inQueue == Cardinality(Buffered(queue))
<1>1. inQueue \in Nat
  BY BufferedFinite DEF IInv, QueueOK
<1>2. free + inQueue + Parked(waiting) + list + held = Buffers /\ free \in Nat
  BY DEF IInv
<1>3. PICK f2 \in Nat, p2 \in Nat, l2 \in Nat, h2 \in Nat :
        free' = f2 /\ Parked(waiting') = p2 /\ list' = l2 /\ held' = h2
  BY ArpAssumption DEF Parked
<1>4. f2 + p2 + l2 + h2 = free + Parked(waiting) + list + held
  BY <1>3
<1>. HIDE DEF inQueue
<1>5. f2 + inQueue + p2 + l2 + h2 = Buffers
  BY <1>1, <1>2, <1>4, Stays
<1>6. free' + Cardinality(Buffered(queue')) + Parked(waiting') + list' + held' = Buffers
  BY <1>3, <1>5 DEF inQueue
<1>7. CacheOK(cache') /\ QueueOK(queue') /\ asked' \subseteq IPs
  BY DEF IInv
<1>. QED
  BY <1>6, <1>7, Assembled

LEMMA ResolutionTimerStep == ASSUME IInv, CheckResolutionTimer PROVE IInv'
<1>1. /\ waiting # NoPacket /\ waiting' = NoPacket /\ timer' = FALSE /\ free' = free + 1
      /\ UNCHANGED << cache, queue, list, held, asked, hosts >>
  BY DEF CheckResolutionTimer
<1>2. WaitingOK(waiting') /\ Parked(waiting) = 1 /\ Parked(waiting') = 0
  BY <1>1, NoPacketType DEF WaitingOK, Parked
<1>3. free \in Nat
  BY DEF IInv
<1>4. free' \in Nat /\ free' + Parked(waiting') + list' + held' = free + Parked(waiting) + list + held
  BY <1>1, <1>2, <1>3, Stays
<1>. QED
  BY <1>1, <1>2, <1>4, Stays, BuffersMoved

LEMMA ClearStep == ASSUME IInv, FreeRTOS_ClearARP PROVE IInv'
BY ClearedOK, Stays, Assembled DEF FreeRTOS_ClearARP, IInv

\* A frame takes a buffer, or none when the queue is full.
LEMMA Received ==
    ASSUME IInv, NEW ip \in IPs, NEW type \in Frames, Receive(Frame(type, ip)),
           UNCHANGED << stack, list, held, hosts >>, asked' \subseteq IPs
    PROVE  IInv'
<1>1. UNCHANGED << cache, waiting, timer >>
  BY DEF stack
<1>2. CASE UNCHANGED << queue, free >>
  BY <1>1, <1>2, Stays, Assembled DEF IInv
<1>3. CASE Fits /\ free > 0 /\ queue' = Append(queue, Frame(type, ip)) /\ free' = free - 1
  <2>1. QueueOK(queue') /\ Cardinality(Buffered(queue')) = Cardinality(Buffered(queue)) + 1
    BY <1>3, FrameGood, Back
  <2>2. /\ Cardinality(Buffered(queue)) \in Nat /\ free \in Nat
        /\ free + Cardinality(Buffered(queue)) + Parked(waiting) + list + held = Buffers
    BY BufferedFinite DEF IInv, QueueOK
  <2>3. free' \in Nat
    BY <1>3, <2>2
  <2>4. free' + Cardinality(Buffered(queue')) + Parked(waiting) + list + held = Buffers
    BY <1>3, <2>1, <2>2, Stays
  <2>. QED
    BY <1>1, <2>1, <2>3, <2>4, Stays, Assembled
<1>. QED
  BY <1>2, <1>3 DEF Receive

LEMMA SendsStep == ASSUME IInv, NEW ip \in IPs, HostSends(ip) PROVE IInv'
<1>1. PICK type \in {"ARP_REQUEST", "ARP_REPLY_TO_OTHERS", "UDP", "ICMP"} : Receive(Frame(type, ip))
  BY DEF HostSends
<1>2. type \in Frames
  BY DEF Frames
<1>3. UNCHANGED << stack, list, held, hosts >> /\ asked' \subseteq IPs
  BY Stays DEF HostSends
<1>. QED
  BY <1>1, <1>2, <1>3, Received

LEMMA AnswersStep == ASSUME IInv, NEW ip \in IPs, HostAnswers(ip) PROVE IInv'
<1>1. Receive(Frame("ARP_REPLY", ip)) /\ UNCHANGED << stack, list, held, hosts >>
  BY DEF HostAnswers
<1>2. "ARP_REPLY" \in Frames
  BY DEF Frames
<1>3. asked' \subseteq IPs
  BY Stays DEF HostAnswers
<1>. QED
  BY <1>1, <1>2, <1>3, Received

\* What a host had stays true.
LEMMA MoveStep == ASSUME IInv, NEW ip \in IPs, Move(ip) PROVE IInv'
<1>1. PICK mac \in MACs \ owned[ip] :
        /\ owner' = [owner EXCEPT ![ip] = mac]
        /\ owned' = [owned EXCEPT ![ip] = @ \cup {mac}]
  BY DEF Move
<1>2. UNCHANGED << cache, waiting, timer, queue, free, list, held, asked >>
  BY DEF Move, stack
<1>3. owner \in [IPs -> MACs] /\ owned \in [IPs -> SUBSET MACs] /\ \A i \in IPs : owner[i] \in owned[i]
  BY DEF IInv, OwnersHonest
<1>4. \A i \in IPs : owned[i] \subseteq owned'[i]
  BY <1>1, <1>3
<1>5. OwnersHonest'
  BY <1>1, <1>3 DEF OwnersHonest
<1>6. Directed(cache)'
  <2>. SUFFICES ASSUME NEW x \in Rows, cache[x].valid, cache[x].ip # None
                PROVE  cache[x].mac \in owned'[cache[x].ip]
    BY <1>2 DEF Directed
  <2>1. cache[x].ip \in IPs /\ cache[x].mac \in owned[cache[x].ip]
    BY DEF IInv, CacheOK, RowType, Directed
  <2>. QED
    BY <1>4, <2>1
<1>7. CacheOK(cache)'
  BY <1>2, <1>6 DEF IInv, CacheOK, RowType, Unique, InUse
<1>8. \A packet : Honest(packet) => Honest(packet)'
  BY <1>4 DEF Honest
<1>9. QueueOK(queue)'
  BY <1>2, <1>8 DEF IInv, QueueOK, Good
<1>10. WaitingOK(waiting)'
  BY <1>2, <1>8 DEF IInv, WaitingOK
<1>11. (free + Cardinality(Buffered(queue)) + Parked(waiting) + list + held = Buffers)'
  BY <1>2 DEF IInv, Buffered, Parked
<1>. QED
  BY <1>2, <1>5, <1>7, <1>9, <1>10, <1>11 DEF IInv

LEMMA GetBufferStep == ASSUME IInv, GetBuffer PROVE IInv'
<1>1. /\ free > 0 /\ held < MaxHeld /\ free' = free - 1 /\ held' = held + 1
      /\ UNCHANGED << cache, waiting, timer, queue, list, asked, hosts >>
  BY DEF GetBuffer, stack
<1>2. free \in Nat
  BY DEF IInv
<1>3. /\ free' \in Nat /\ held' \in 0 .. MaxHeld
      /\ free' + Parked(waiting') + list' + held' = free + Parked(waiting) + list + held
  BY <1>1, <1>2, Stays
<1>. QED
  BY <1>1, <1>3, Stays, BuffersMoved

LEMMA ReleaseStep == ASSUME IInv, ReleaseBuffer PROVE IInv'
<1>1. /\ held > 0 /\ held' = held - 1 /\ free' = free + 1
      /\ UNCHANGED << cache, waiting, timer, queue, list, asked, hosts >>
  BY DEF ReleaseBuffer, stack
<1>2. free \in Nat
  BY DEF IInv
<1>3. /\ free' \in Nat /\ held' \in 0 .. MaxHeld
      /\ free' + Parked(waiting') + list' + held' = free + Parked(waiting) + list + held
  BY <1>1, <1>2, Stays
<1>. QED
  BY <1>1, <1>3, Stays, BuffersMoved

LEMMA RecvfromStep == ASSUME IInv, FreeRTOS_recvfrom PROVE IInv'
<1>1. /\ list > 0 /\ list' = list - 1
      /\ UNCHANGED << cache, waiting, timer, queue, asked, hosts >>
      /\ \/ free' = free + 1 /\ UNCHANGED held
         \/ held < MaxHeld /\ held' = held + 1 /\ UNCHANGED free
  BY DEF FreeRTOS_recvfrom, stack
<1>2. free \in Nat
  BY DEF IInv
<1>3. /\ free' \in Nat /\ list' \in 0 .. MaxPackets /\ held' \in 0 .. MaxHeld
      /\ free' + Parked(waiting') + list' + held' = free + Parked(waiting) + list + held
  BY <1>1, <1>2, Stays
<1>. QED
  BY <1>1, <1>3, Stays, BuffersMoved

LEMMA SendtoStep == ASSUME IInv, NEW ip \in IPs, FreeRTOS_sendto(ip) PROVE IInv'
<1>. DEFINE event == [NoPacket EXCEPT !.type = "eStackTxEvent", !.ip = ip]
<1>1. held > 0 /\ held' = held - 1 /\ UNCHANGED << cache, waiting, timer, list, asked, hosts >>
  BY DEF FreeRTOS_sendto, stack
<1>2. free \in Nat /\ held' \in 0 .. MaxHeld
  BY <1>1, Stays DEF IInv
<1>3. CASE Fits /\ queue' = Append(queue, event) /\ UNCHANGED free
  <2>1. Good(event) /\ Holds(event) = 1
    BY DEF Good, Holds, Packet, NoPacket, Frames
  <2>. HIDE DEF event
  <2>2. QueueOK(queue') /\ Cardinality(Buffered(queue')) = Cardinality(Buffered(queue)) + 1
    BY <1>3, <2>1, Back
  <2>3. /\ Cardinality(Buffered(queue)) \in Nat
        /\ free + Cardinality(Buffered(queue)) + Parked(waiting) + list + held = Buffers
    BY BufferedFinite DEF IInv, QueueOK
  <2>4. free' + Cardinality(Buffered(queue')) + Parked(waiting') + list' + held' = Buffers
    BY <1>1, <1>2, <1>3, <2>2, <2>3, Stays
  <2>. QED
    BY <1>1, <1>2, <1>3, <2>2, <2>4, Stays, Assembled
<1>4. CASE UNCHANGED queue /\ free' = free + 1
  <2>1. free' \in Nat /\ free' + Parked(waiting') + list' + held' = free + Parked(waiting) + list + held
    BY <1>1, <1>2, <1>4, Stays
  <2>. QED
    BY <1>1, <1>2, <1>4, <2>1, Stays, BuffersMoved
<1>. QED
  BY <1>3, <1>4 DEF FreeRTOS_sendto

-----------------------------------------------------------------------------
(* The theorems                                                            *)

LEMMA InitOK == Init => IInv
<1>. SUFFICES ASSUME Init PROVE IInv
  OBVIOUS
<1>1. CacheOK(cache)
  BY ClearedOK DEF Init
<1>2. QueueOK(queue) /\ Cardinality(Buffered(queue)) = 0
  <2>1. queue = << >> /\ Buffered(queue) = {}
    BY DEF Init, Buffered
  <2>2. Len(<< >>) = 0 /\ << >> \in Seq(Packet)
    OBVIOUS
  <2>. QED
    BY <2>1, <2>2, FS_EmptySet, ArpAssumption DEF QueueOK
<1>3. WaitingOK(waiting) /\ Parked(waiting) = 0
  BY NoPacketType DEF Init, WaitingOK, Parked
<1>4. owner \in [IPs -> MACs]
  <2>1. \E f \in [IPs -> MACs] : IsInjective(f)
    BY ArpAssumption
  <2>. QED
    BY <2>1, Zenon DEF Init
<1>5. OwnersHonest
  <2>1. owned = [ip \in IPs |-> {owner[ip]}]
    BY DEF Init
  <2>. QED
    BY <1>4, <2>1 DEF OwnersHonest
<1>6. free = Buffers /\ list = 0 /\ held = 0 /\ timer = FALSE /\ asked = {}
  BY DEF Init
<1>7. Buffers \in Nat /\ MaxPackets \in Nat /\ MaxHeld \in Nat
  BY ArpAssumption
<1>8. timer \in BOOLEAN /\ asked \subseteq IPs
  BY <1>6
<1>9. free \in Nat /\ list \in 0 .. MaxPackets /\ held \in 0 .. MaxHeld
  BY <1>6, <1>7
<1>10. free + Cardinality(Buffered(queue)) + Parked(waiting) + list + held = Buffers
  BY <1>2, <1>3, <1>6, <1>7
<1>. QED
  BY <1>1, <1>2, <1>3, <1>5, <1>8, <1>9, <1>10 DEF IInv

LEMMA NextOK == IInv /\ [Next]_vars => IInv'
<1>. SUFFICES ASSUME IInv, [Next]_vars PROVE IInv'
  OBVIOUS
<1>1. CASE IPTask
  BY <1>1, RequestStep, ReplyStep, UnresolvedStep, UDPStep, ICMPStep, StackTxStep, ARPTimerStep DEF IPTask
<1>2. CASE CheckARPTimer \/ CheckResolutionTimer \/ FreeRTOS_ClearARP
  BY <1>2, ARPTimerAdded, ResolutionTimerStep, ClearStep
<1>3. CASE GetBuffer \/ FreeRTOS_recvfrom \/ ReleaseBuffer
  BY <1>3, GetBufferStep, RecvfromStep, ReleaseStep
<1>4. CASE \E ip \in IPs : HostSends(ip) \/ HostAnswers(ip) \/ Move(ip) \/ FreeRTOS_sendto(ip)
  BY <1>4, SendsStep, AnswersStep, MoveStep, SendtoStep
<1>5. CASE UNCHANGED vars
  <2>1. UNCHANGED << cache, waiting, timer, queue, free, list, held, asked, hosts >>
    BY <1>5 DEF vars, stack
  <2>. QED
    BY <2>1, Stays, Assembled DEF IInv
<1>. QED
  BY <1>1, <1>2, <1>3, <1>4, <1>5 DEF Next

THEOREM Invariance == Spec => []IInv
BY InitOK, NextOK, PTL DEF Spec

\* Every variable has its type: ages never wrap and the queue never overflows,
\* in whatever order frames, calls and timers come (FreeRTOS_ARP.c, FreeRTOS_IP.c).
THEOREM TypeCorrect == Spec => []TypeOK
BY Invariance, Implied, PTL

\* Every network buffer is in exactly one place, whatever the length of the queue
\* and the number of buffers: vReleaseNetworkBufferAndDescriptor() is called once
\* for each that the stack, the driver or the user took.
THEOREM NoBufferLeaks == Spec => []BuffersAccounted
BY Invariance, Implied, PTL

\* vARPRefreshCacheEntry() never gives an address, or an adapter, a second row, for
\* every size of the cache and every order in which hosts appear, move and are aged.
THEOREM NoDoubleRow == Spec => []OneRowEach
BY Invariance, Implied, PTL

\* prvCacheLookup() never finds the adapter of another host: what a valid row says
\* was once true of the host whose address it has.
THEOREM NoWrongRow == Spec => []NeverMisdirected
BY Invariance, Implied, PTL
=============================================================================
