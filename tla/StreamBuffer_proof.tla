------------------------- MODULE StreamBuffer_proof -------------------------
(***************************************************************************)
(* The safety of the unlocked stream buffer for every LENGTH and every     *)
(* interleaving: the properties of StreamBuffer, proved from the inductive *)
(* invariant IInv; then, from it and two smaller invariants, the honest    *)
(* window and that the buffer implements ByteFifo.                         *)
(***************************************************************************)
EXTENDS StreamBuffer, SequenceTheorems, TLAPS

\* The index arithmetic of the stream buffer, for every LENGTH.

\* An index that moves forward by less than a whole turn stays an index.
LEMMA WrapIndex ==
    ASSUME NEW i \in Index, NEW n \in 0 .. LENGTH
    PROVE  Wrap(i + n) \in Index
BY LengthAssumption DEF Index, Wrap

\* A distance counts slots, and the space before the same bound is one short
\* of what the distance leaves: the free slot tells a full buffer from an empty one.
LEMMA SpaceIsRest ==
    ASSUME NEW t \in Index, NEW h \in Index
    PROVE  /\ Distance(t, h) \in 0 .. LENGTH - 1
           /\ Space(h, t) = LENGTH - 1 - Distance(t, h)
           /\ Distance(t, t) = 0
BY LengthAssumption DEF Index, Wrap, Distance, Space

\* Moving the far end forward lengthens the distance by as much.
LEMMA DistanceGrows ==
    ASSUME NEW t \in Index, NEW h \in Index, NEW n \in Nat,
           Distance(t, h) + n <= LENGTH - 1
    PROVE  /\ Wrap(h + n) \in Index
           /\ Distance(t, Wrap(h + n)) = Distance(t, h) + n
BY LengthAssumption DEF Index, Wrap, Distance

\* Moving the near end forward shortens it by as much.
LEMMA DistanceShrinks ==
    ASSUME NEW t \in Index, NEW h \in Index, NEW n \in Nat, n <= Distance(t, h)
    PROVE  /\ Wrap(t + n) \in Index
           /\ Distance(Wrap(t + n), h) = Distance(t, h) - n
BY LengthAssumption DEF Index, Wrap, Distance

\* Going n slots on from t and then e more is going n + e slots on.
LEMMA WrapTwice ==
    ASSUME NEW t \in Index, NEW n \in Nat, NEW e \in Nat, n + e < LENGTH
    PROVE  Wrap(Wrap(t + n) + e) = Wrap(t + (n + e))
BY LengthAssumption DEF Index, Wrap

\* The slot i beyond an offset from the head is the slot that far from the tail.
LEMMA WrapFromHead ==
    ASSUME NEW t \in Index, NEW h \in Index, NEW o \in Nat, NEW i \in Nat,
           Distance(t, h) + o + i < LENGTH
    PROVE  /\ Wrap(Wrap(h + o) + i) = Wrap(t + (Distance(t, h) + o + i))
           /\ Wrap(Wrap(h + o) + i) \in Index
BY LengthAssumption DEF Index, Wrap, Distance

\* Positions less than a whole turn apart have slots of their own.
LEMMA SlotsApart ==
    ASSUME NEW t \in Index, NEW a \in 0 .. LENGTH - 1, NEW b \in 0 .. LENGTH - 1, a # b
    PROVE  Wrap(t + a) # Wrap(t + b)
BY LengthAssumption DEF Index, Wrap

\* The comparison of two indices compares their distances from the tail, also
\* where the subtraction of size_t values wraps below zero.
LEMMA ComparesDistances ==
    ASSUME NEW t \in Index, NEW l \in Index, NEW r \in Index
    PROVE  LessThenEqual(t, l, r) <=> Distance(t, l) <= Distance(t, r)
BY LengthAssumption DEF LessThenEqual, SizeSub, Distance, Wrap, Index


\* What is stored ahead of the head fits before the tail.
AheadFits == \A p \in ahead : p >= written /\ p < consumed + LENGTH - 1

\* What an Add writes fits in the room that is left, although uxTail was read
\* when the Add began: the reader can only have made more room since.
AddFits ==
    add.pc \in {"copy", "publish"} =>
        /\ add.at = Wrap(uxHead + add.offset)
        /\ add.offset + add.count <= GetSpace
        /\ add.done <= add.count

\* The bytes an Add has copied so far are in place, and an Add that is about
\* to move uxHead has all of them in place.
AddInPlace ==
    /\ add.pc = "copy" =>
        \A p \in written + add.offset .. written + add.offset + add.done - 1 : ucArray[Slot(p)] = p
    /\ add.pc = "publish" =>
        /\ add.offset = 0
        /\ \A p \in written .. written + add.count - 1 : ucArray[Slot(p)] = p

\* What a Get reads is still there, although uxHead was read when it began.
GetFits ==
    get.pc # "idle" =>
        /\ get.at = Wrap(uxTail + get.offset)
        /\ get.offset + get.count <= GetSize
        /\ get.done <= get.count
        /\ get.pc = "advance" \/ get.kind = "read" => get.offset = 0

\* The copy a Get makes is as long as its counter says.
GetCopied ==
    /\ get.done = Len(get.dest)
    /\ get.pc = "idle" => get.done = 0

IInv ==
    /\ TypeOK
    /\ HeadTailAccount
    /\ BytesIntact
    /\ GetReturnsStream
    /\ AheadFits
    /\ AddFits
    /\ AddInPlace
    /\ GetFits
    /\ GetCopied

-----------------------------------------------------------------------------
(* Facts about a state that satisfies the invariant *)

\* The indices of such a state, and the room between them, in numbers.
LEMMA Room ==
    ASSUME IInv
    PROVE  /\ uxHead \in Index /\ uxTail \in Index
           /\ GetSize \in 0 .. LENGTH - 1
           /\ GetSpace = LENGTH - 1 - GetSize
           /\ written = consumed + GetSize
           /\ written \in Nat /\ consumed \in Nat
           /\ LENGTH \in Nat \ {0}
BY SpaceIsRest, LengthAssumption DEF IInv, TypeOK, HeadTailAccount, GetSize, GetSpace

\* The initial state satisfies the invariant.
LEMMA InitIInv == Init => IInv
<1> SUFFICES ASSUME Init PROVE IInv
    OBVIOUS
<1> USE LengthAssumption
<1>1. TypeOK
    BY DEF Init, TypeOK, Index, AddRecord, GetRecord, IdleAdd, IdleGet
<1>2. GetSize = 0
    BY DEF Init, GetSize, Distance, Wrap
<1>3. HeadTailAccount /\ BytesIntact
    BY <1>2 DEF Init, HeadTailAccount, BytesIntact
<1>4. GetReturnsStream /\ GetCopied /\ GetFits
    BY DEF Init, GetReturnsStream, GetCopied, GetFits, IdleGet
<1>5. AheadFits /\ AddFits /\ AddInPlace
    BY DEF Init, AheadFits, AddFits, AddInPlace, IdleAdd
<1> QED
    BY <1>1, <1>3, <1>4, <1>5 DEF IInv

\* A step that leaves the buffer alone and keeps the locals in order keeps the
\* invariant: what the invariant says of the buffer does not depend on them.
LEMMA BufferUnchanged ==
    ASSUME IInv, UNCHANGED << ucArray, uxHead, uxTail, written, consumed, ahead >>
    PROVE  /\ HeadTailAccount' /\ BytesIntact' /\ AheadFits'
           /\ GetSize' = GetSize /\ GetSpace' = GetSpace
           /\ \A p : Slot(p)' = Slot(p)
<1>1. GetSize' = GetSize /\ GetSpace' = GetSpace
    BY DEF GetSize, GetSpace, Distance, Space
<1>2. \A p : Slot(p)' = Slot(p)
    BY DEF Slot
<1>3. HeadTailAccount' /\ AheadFits'
    BY <1>1 DEF IInv, HeadTailAccount, AheadFits
<1>4. BytesIntact'
    BY <1>2 DEF IInv, BytesIntact
<1> QED
    BY <1>1, <1>2, <1>3, <1>4

-----------------------------------------------------------------------------
(* The steps of the writer *)

\* The count of an Add that starts fits in the room there is.
LEMMA AddCountFits ==
    ASSUME IInv, NEW offset \in Nat, NEW n \in 1 .. LENGTH, AddCount(offset, n) > 0
    PROVE  AddCount(offset, n) \in Nat /\ offset + AddCount(offset, n) <= GetSpace
BY Room DEF AddCount, Beyond, Least

\* The call of an Add fixes a span of free slots.
LEMMA AddCallKeeps ==
    ASSUME IInv, AddCall, UNCHANGED direction
    PROVE  IInv'
<1> USE ContractAssumption
<1>1. PICK kind \in {"data", "advance"}, offset \in 0 .. MaxAhead, n \in 1 .. LENGTH :
        /\ AddRequest(kind, offset, n)
        /\ AddCount(offset, n) > 0
        /\ add' = [pc |-> IF kind = "data" THEN "copy" ELSE "publish",
                   kind |-> kind, offset |-> offset, at |-> Wrap(uxHead + offset),
                   count |-> AddCount(offset, n), done |-> 0]
        /\ UNCHANGED << ucArray, indices, get, history >>
    BY DEF AddCall
<1> DEFINE count == AddCount(offset, n)
<1>2. /\ UNCHANGED << ucArray, uxHead, uxTail, uxMid, uxFront >>
      /\ UNCHANGED << written, consumed, ahead, taken, get >>
    BY <1>1 DEF indices, history
<1>3. count \in Nat /\ count > 0 /\ offset + count <= GetSpace
    BY <1>1, AddCountFits
<1>4. /\ HeadTailAccount' /\ BytesIntact' /\ AheadFits'
      /\ GetSize' = GetSize /\ GetSpace' = GetSpace
      /\ \A p : Slot(p)' = Slot(p)
    BY <1>2, BufferUnchanged
<1>5. Wrap(uxHead + offset) \in Index
    BY <1>3, Room, WrapIndex DEF IInv, TypeOK
<1>6. TypeOK'
    <2>1. add' \in AddRecord
        BY <1>1, <1>3, <1>5 DEF AddRecord
    <2> QED
        BY <2>1, <1>2 DEF IInv, TypeOK
<1>7. GetReturnsStream' /\ GetFits' /\ GetCopied'
    BY <1>2, <1>4 DEF IInv, GetReturnsStream, GetFits, GetCopied
<1>8. AddFits'
    BY <1>1, <1>2, <1>3, <1>4 DEF AddFits
<1>9. AddInPlace'
    <2>1. CASE kind = "data"
        BY <2>1, <1>1, <1>2, Room DEF AddInPlace
    <2>2. CASE kind = "advance"
        <3>1. offset = 0 /\ written .. written + n - 1 \subseteq ahead
            BY <2>2, <1>1 DEF AddRequest
        <3>2. count <= n
            BY Room, <1>3 DEF AddCount, Least, Beyond
        <3>3. \A p \in written .. written + count - 1 : p \in ahead
            BY <3>1, <3>2, <1>3, Room
        <3>4. \A p \in written .. written + count - 1 : ucArray[Slot(p)] = p
            BY <3>3 DEF IInv, BytesIntact
        <3> QED
            BY <2>2, <3>1, <3>4, <1>1, <1>2, <1>4 DEF AddInPlace
    <2> QED
        BY <2>1, <2>2
<1> QED
    BY <1>4, <1>6, <1>7, <1>8, <1>9 DEF IInv

\* So does FreeRTOS_get_tx_head(), for the slots it hands out.
LEMMA TxHeadCallKeeps ==
    ASSUME IInv, TxHeadCall, UNCHANGED direction
    PROVE  IInv'
<1>1. PICK n \in 1 .. LENGTH :
        /\ n <= Least(GetSpace, LENGTH - uxHead)
        /\ add' = [pc |-> "copy", kind |-> "inplace", offset |-> 0, at |-> uxHead,
                   count |-> n, done |-> 0]
        /\ UNCHANGED << ucArray, indices, get, history >>
    BY DEF TxHeadCall
<1>2. /\ UNCHANGED << ucArray, uxHead, uxTail, uxMid, uxFront >>
      /\ UNCHANGED << written, consumed, ahead, taken, get >>
    BY <1>1 DEF indices, history
<1>3. n <= GetSpace
    BY <1>1, Room DEF Least, Index
<1>4. /\ HeadTailAccount' /\ BytesIntact' /\ AheadFits'
      /\ GetSize' = GetSize /\ GetSpace' = GetSpace
      /\ \A p : Slot(p)' = Slot(p)
    BY <1>2, BufferUnchanged
<1>5. TypeOK'
    <2>1. add' \in AddRecord
        BY <1>1, Room DEF AddRecord
    <2> QED
        BY <2>1, <1>2 DEF IInv, TypeOK
<1>6. GetReturnsStream' /\ GetFits' /\ GetCopied'
    BY <1>2, <1>4 DEF IInv, GetReturnsStream, GetFits, GetCopied
<1>7. AddFits'
    <2>1. Wrap(uxHead + 0) = uxHead
        BY Room DEF Wrap, Index
    <2> QED
        BY <2>1, <1>1, <1>2, <1>3, <1>4 DEF AddFits
<1>8. AddInPlace'
    BY <1>1, <1>2, Room DEF AddInPlace
<1> QED
    BY <1>4, <1>5, <1>6, <1>7, <1>8 DEF IInv

\* The byte an Add copies lands in the slot of its stream position, and no
\* byte that is in place is lost: its slot is another one, or it is the same byte.
LEMMA CopyInPlace ==
    ASSUME IInv, AddCopy
    PROVE  LET q == written + add.offset + add.done
           IN  /\ ucArray'[Slot(q)] = q
               /\ \A p \in consumed .. consumed + LENGTH - 2 :
                     ucArray[Slot(p)] = p => ucArray'[Slot(p)] = p
               /\ ucArray' \in [Index -> Nat \cup {Garbage}]
<1> DEFINE q == written + add.offset + add.done
<1>1. /\ add.offset \in Nat /\ add.done \in Nat /\ add.count \in Nat
      /\ add.done < add.count
      /\ add.at = Wrap(uxHead + add.offset)
      /\ add.offset + add.count <= GetSpace
      /\ ucArray \in [Index -> Nat \cup {Garbage}]
      /\ ucArray' = [ucArray EXCEPT ![Wrap(add.at + add.done)] = q]
    BY Room DEF IInv, TypeOK, AddRecord, AddFits, AddCopy
<1>2. GetSize + add.offset + add.done < LENGTH /\ q - consumed = GetSize + add.offset + add.done
    BY <1>1, Room
<1>3. Wrap(add.at + add.done) = Slot(q) /\ Slot(q) \in Index
    BY <1>1, <1>2, Room, WrapFromHead DEF Slot, GetSize
<1>4. ASSUME NEW p \in consumed .. consumed + LENGTH - 2, p # q
      PROVE  Slot(p) # Slot(q)
    <2>1. p - consumed \in 0 .. LENGTH - 1 /\ q - consumed \in 0 .. LENGTH - 1
        BY <1>1, <1>2, Room
    <2>2. p - consumed # q - consumed
        BY <1>1, <1>4, Room
    <2> QED
        BY <2>1, <2>2, Room, SlotsApart DEF Slot
<1>5. ASSUME NEW p \in consumed .. consumed + LENGTH - 2, ucArray[Slot(p)] = p
      PROVE  ucArray'[Slot(p)] = p
    <2>1. Slot(p) \in Index
        BY Room, WrapIndex DEF Slot
    <2>2. CASE p = q
        BY <2>2, <1>1, <1>3
    <2>3. CASE p # q
        BY <2>1, <2>3, <1>1, <1>3, <1>4, <1>5
    <2> QED
        BY <2>2, <2>3
<1>6. ucArray'[Slot(q)] = q /\ ucArray' \in [Index -> Nat \cup {Garbage}]
    BY <1>1, <1>3, Room
<1> QED
    BY <1>5, <1>6

\* Copying a byte touches a free slot only.
LEMMA AddCopyKeeps ==
    ASSUME IInv, AddCopy, UNCHANGED direction
    PROVE  IInv'
<1> DEFINE q == written + add.offset + add.done
<1>1. /\ UNCHANGED << uxHead, uxTail, uxMid, uxFront, written, consumed, ahead, taken, get >>
      /\ add' = [add EXCEPT !.done = @ + 1]
      /\ add.pc = "copy" /\ add.done < add.count
    BY DEF AddCopy, indices, history
<1>2. /\ ucArray'[Slot(q)] = q
      /\ \A p \in consumed .. consumed + LENGTH - 2 :
            ucArray[Slot(p)] = p => ucArray'[Slot(p)] = p
      /\ ucArray' \in [Index -> Nat \cup {Garbage}]
    BY CopyInPlace
<1>3. /\ GetSize' = GetSize /\ GetSpace' = GetSpace
      /\ \A p : Slot(p)' = Slot(p)
    BY <1>1 DEF GetSize, GetSpace, Distance, Space, Slot
<1>4. /\ add \in AddRecord /\ add' \in AddRecord
      /\ add'.offset = add.offset /\ add'.done = add.done + 1 /\ add'.pc = "copy"
      /\ add'.count = add.count /\ add'.at = add.at
      /\ add.offset \in Nat /\ add.done \in Nat /\ add.count \in Nat
    BY <1>1 DEF IInv, TypeOK, AddRecord
<1>5. TypeOK'
    BY <1>1, <1>2, <1>4 DEF IInv, TypeOK
<1>6. HeadTailAccount' /\ AheadFits' /\ GetReturnsStream' /\ GetFits' /\ GetCopied' /\ AddFits'
    <2>1. HeadTailAccount' /\ AheadFits'
        BY <1>1, <1>3 DEF IInv, HeadTailAccount, AheadFits
    <2>2. GetReturnsStream' /\ GetFits' /\ GetCopied'
        BY <1>1, <1>3 DEF IInv, GetReturnsStream, GetFits, GetCopied
    <2>3. AddFits'
        BY <1>1, <1>3, <1>4 DEF IInv, AddFits
    <2> QED
        BY <2>1, <2>2, <2>3
<1>7. BytesIntact'
    <2>1. ASSUME NEW p \in (consumed .. written - 1) \cup ahead
          PROVE  ucArray'[Slot(p)] = p
        <3>1. p \in consumed .. consumed + LENGTH - 2
            BY Room DEF IInv, AheadFits, TypeOK
        <3>2. ucArray[Slot(p)] = p
            BY DEF IInv, BytesIntact
        <3> QED
            BY <3>1, <3>2, <1>2
    <2> QED
        BY <2>1, <1>1, <1>3 DEF BytesIntact
<1>8. AddInPlace'
    <2>1. ASSUME NEW p \in written + add.offset .. written + add.offset + add.done
          PROVE  ucArray'[Slot(p)] = p
        <3>1. CASE p = q
            BY <3>1, <1>2
        <3>2. CASE p < q
            <4>1. p \in written + add.offset .. written + add.offset + add.done - 1
                BY <2>1, <3>2, <1>4, Room
            <4>2. ucArray[Slot(p)] = p
                BY <4>1, <1>1 DEF IInv, AddInPlace
            <4>3. add.offset + add.count <= GetSpace
                BY <1>1 DEF IInv, AddFits
            <4>4. p \in consumed .. consumed + LENGTH - 2
                BY <4>1, <4>3, <1>1, <1>4, Room
            <4> QED
                BY <4>2, <4>4, <1>2
        <3>3. p \in Int /\ q \in Int /\ p <= q
            BY <2>1, <1>4, Room
        <3> QED
            BY <3>1, <3>2, <3>3
    <2> QED
        BY <2>1, <1>1, <1>3, <1>4, Room DEF AddInPlace
<1> QED
    BY <1>5, <1>6, <1>7, <1>8 DEF IInv

\* When the copy ends the whole span lies in place.
LEMMA AddCopiedKeeps ==
    ASSUME IInv, AddCopied, UNCHANGED direction
    PROVE  IInv'
<1> DEFINE first == written + add.offset
<1> DEFINE stored == first .. first + add.count - 1
<1>1. /\ UNCHANGED << ucArray, uxHead, uxTail, uxMid, uxFront >>
      /\ UNCHANGED << written, consumed, taken, get >>
      /\ add.pc = "copy" /\ add.done = add.count
    BY DEF AddCopied, indices
<1>2. /\ add \in AddRecord
      /\ add.offset \in Nat /\ add.done \in Nat /\ add.count \in Nat
      /\ add.at = Wrap(uxHead + add.offset)
      /\ add.offset + add.count <= GetSpace
    BY <1>1 DEF IInv, TypeOK, AddRecord, AddFits
<1>3. /\ GetSize' = GetSize /\ GetSpace' = GetSpace
      /\ \A p : Slot(p)' = Slot(p)
    BY <1>1 DEF GetSize, GetSpace, Distance, Space, Slot
<1>4. \A p \in stored : ucArray[Slot(p)] = p
    BY <1>1 DEF IInv, AddInPlace
<1>5. \A p \in stored : p \in Nat /\ p >= written /\ p < consumed + LENGTH - 1
    BY <1>2, Room
<1>6. HeadTailAccount' /\ GetReturnsStream' /\ GetFits' /\ GetCopied'
    BY <1>1, <1>3 DEF IInv, HeadTailAccount, GetReturnsStream, GetFits, GetCopied
<1>7. CASE add.kind = "data" /\ add.offset = 0
    <2>1. add' = [add EXCEPT !.pc = "publish"] /\ ahead' = ahead
        BY <1>7 DEF AddCopied
    <2>2. /\ add' \in AddRecord
          /\ add'.pc = "publish" /\ add'.offset = 0 /\ add'.offset = add.offset
          /\ add'.count = add.count /\ add'.done = add.done /\ add'.at = add.at
        BY <2>1, <1>2, <1>7 DEF AddRecord
    <2>3. TypeOK'
        BY <2>1, <2>2, <1>1 DEF IInv, TypeOK
    <2>4. BytesIntact' /\ AheadFits'
        BY <2>1, <1>1, BufferUnchanged
    <2>5. AddFits'
        BY <2>2, <1>1, <1>2, <1>3, Room DEF AddFits
    <2>6. AddInPlace'
        BY <2>2, <1>1, <1>2, <1>3, <1>4, <1>7, Room DEF AddInPlace
    <2> QED
        BY <2>3, <2>4, <2>5, <2>6, <1>6 DEF IInv
<1>8. CASE ~(add.kind = "data" /\ add.offset = 0)
    <2>1. /\ add' = IF add.kind = "inplace" THEN IdleAdd ELSE [add EXCEPT !.pc = "front"]
          /\ ahead' = ahead \cup stored
        BY <1>8 DEF AddCopied
    <2>2. add' \in AddRecord /\ add'.pc \in {"idle", "front"}
        BY <2>1, <1>2, LengthAssumption DEF AddRecord, IdleAdd, Index
    <2>3. TypeOK'
        BY <2>1, <2>2, <1>1, <1>5 DEF IInv, TypeOK
    <2>4. BytesIntact'
        <3>1. \A p \in (consumed .. written - 1) \cup ahead : ucArray[Slot(p)] = p
            BY DEF IInv, BytesIntact
        <3> QED
            BY <3>1, <2>1, <1>1, <1>3, <1>4 DEF BytesIntact
    <2>5. AheadFits'
        BY <2>1, <1>1, <1>5 DEF IInv, AheadFits
    <2>6. AddFits' /\ AddInPlace'
        BY <2>2 DEF AddFits, AddInPlace
    <2> QED
        BY <2>3, <2>4, <2>5, <2>6, <1>6 DEF IInv
<1> QED
    BY <1>7, <1>8

\* uxHead moves over bytes that are in place.
LEMMA AddPublishKeeps ==
    ASSUME IInv, AddPublish, UNCHANGED direction
    PROVE  IInv'
<1>1. /\ UNCHANGED << ucArray, uxTail, uxMid, uxFront, get, consumed, taken >>
      /\ add.pc = "publish"
      /\ uxHead' = Wrap(add.at + add.count)
      /\ add' = [add EXCEPT !.pc = "front", !.at = uxHead']
      /\ written' = written + add.count
      /\ ahead' = {p \in ahead : p >= written'}
    BY DEF AddPublish
<1>2. /\ add \in AddRecord /\ add.count \in Nat /\ add.offset = 0
      /\ add.at = uxHead /\ GetSize + add.count <= LENGTH - 1
      /\ \A p \in written .. written + add.count - 1 : ucArray[Slot(p)] = p
    <2>1. /\ add \in AddRecord /\ add.count \in Nat /\ add.offset = 0
          /\ add.at = Wrap(uxHead + add.offset) /\ add.offset + add.count <= GetSpace
          /\ \A p \in written .. written + add.count - 1 : ucArray[Slot(p)] = p
        BY <1>1 DEF IInv, TypeOK, AddRecord, AddFits, AddInPlace
    <2>2. Wrap(uxHead + 0) = uxHead
        BY Room DEF Wrap, Index
    <2> QED
        BY <2>1, <2>2, Room
<1>3. uxHead' \in Index /\ GetSize' = GetSize + add.count
    BY <1>1, <1>2, Room, DistanceGrows DEF GetSize
<1>4. \A p : Slot(p)' = Slot(p)
    BY <1>1 DEF Slot
<1>5. TypeOK'
    <2>1. add' \in AddRecord
        BY <1>1, <1>2, <1>3 DEF AddRecord
    <2>2. written' \in Nat /\ ahead' \subseteq Nat
        BY <1>1, <1>2, Room DEF IInv, TypeOK
    <2> QED
        BY <2>1, <2>2, <1>1, <1>3 DEF IInv, TypeOK
<1>6. HeadTailAccount'
    BY <1>1, <1>2, <1>3, Room DEF HeadTailAccount
<1>7. BytesIntact'
    <2>1. ASSUME NEW p \in (consumed .. written' - 1) \cup ahead'
          PROVE  ucArray[Slot(p)] = p
        <3>1. CASE p \in (consumed .. written - 1) \cup ahead
            BY <3>1 DEF IInv, BytesIntact
        <3>2. CASE p \in written .. written + add.count - 1
            BY <3>2, <1>2
        <3> QED
            BY <3>1, <3>2, <2>1, <1>1, <1>2, Room
    <2> QED
        BY <2>1, <1>1, <1>4 DEF BytesIntact
<1>8. AheadFits'
    BY <1>1 DEF IInv, AheadFits
<1>9. GetReturnsStream' /\ GetCopied'
    BY <1>1 DEF IInv, GetReturnsStream, GetCopied
<1>10. GetFits'
    <2>1. get \in GetRecord
        BY DEF IInv, TypeOK
    <2> QED
        BY <2>1, <1>1, <1>2, <1>3, Room DEF IInv, GetFits, GetRecord
<1>11. AddFits' /\ AddInPlace'
    <2>1. add'.pc = "front"
        BY <1>1, <1>2 DEF AddRecord
    <2> QED
        BY <2>1 DEF AddFits, AddInPlace
<1> QED
    BY <1>5, <1>6, <1>7, <1>8, <1>9, <1>10, <1>11 DEF IInv

\* Moving uxFront disturbs nothing.
LEMMA AddFrontKeeps ==
    ASSUME IInv, AddFront, UNCHANGED direction
    PROVE  IInv'
<1>1. /\ UNCHANGED << ucArray, uxHead, uxTail, uxMid, get, written, consumed, ahead, taken >>
      /\ uxFront' \in {uxFront, add.at}
      /\ add' = IdleAdd
    BY DEF AddFront, history
<1>2. add.at \in Index /\ uxFront \in Index
    BY DEF IInv, TypeOK, AddRecord
<1>3. TypeOK'
    <2>1. IdleAdd \in AddRecord
        BY LengthAssumption DEF IdleAdd, AddRecord, Index
    <2> QED
        BY <2>1, <1>1, <1>2 DEF IInv, TypeOK
<1>4. /\ HeadTailAccount' /\ BytesIntact' /\ AheadFits'
      /\ GetSize' = GetSize
    BY <1>1, BufferUnchanged
<1>5. GetReturnsStream' /\ GetFits' /\ GetCopied'
    BY <1>1, <1>4 DEF IInv, GetReturnsStream, GetFits, GetCopied
<1>6. AddFits' /\ AddInPlace'
    BY <1>1 DEF AddFits, AddInPlace, IdleAdd
<1> QED
    BY <1>3, <1>4, <1>5, <1>6 DEF IInv

-----------------------------------------------------------------------------
(* The steps of the reader *)

\* The call of a Get fixes a span of published bytes.
LEMMA GetCallKeeps ==
    ASSUME IInv, GetCall, UNCHANGED direction
    PROVE  IInv'
<1>1. PICK kind \in {"read", "peek", "ptr", "skip"}, offset \in 0 .. LENGTH - 1, n \in 1 .. LENGTH :
        /\ GetRequest(kind, offset, n)
        /\ GetCount(offset, n) > 0
        /\ get' = [pc |-> IF kind = "skip" THEN "advance" ELSE "copy",
                   kind |-> kind, offset |-> offset, at |-> Wrap(uxTail + offset),
                   count |-> GetCount(offset, n), done |-> 0, dest |-> << >>]
        /\ UNCHANGED << ucArray, indices, add, history >>
    BY DEF GetCall
<1> DEFINE count == GetCount(offset, n)
<1>2. /\ UNCHANGED << ucArray, uxHead, uxTail, uxMid, uxFront >>
      /\ UNCHANGED << written, consumed, ahead, taken, add >>
    BY <1>1 DEF indices, history
<1>3. count \in Nat /\ offset + count <= GetSize
    BY <1>1, Room DEF GetCount, Beyond, Least
<1>4. /\ HeadTailAccount' /\ BytesIntact' /\ AheadFits'
      /\ GetSize' = GetSize /\ GetSpace' = GetSpace
      /\ \A p : Slot(p)' = Slot(p)
    BY <1>2, BufferUnchanged
<1>5. TypeOK'
    <2>1. Wrap(uxTail + offset) \in Index
        BY Room, WrapIndex
    <2>2. << >> \in Seq(Nat \cup {Garbage})
        OBVIOUS
    <2>3. get' \in GetRecord
        BY <1>1, <1>3, <2>1, <2>2 DEF GetRecord
    <2> QED
        BY <2>3, <1>2 DEF IInv, TypeOK
<1>6. AddFits' /\ AddInPlace'
    BY <1>2, <1>4 DEF IInv, AddFits, AddInPlace
<1>7. GetReturnsStream' /\ GetCopied'
    BY <1>1 DEF GetReturnsStream, GetCopied
<1>8. GetFits'
    <2>1. kind \in {"read", "skip"} => offset = 0
        BY <1>1 DEF GetRequest
    <2> QED
        BY <2>1, <1>1, <1>2, <1>3, <1>4 DEF GetFits
<1> QED
    BY <1>4, <1>5, <1>6, <1>7, <1>8 DEF IInv

\* The byte copied is the one the stream has there.
LEMMA GetCopyKeeps ==
    ASSUME IInv, GetCopy, UNCHANGED direction
    PROVE  IInv'
<1> DEFINE q == consumed + get.offset + get.done
<1> DEFINE byte == ucArray[Wrap(get.at + get.done)]
<1>1. /\ UNCHANGED << ucArray, uxHead, uxTail, uxMid, uxFront >>
      /\ UNCHANGED << written, consumed, ahead, taken, add >>
      /\ get.pc = "copy" /\ get.done < get.count
      /\ get' = [get EXCEPT !.dest = Append(@, byte),
                            !.done = @ + 1,
                            !.pc = IF get.done + 1 < get.count THEN "copy"
                                   ELSE IF get.kind = "read" THEN "advance" ELSE "done"]
    BY DEF GetCopy, indices, history
<1>2. /\ get \in GetRecord
      /\ get.offset \in Nat /\ get.done \in Nat /\ get.count \in Nat
      /\ get.done < get.count
      /\ get.dest \in Seq(Nat \cup {Garbage})
      /\ get.at = Wrap(uxTail + get.offset)
      /\ get.offset + get.count <= GetSize
      /\ get.done = Len(get.dest)
    BY <1>1 DEF IInv, TypeOK, GetRecord, GetFits, GetCopied
<1>3. /\ HeadTailAccount' /\ BytesIntact' /\ AheadFits'
      /\ GetSize' = GetSize /\ GetSpace' = GetSpace
      /\ \A p : Slot(p)' = Slot(p)
    BY <1>1, BufferUnchanged
<1>4. byte = q /\ q \in Nat
    <2>1. Wrap(get.at + get.done) = Slot(q)
        <3>1. Wrap(Wrap(uxTail + get.offset) + get.done) = Wrap(uxTail + (get.offset + get.done))
            BY <1>1, <1>2, Room, WrapTwice
        <3>2. q - consumed = get.offset + get.done
            BY <1>2, Room
        <3> QED
            BY <3>1, <3>2, <1>2 DEF Slot
    <2>2. q \in consumed .. written - 1
        BY <1>2, Room
    <2> QED
        BY <2>1, <2>2, Room DEF IInv, BytesIntact
<1>5. /\ get'.dest = Append(get.dest, byte)
      /\ get'.done = get.done + 1
      /\ get'.offset = get.offset /\ get'.count = get.count /\ get'.at = get.at
      /\ get'.pc \in {"copy", "advance", "done"}
    BY <1>1, <1>2 DEF GetRecord
<1>6. TypeOK'
    <2>1. get' \in GetRecord
        <3>1. Append(get.dest, byte) \in Seq(Nat \cup {Garbage})
            BY <1>2, <1>4
        <3>2. /\ get'.kind = get.kind
              /\ get' = [pc |-> get'.pc, kind |-> get.kind, offset |-> get.offset, at |-> get.at,
                         count |-> get.count, done |-> get.done + 1, dest |-> Append(get.dest, byte)]
            BY <1>1, <1>2 DEF GetRecord
        <3> HIDE DEF byte
        <3> QED
            BY <3>1, <3>2, <1>2, <1>5 DEF GetRecord
    <2> QED
        BY <2>1, <1>1 DEF IInv, TypeOK
<1>7. AddFits' /\ AddInPlace'
    BY <1>1, <1>3 DEF IInv, AddFits, AddInPlace
<1>8. GetCopied'
    BY <1>2, <1>5 DEF GetCopied
<1>9. GetReturnsStream'
    <2>1. ASSUME NEW i \in 1 .. get.done + 1
          PROVE  Append(get.dest, byte)[i] = consumed + get.offset + i - 1
        <3>1. CASE i \in 1 .. get.done
            BY <3>1, <1>2 DEF IInv, GetReturnsStream
        <3>2. CASE i = get.done + 1
            <4>1. Append(get.dest, byte)[get.done + 1] = byte
                BY <1>2, <1>4
            <4> QED
                BY <4>1, <3>2, <1>2, <1>4, Room
        <3> QED
            BY <3>1, <3>2, <1>2
    <2> QED
        BY <2>1, <1>1, <1>5 DEF GetReturnsStream
<1>10. GetFits'
    <2>1. get'.pc = "advance" => get.kind = "read"
        BY <1>1, <1>2 DEF GetRecord
    <2>2. get.kind = "read" => get.offset = 0
        BY <1>1 DEF IInv, GetFits
    <2> QED
        BY <2>1, <2>2, <1>1, <1>2, <1>3, <1>5 DEF GetFits
<1> QED
    BY <1>3, <1>6, <1>7, <1>8, <1>9, <1>10 DEF IInv

\* The end of a peek disturbs nothing.
LEMMA GetPeekedKeeps ==
    ASSUME IInv, GetPeeked, UNCHANGED direction
    PROVE  IInv'
<1>1. /\ UNCHANGED << ucArray, uxHead, uxTail, uxMid, uxFront >>
      /\ UNCHANGED << written, consumed, ahead, taken, add >>
      /\ get' = IdleGet
    BY DEF GetPeeked, indices, history
<1>2. /\ HeadTailAccount' /\ BytesIntact' /\ AheadFits'
      /\ GetSize' = GetSize /\ GetSpace' = GetSpace
      /\ \A p : Slot(p)' = Slot(p)
    BY <1>1, BufferUnchanged
<1>3. TypeOK'
    <2>1. IdleGet \in GetRecord
        BY LengthAssumption DEF IdleGet, GetRecord, Index
    <2> QED
        BY <2>1, <1>1 DEF IInv, TypeOK
<1>4. AddFits' /\ AddInPlace'
    BY <1>1, <1>2 DEF IInv, AddFits, AddInPlace
<1>5. GetReturnsStream' /\ GetCopied' /\ GetFits'
    BY <1>1 DEF GetReturnsStream, GetCopied, GetFits, IdleGet
<1> QED
    BY <1>2, <1>3, <1>4, <1>5 DEF IInv

\* Removing bytes moves no byte that stays: its slot is the same one, counted
\* from the new tail.
LEMMA SlotsStay ==
    ASSUME IInv, GetAdvance
    PROVE  /\ get.count \in Nat /\ get.count <= GetSize
           /\ uxTail' \in Index
           /\ GetSize' = GetSize - get.count
           /\ \A p \in consumed' .. consumed + LENGTH - 2 : Slot(p)' = Slot(p)
<1>1. /\ uxHead' = uxHead /\ uxTail' = Wrap(get.at + get.count)
      /\ consumed' = consumed + get.count
    BY DEF GetAdvance
<1>2. get.count \in Nat /\ get.at = uxTail /\ get.count <= GetSize
    <2>1. /\ get.pc = "advance" /\ get.count \in Nat /\ get.offset = 0
          /\ get.at = Wrap(uxTail + get.offset) /\ get.offset + get.count <= GetSize
        BY DEF IInv, TypeOK, GetRecord, GetFits, GetAdvance
    <2>2. Wrap(uxTail + 0) = uxTail
        BY Room DEF Wrap, Index
    <2> QED
        BY <2>1, <2>2, Room
<1>3. uxTail' \in Index /\ GetSize' = GetSize - get.count
    BY <1>1, <1>2, Room, DistanceShrinks DEF GetSize
<1>4. ASSUME NEW p \in consumed' .. consumed + LENGTH - 2
      PROVE  Slot(p)' = Slot(p)
    <2> DEFINE e == p - (consumed + get.count)
    <2>1. e \in Nat /\ get.count + e < LENGTH /\ get.count + e = p - consumed
        BY <1>1, <1>2, Room
    <2>2. Wrap(Wrap(uxTail + get.count) + e) = Wrap(uxTail + (get.count + e))
        BY <2>1, <1>2, Room, WrapTwice
    <2> QED
        BY <2>1, <2>2, <1>1, <1>2 DEF Slot
<1> QED
    BY <1>2, <1>3, <1>4

\* uxTail moves over bytes the Get was allowed to remove.
LEMMA GetAdvanceKeeps ==
    ASSUME IInv, GetAdvance, UNCHANGED direction
    PROVE  IInv'
<1>1. /\ UNCHANGED << ucArray, uxHead, uxMid, uxFront, add, written, ahead >>
      /\ consumed' = consumed + get.count
      /\ taken' = taken \o Removed
      /\ get' = IdleGet
    BY DEF GetAdvance
<1>2. /\ get.count \in Nat /\ get.count <= GetSize
      /\ uxTail' \in Index
      /\ GetSize' = GetSize - get.count
      /\ \A p \in consumed' .. consumed + LENGTH - 2 : Slot(p)' = Slot(p)
    BY SlotsStay
<1>3. GetSpace' = GetSpace + get.count
    <2>1. GetSpace' = LENGTH - 1 - GetSize'
        BY <1>1, <1>2, Room, SpaceIsRest DEF GetSpace, GetSize
    <2> QED
        BY <2>1, <1>2, Room
<1>4. TypeOK'
    <2>1. IdleGet \in GetRecord
        BY LengthAssumption DEF IdleGet, GetRecord, Index
    <2>2. consumed' \in Nat
        BY <1>1, <1>2, Room
    <2>3. Removed \in Seq(Nat \cup {Garbage})
        <3>1. CASE get.kind = "read"
            BY <3>1 DEF Removed, IInv, TypeOK, GetRecord
        <3>2. CASE get.kind # "read"
            <4>1. get.at \in Index /\ ucArray \in [Index -> Nat \cup {Garbage}]
                BY DEF IInv, TypeOK, GetRecord
            <4>2. ASSUME NEW i \in 1 .. get.count
                  PROVE  ucArray[Wrap(get.at + i - 1)] \in Nat \cup {Garbage}
                <5>1. i - 1 \in 0 .. LENGTH
                    BY <4>2, <1>2, Room
                <5>2. get.at + i - 1 = get.at + (i - 1)
                    BY <4>1, <5>1, <4>2, <1>2, Room DEF Index
                <5>3. Wrap(get.at + i - 1) \in Index
                    BY <5>1, <5>2, <4>1, WrapIndex
                <5> QED
                    BY <5>3, <4>1
            <4>3. [i \in 1 .. get.count |-> ucArray[Wrap(get.at + i - 1)]]
                      \in Seq(Nat \cup {Garbage})
                BY <4>2, <1>2
            <4> QED
                BY <3>2, <4>3 DEF Removed
        <3> QED
            BY <3>1, <3>2
    <2>4. taken' \in Seq(Nat \cup {Garbage})
        BY <2>3, <1>1 DEF IInv, TypeOK
    <2> QED
        BY <2>1, <2>2, <2>4, <1>1, <1>2 DEF IInv, TypeOK
<1>5. HeadTailAccount'
    BY <1>1, <1>2, Room DEF HeadTailAccount
<1>6. AheadFits'
    BY <1>1, <1>2, Room DEF IInv, AheadFits, TypeOK
<1>7. BytesIntact'
    <2>1. ASSUME NEW p \in (consumed' .. written - 1) \cup ahead
          PROVE  ucArray[Slot(p)'] = p
        <3>1. p \in (consumed .. written - 1) \cup ahead
            BY <2>1, <1>1, <1>2, Room
        <3>2. p \in Int /\ consumed' <= p /\ p <= consumed + LENGTH - 2
            <4>. /\ consumed \in Nat /\ written \in Nat /\ LENGTH \in Nat
                 /\ consumed' \in Nat /\ consumed' <= written
                 /\ written <= consumed + LENGTH - 1
                <5>1. /\ consumed \in Nat /\ written \in Nat /\ LENGTH \in Nat
                      /\ GetSize \in 0 .. LENGTH - 1 /\ written = consumed + GetSize
                    BY Room
                <5>2. consumed' = consumed + get.count /\ get.count \in Nat /\ get.count <= GetSize
                    BY <1>1, <1>2
                <5> QED
                    BY <5>1, <5>2
            <4>1. CASE p \in consumed' .. written - 1
                BY <4>1
            <4>2. CASE p \in ahead
                <5>1. p \in Nat /\ p >= written /\ p < consumed + LENGTH - 1
                    BY <4>2 DEF IInv, AheadFits, TypeOK
                <5> QED
                    BY <5>1
            <4> QED
                BY <2>1, <4>1, <4>2
        <3>3. p \in consumed' .. consumed + LENGTH - 2
            BY <3>2, <1>1, <1>2, Room
        <3> QED
            BY <3>1, <3>3, <1>2 DEF IInv, BytesIntact
    <2> QED
        BY <2>1, <1>1 DEF BytesIntact
<1>8. GetReturnsStream' /\ GetCopied' /\ GetFits'
    BY <1>1 DEF GetReturnsStream, GetCopied, GetFits, IdleGet
<1>9. AddFits'
    <2>1. add \in AddRecord
        BY DEF IInv, TypeOK
    <2> QED
        BY <2>1, <1>1, <1>2, <1>3, Room DEF IInv, AddFits, AddRecord
<1>10. AddInPlace'
    <2>1. /\ add.offset \in Nat /\ add.count \in Nat /\ add.done \in Nat
          /\ add.pc \in {"copy", "publish"} =>
                add.offset + add.count <= GetSpace /\ add.done <= add.count
        BY DEF IInv, TypeOK, AddRecord, AddFits
    <2>2. ASSUME add.pc = "copy",
                 NEW p \in written + add.offset .. written + add.offset + add.done - 1
          PROVE  ucArray[Slot(p)'] = p
        <3>1. p \in consumed' .. consumed + LENGTH - 2
            <4>1. add.offset + add.done <= LENGTH - 1 - GetSize
                BY <2>1, <2>2, Room
            <4>2. p \in Int /\ p >= written /\ p <= written + add.offset + add.done - 1
                BY <2>1, <2>2, Room
            <4>3. consumed' <= p
                BY <4>2, <1>1, <1>2, Room
            <4>4. p <= consumed + LENGTH - 2
                BY <4>1, <4>2, <2>1, Room
            <4> QED
                BY <4>2, <4>3, <4>4, <1>1, <1>2, Room
        <3> QED
            BY <3>1, <2>2, <1>2 DEF IInv, AddInPlace
    <2>3. ASSUME add.pc = "publish", NEW p \in written .. written + add.count - 1
          PROVE  ucArray[Slot(p)'] = p
        <3>1. p \in consumed' .. consumed + LENGTH - 2
            <4>1. add.count <= LENGTH - 1 - GetSize
                BY <2>1, <2>3, Room
            <4>2. p \in Int /\ p >= written /\ p <= written + add.count - 1
                BY <2>1, <2>3, Room
            <4>3. consumed' <= p
                BY <4>2, <1>1, <1>2, Room
            <4>4. p <= consumed + LENGTH - 2
                BY <4>1, <4>2, <2>1, Room
            <4> QED
                BY <4>2, <4>3, <4>4, <1>1, <1>2, Room
        <3> QED
            BY <3>1, <2>3, <1>2 DEF IInv, AddInPlace
    <2>4. add.pc = "publish" => add.offset = 0
        BY DEF IInv, AddInPlace
    <2> QED
        BY <2>2, <2>3, <2>4, <1>1 DEF AddInPlace
<1> QED
    BY <1>4, <1>5, <1>6, <1>7, <1>8, <1>9, <1>10 DEF IInv

\* Moving uxMid disturbs nothing.
LEMMA MoveMidKeeps ==
    ASSUME IInv, MoveMid, UNCHANGED direction
    PROVE  IInv'
<1>1. PICK n \in 1 .. LENGTH :
        /\ MidSpace > 0
        /\ uxMid' = Wrap(uxMid + Least(n, MidSpace))
        /\ UNCHANGED << ucArray, uxHead, uxTail, uxFront, add, get, written, consumed, ahead, taken >>
    BY DEF MoveMid, history
<1>2. uxMid' \in Index
    <2>1. uxMid \in Index /\ MidSpace \in 0 .. LENGTH - 1
        BY Room, SpaceIsRest DEF IInv, TypeOK, MidSpace
    <2>2. Least(n, MidSpace) \in 0 .. LENGTH
        BY <1>1, <2>1, Room DEF Least
    <2> QED
        BY <2>1, <2>2, <1>1, WrapIndex
<1>3. TypeOK'
    BY <1>1, <1>2 DEF IInv, TypeOK
<1>4. /\ HeadTailAccount' /\ BytesIntact' /\ AheadFits'
      /\ GetSize' = GetSize /\ GetSpace' = GetSpace
      /\ \A p : Slot(p)' = Slot(p)
    BY <1>1, BufferUnchanged
<1>5. AddFits' /\ AddInPlace' /\ GetReturnsStream' /\ GetFits' /\ GetCopied'
    <2>1. AddFits' /\ AddInPlace'
        BY <1>1, <1>4 DEF IInv, AddFits, AddInPlace
    <2>2. GetReturnsStream' /\ GetFits' /\ GetCopied'
        BY <1>1, <1>4 DEF IInv, GetReturnsStream, GetFits, GetCopied
    <2> QED
        BY <2>1, <2>2
<1> QED
    BY <1>3, <1>4, <1>5 DEF IInv

\* An emptied buffer satisfies the invariant.
LEMMA ClearKeeps ==
    ASSUME IInv, Clear, UNCHANGED direction
    PROVE  IInv'
<1>1. /\ add.pc = "idle" /\ get.pc = "idle"
      /\ uxHead' = 0 /\ uxTail' = 0 /\ uxMid' = 0 /\ uxFront' = 0
      /\ written' = 0 /\ consumed' = 0 /\ ahead' = {} /\ taken' = << >>
      /\ UNCHANGED << ucArray, add, get >>
    BY DEF Clear
<1>2. GetSize' = 0
    BY <1>1, LengthAssumption DEF GetSize, Distance, Wrap
<1>3. TypeOK'
    BY <1>1, LengthAssumption DEF IInv, TypeOK, Index
<1>4. HeadTailAccount' /\ BytesIntact' /\ AheadFits'
    BY <1>1, <1>2 DEF HeadTailAccount, BytesIntact, AheadFits
<1>5. AddFits' /\ AddInPlace' /\ GetFits' /\ GetCopied' /\ GetReturnsStream'
    BY <1>1 DEF IInv, AddFits, AddInPlace, GetFits, GetCopied, GetReturnsStream
<1> QED
    BY <1>3, <1>4, <1>5 DEF IInv

-----------------------------------------------------------------------------
(* The theorems *)

\* Every step keeps the invariant.
LEMMA StepIInv == IInv /\ [Next]_vars => IInv'
<1> SUFFICES ASSUME IInv, [Next]_vars PROVE IInv'
    OBVIOUS
<1>1. CASE Writer /\ UNCHANGED direction
    BY <1>1, AddCallKeeps, TxHeadCallKeeps, AddCopyKeeps, AddCopiedKeeps, AddPublishKeeps,
       AddFrontKeeps DEF Writer
<1>2. CASE Reader /\ UNCHANGED direction
    BY <1>2, GetCallKeeps, GetCopyKeeps, GetPeekedKeeps, GetAdvanceKeeps, MoveMidKeeps DEF Reader
<1>3. CASE Clear /\ UNCHANGED direction
    BY <1>3, ClearKeeps
<1>4. CASE UNCHANGED vars
    <2>1. /\ UNCHANGED << direction, ucArray, uxHead, uxTail, uxMid, uxFront >>
          /\ UNCHANGED << add, get, written, consumed, ahead, taken >>
        BY <1>4 DEF vars, indices, history
    <2>2. /\ HeadTailAccount' /\ BytesIntact' /\ AheadFits'
          /\ GetSize' = GetSize /\ GetSpace' = GetSpace
          /\ \A p : Slot(p)' = Slot(p)
        BY <2>1, BufferUnchanged
    <2>3. TypeOK' /\ AddFits' /\ AddInPlace'
        BY <2>1, <2>2 DEF IInv, TypeOK, AddFits, AddInPlace
    <2>4. GetReturnsStream' /\ GetFits' /\ GetCopied'
        BY <2>1, <2>2 DEF IInv, GetReturnsStream, GetFits, GetCopied
    <2> QED
        BY <2>2, <2>3, <2>4 DEF IInv
<1> QED
    BY <1>1, <1>2, <1>3, <1>4 DEF Next

\* The invariant holds in every reachable state.
THEOREM Invariance == Spec => []IInv
BY InitIInv, StepIInv, PTL DEF Spec

\* However the unlocked Add and Get interleave, the indices stay in the array.
THEOREM TypeCorrect == Spec => []TypeOK
<1>1. IInv => TypeOK
    BY DEF IInv
<1> QED
    BY <1>1, Invariance, PTL

\* Neither task ever laps the other: head and tail account for every byte.
THEOREM NeverLapped == Spec => []HeadTailAccount
<1>1. IInv => HeadTailAccount
    BY DEF IInv
<1> QED
    BY <1>1, Invariance, PTL

\* No byte that was published or stored ahead of the head is overwritten
\* before it is removed.
THEOREM NoByteLost == Spec => []BytesIntact
<1>1. IInv => BytesIntact
    BY DEF IInv
<1> QED
    BY <1>1, Invariance, PTL

\* What uxStreamBufferGet() copies is the stream, although an Add runs meanwhile.
THEOREM ReadsStream == Spec => []GetReturnsStream
<1>1. IInv => GetReturnsStream
    BY DEF IInv
<1> QED
    BY <1>1, Invariance, PTL

-----------------------------------------------------------------------------
(* The advertised window: uxFront never lies behind uxHead *)

\* Outside an Add that is about to move it, uxFront is no nearer to the tail
\* than uxHead.  It may lie behind the tail, a whole turn ahead, when the
\* reader overtook it: the window then promises too little, never too much.
FrontAhead ==
    IF add.pc = "front" THEN GetSize <= Distance(uxTail, add.at)
                        ELSE GetSize <= Distance(uxTail, uxFront)

\* The empty buffer's front lies at its head.
LEMMA InitFrontAhead == Init => FrontAhead
BY LengthAssumption DEF Init, FrontAhead, IdleAdd, GetSize, Distance, Wrap

\* An Add that copied data ahead of the head is about to move uxFront there.
LEMMA AddCopiedFront ==
    ASSUME IInv, FrontAhead, AddCopied
    PROVE  FrontAhead'
<1>1. /\ UNCHANGED << uxHead, uxTail, uxFront >>
      /\ add.pc = "copy" /\ add \in AddRecord /\ add.offset \in Nat /\ add.count \in Nat
      /\ add.at = Wrap(uxHead + add.offset) /\ add.offset + add.count <= GetSpace
    BY DEF AddCopied, indices, IInv, TypeOK, AddRecord, AddFits
<1>2. GetSize' = GetSize
    BY <1>1 DEF GetSize, Distance
<1>3. \/ add' = [add EXCEPT !.pc = "publish"]
      \/ add' = IdleAdd
      \/ add' = [add EXCEPT !.pc = "front"]
    BY DEF AddCopied
<1>4. CASE add'.pc # "front"
    BY <1>1, <1>2, <1>4 DEF FrontAhead, Distance
<1>5. CASE add'.pc = "front"
    <2>1. add'.at = add.at
        BY <1>1, <1>3, <1>5 DEF AddRecord, IdleAdd
    <2>2. Distance(uxTail, add.at) = GetSize + add.offset
        <3>1. Distance(uxTail, uxHead) + add.offset <= LENGTH - 1
            BY <1>1, Room DEF GetSize
        <3> QED
            BY <3>1, <1>1, Room, DistanceGrows DEF GetSize
    <2> QED
        BY <2>1, <2>2, <1>1, <1>2, <1>5, Room DEF FrontAhead
<1> QED
    BY <1>4, <1>5

\* So is one that published its bytes.
LEMMA AddPublishFront ==
    ASSUME IInv, AddPublish
    PROVE  FrontAhead'
<1>1. /\ uxTail' = uxTail /\ add \in AddRecord
      /\ uxHead' = Wrap(add.at + add.count)
      /\ add' = [add EXCEPT !.pc = "front", !.at = uxHead']
      /\ add.at \in Index /\ add.count \in Nat
      /\ add.at = Wrap(uxHead + add.offset) /\ add.offset + add.count <= GetSpace
      /\ add.offset = 0
    BY DEF AddPublish, IInv, TypeOK, AddRecord, AddFits, AddInPlace
<1>2. add'.pc = "front" /\ add'.at = uxHead'
    BY <1>1 DEF AddRecord
<1>3. GetSize' = Distance(uxTail', add'.at) /\ GetSize' \in 0 .. LENGTH - 1
    <2>1. uxHead' \in Index
        BY <1>1, Room, WrapIndex
    <2> QED
        BY <2>1, <1>1, <1>2, Room, SpaceIsRest DEF GetSize
<1> QED
    BY <1>2, <1>3, Room DEF FrontAhead

\* The front moves to where the Add ended unless it already is further ahead.
LEMMA AddFrontFront ==
    ASSUME IInv, FrontAhead, AddFront
    PROVE  FrontAhead'
<1>1. /\ UNCHANGED << uxHead, uxTail >> /\ add.pc = "front" /\ add' = IdleAdd
      /\ add.at \in Index /\ uxFront \in Index /\ uxTail \in Index
      /\ uxFront' = IF LessThenEqual(uxTail, uxFront, add.at) THEN add.at ELSE uxFront
    BY DEF AddFront, IInv, TypeOK, AddRecord
<1>2. GetSize' = GetSize /\ GetSize <= Distance(uxTail, add.at)
    BY <1>1 DEF GetSize, Distance, FrontAhead
<1>3. GetSize <= Distance(uxTail, uxFront')
    BY <1>1, <1>2, ComparesDistances, SpaceIsRest, Room
<1> QED
    BY <1>1, <1>2, <1>3 DEF FrontAhead, IdleAdd, Distance

\* The reader removes published bytes only, so it brings head and front nearer
\* by the same amount.
LEMMA GetAdvanceFront ==
    ASSUME IInv, FrontAhead, GetAdvance
    PROVE  FrontAhead'
<1>1. UNCHANGED << uxHead, uxFront, add >> /\ uxTail' = Wrap(get.at + get.count)
    BY DEF GetAdvance
<1>2. /\ get.count \in Nat /\ get.count <= GetSize /\ get.at = uxTail
      /\ GetSize' = GetSize - get.count
    <2>1. get.at = Wrap(uxTail + 0)
        BY DEF IInv, GetFits, GetAdvance
    <2> QED
        BY <2>1, SlotsStay, Room DEF Wrap, Index
<1>3. ASSUME NEW i \in Index, GetSize <= Distance(uxTail, i)
      PROVE  GetSize' <= Distance(uxTail', i)
    <2>1. get.count <= Distance(uxTail, i) /\ Distance(uxTail, i) \in 0 .. LENGTH - 1
        BY <1>2, <1>3, Room, SpaceIsRest
    <2>2. Distance(uxTail', i) = Distance(uxTail, i) - get.count
        BY <2>1, <1>1, <1>2, Room, DistanceShrinks
    <2> QED
        BY <2>1, <2>2, <1>2, <1>3, Room
<1>4. add.at \in Index /\ uxFront \in Index
    BY DEF IInv, TypeOK, AddRecord
<1> QED
    BY <1>1, <1>3, <1>4 DEF FrontAhead

\* A step that moves neither head, tail nor front and ends no Add keeps it.
LEMMA FrontUnchanged ==
    ASSUME FrontAhead, UNCHANGED << uxHead, uxTail, uxFront >>,
           (add'.pc # "front" /\ add.pc # "front") \/ add' = add
    PROVE  FrontAhead'
BY DEF FrontAhead, GetSize, Distance

\* Every step of the writer, the reader or FreeRTOS_listen() keeps the front ahead.
LEMMA StepFrontAhead == IInv /\ FrontAhead /\ [Next]_vars => FrontAhead'
<1> SUFFICES ASSUME IInv, FrontAhead, [Next]_vars PROVE FrontAhead'
    OBVIOUS
<1>0. add \in AddRecord
    BY DEF IInv, TypeOK
<1>1. CASE AddCall \/ TxHeadCall \/ AddCopy
    <2>1. /\ UNCHANGED << uxHead, uxTail, uxFront >>
          /\ add'.pc # "front" /\ add.pc # "front"
        BY <1>0, <1>1 DEF AddCall, TxHeadCall, AddCopy, indices, AddRecord
    <2> QED
        BY <2>1, FrontUnchanged
<1>2. CASE AddCopied
    BY <1>2, AddCopiedFront
<1>3. CASE AddPublish
    BY <1>3, AddPublishFront
<1>4. CASE AddFront
    BY <1>4, AddFrontFront
<1>5. CASE GetCall \/ GetCopy \/ GetPeeked \/ MoveMid
    <2>1. UNCHANGED << uxHead, uxTail, uxFront >> /\ add' = add
        BY <1>5 DEF GetCall, GetCopy, GetPeeked, MoveMid, indices
    <2> QED
        BY <2>1, FrontUnchanged
<1>6. CASE GetAdvance
    BY <1>6, GetAdvanceFront
<1>7. CASE Clear
    BY <1>7, LengthAssumption DEF Clear, FrontAhead, GetSize, Distance, Wrap
<1>8. CASE UNCHANGED vars
    <2>1. UNCHANGED << uxHead, uxTail, uxFront >> /\ add' = add
        BY <1>8 DEF vars, indices
    <2> QED
        BY <2>1, FrontUnchanged
<1> QED
    BY <1>1, <1>2, <1>3, <1>4, <1>5, <1>6, <1>7, <1>8 DEF Next, Writer, Reader

\* Between two Adds, the window FrontSpace advertises fits in the room that is
\* left, even if the reader overtook a front that was not moved yet.
THEOREM WindowIsHonest == Spec => []WindowHonest
<1>1. IInv /\ FrontAhead => WindowHonest
    <2> SUFFICES ASSUME IInv, FrontAhead, add.pc = "idle" PROVE FrontSpace <= GetSpace
        BY DEF WindowHonest
    <2>1. GetSize <= Distance(uxTail, uxFront) /\ uxFront \in Index
        BY DEF FrontAhead, IInv, TypeOK
    <2>2. /\ FrontSpace = LENGTH - 1 - Distance(uxTail, uxFront)
          /\ Distance(uxTail, uxFront) \in 0 .. LENGTH - 1
        BY <2>1, Room, SpaceIsRest DEF FrontSpace
    <2> QED
        BY <2>1, <2>2, Room
<1> QED
    BY <1>1, InitFrontAhead, StepFrontAhead, Invariance, PTL DEF Spec

-----------------------------------------------------------------------------
(* The refinement: unlocked Add and Get are atomic appends and removals *)

\* An Add or a Get under way has something to do, only a read or a skip moves
\* the tail, and a read does so after it copied all of its bytes.
Begun ==
    /\ add.pc \in {"copy", "publish"} => add.count > 0
    /\ get.pc # "idle" => get.count > 0
    /\ get.pc = "advance" => get.kind \in {"read", "skip"}
    /\ get.pc = "advance" /\ get.kind = "read" => get.done = get.count

\* What was delivered is counted by the position of the tail.
TakenCounted == Len(taken) = consumed

\* The bytes that wait, as the abstract queue has them.
Waiting == [i \in 1 .. GetSize |-> ucArray[Wrap(uxTail + i - 1)]]

\* A segment of the stream is a sequence of as many positions.
LEMMA SegmentIsSeq ==
    ASSUME NEW first \in Nat, NEW n \in Nat
    PROVE  /\ Fifo!Segment(first, n) \in Seq(Nat)
           /\ Len(Fifo!Segment(first, n)) = n
           /\ \A i \in 1 .. n : Fifo!Segment(first, n)[i] = first + i - 1
<1>1. \A i \in 1 .. n : first + i - 1 \in Nat
    OBVIOUS
<1> QED
    BY <1>1 DEF Fifo!Segment

\* Two segments that follow each other are one.
LEMMA SegmentsJoin ==
    ASSUME NEW first \in Nat, NEW m \in Nat, NEW n \in Nat
    PROVE  Fifo!Segment(first, m + n) = Fifo!Segment(first, m) \o Fifo!Segment(first + m, n)
<1> DEFINE whole == Fifo!Segment(first, m + n)
<1> DEFINE left == Fifo!Segment(first, m)
<1> DEFINE right == Fifo!Segment(first + m, n)
<1>1. /\ whole \in Seq(Nat) /\ Len(whole) = m + n
      /\ \A i \in 1 .. m + n : whole[i] = first + i - 1
    BY SegmentIsSeq
<1>2. /\ left \in Seq(Nat) /\ Len(left) = m
      /\ \A i \in 1 .. m : left[i] = first + i - 1
    BY SegmentIsSeq
<1>3. /\ right \in Seq(Nat) /\ Len(right) = n
      /\ \A i \in 1 .. n : right[i] = (first + m) + i - 1
    <2>1. first + m \in Nat
        OBVIOUS
    <2> QED
        BY <2>1, SegmentIsSeq
<1> HIDE DEF whole, left, right
<1>4. /\ left \o right \in Seq(Nat) /\ Len(left \o right) = m + n
      /\ \A i \in 1 .. m + n : (left \o right)[i] = IF i <= m THEN left[i] ELSE right[i - m]
    BY <1>2, <1>3, ConcatProperties
<1>5. ASSUME NEW i \in 1 .. m + n
      PROVE  whole[i] = (left \o right)[i]
    <2>1. CASE i <= m
        BY <2>1, <1>1, <1>2, <1>4
    <2>2. CASE i > m
        <3>1. i - m \in 1 .. n
            BY <2>2
        <3> QED
            BY <2>2, <3>1, <1>1, <1>3, <1>4
    <2>3. i <= m \/ i > m
        OBVIOUS
    <2> QED
        BY <2>1, <2>2, <2>3
<1> QED
    BY <1>1, <1>4, <1>5, SeqEqual DEF whole, left, right

\* Cutting a segment gives segments.
LEMMA SegmentCut ==
    ASSUME NEW first \in Nat, NEW m \in Nat, NEW n \in 0 .. m
    PROVE  /\ SubSeq(Fifo!Segment(first, m), 1, n) = Fifo!Segment(first, n)
           /\ SubSeq(Fifo!Segment(first, m), n + 1, m) = Fifo!Segment(first + n, m - n)
<1> DEFINE whole == Fifo!Segment(first, m)
<1> DEFINE left == Fifo!Segment(first, n)
<1> DEFINE right == Fifo!Segment(first + n, m - n)
<1>1. /\ whole \in Seq(Nat) /\ Len(whole) = m
      /\ \A i \in 1 .. m : whole[i] = first + i - 1
    BY SegmentIsSeq
<1>2. /\ left \in Seq(Nat) /\ Len(left) = n
      /\ \A i \in 1 .. n : left[i] = first + i - 1
    BY SegmentIsSeq
<1>3. /\ right \in Seq(Nat) /\ Len(right) = m - n
      /\ \A i \in 1 .. m - n : right[i] = (first + n) + i - 1
    <2>1. first + n \in Nat /\ m - n \in Nat
        OBVIOUS
    <2> QED
        BY <2>1, SegmentIsSeq
<1> HIDE DEF whole, left, right
<1>4. /\ SubSeq(whole, 1, n) \in Seq(Nat) /\ Len(SubSeq(whole, 1, n)) = n
      /\ \A i \in 1 .. n : SubSeq(whole, 1, n)[i] = whole[i]
    <2>1. \A i \in 1 .. n : whole[i] \in Nat
        BY <1>1
    <2> QED
        BY <2>1, SubSeqProperties
<1>5. /\ SubSeq(whole, n + 1, m) \in Seq(Nat) /\ Len(SubSeq(whole, n + 1, m)) = m - n
      /\ \A i \in 1 .. m - n : SubSeq(whole, n + 1, m)[i] = whole[n + i]
    <2>1. \A i \in n + 1 .. m : whole[i] \in Nat
        BY <1>1
    <2>2. /\ SubSeq(whole, n + 1, m) \in Seq(Nat)
          /\ Len(SubSeq(whole, n + 1, m)) = IF n + 1 <= m THEN m - (n + 1) + 1 ELSE 0
          /\ \A i \in 1 .. m - (n + 1) + 1 : SubSeq(whole, n + 1, m)[i] = whole[n + 1 + i - 1]
        BY <2>1, SubSeqProperties
    <2>3. \A i \in 1 .. m - n : n + 1 + i - 1 = n + i
        OBVIOUS
    <2> QED
        BY <2>2, <2>3
<1>6. SubSeq(whole, 1, n) = left
    BY <1>1, <1>2, <1>4, SeqEqual
<1>7. SubSeq(whole, n + 1, m) = right
    <2>1. \A i \in 1 .. m - n : whole[n + i] = right[i]
        BY <1>1, <1>3
    <2> QED
        BY <2>1, <1>3, <1>5, SeqEqual
<1> QED
    BY <1>6, <1>7 DEF whole, left, right

\* The bytes that wait are the stream's, from the first that was not delivered.
LEMMA WaitingIsStream == IInv => Waiting = Fifo!Segment(consumed, GetSize)
<1> SUFFICES ASSUME IInv PROVE Waiting = Fifo!Segment(consumed, GetSize)
    OBVIOUS
<1>1. ASSUME NEW i \in 1 .. GetSize
      PROVE  ucArray[Wrap(uxTail + i - 1)] = consumed + i - 1
    <2>1. consumed + i - 1 \in consumed .. written - 1
        BY Room
    <2>2. Slot(consumed + i - 1) = Wrap(uxTail + i - 1)
        <3>1. uxTail + ((consumed + i - 1) - consumed) = uxTail + i - 1
            BY Room DEF Index
        <3> QED
            BY <3>1 DEF Slot
    <2> QED
        BY <2>1, <2>2 DEF IInv, BytesIntact
<1> QED
    BY <1>1 DEF Waiting, Fifo!Segment

\* What a Get removes is the front of it.
LEMMA RemovedIsStream ==
    ASSUME IInv, Begun, GetAdvance
    PROVE  Removed = Fifo!Segment(consumed, get.count)
<1>1. /\ get.pc = "advance" /\ get.count \in Nat /\ get.offset = 0 /\ get.count <= GetSize
      /\ get.dest \in Seq(Nat \cup {Garbage}) /\ get.done = Len(get.dest)
      /\ get.at = Wrap(uxTail + get.offset)
    BY SlotsStay DEF GetAdvance, IInv, TypeOK, GetRecord, GetFits, GetCopied
<1>2. get.at = uxTail
    <2>1. Wrap(uxTail + 0) = uxTail
        BY Room DEF Wrap, Index
    <2> QED
        BY <2>1, <1>1
<1>3. CASE get.kind = "read"
    <2>1. Len(get.dest) = get.count
        BY <1>1, <1>3 DEF Begun
    <2>2. \A i \in 1 .. get.count : get.dest[i] = consumed + i - 1
        BY <2>1, <1>1, Room DEF IInv, GetReturnsStream
    <2>3. get.dest = [i \in 1 .. get.count |-> consumed + i - 1]
        BY <2>1, <2>2, <1>1
    <2> QED
        BY <2>3, <1>3 DEF Removed, Fifo!Segment
<1>4. CASE get.kind # "read"
    <2>1. \A i \in 1 .. get.count : ucArray[Wrap(get.at + i - 1)] = consumed + i - 1
        <3>1. ASSUME NEW i \in 1 .. get.count
              PROVE  ucArray[Wrap(uxTail + i - 1)] = consumed + i - 1
            <4>1. consumed + i - 1 \in consumed .. written - 1
                BY <1>1, Room
            <4>2. uxTail + ((consumed + i - 1) - consumed) = uxTail + i - 1
                BY Room, <1>1 DEF Index
            <4> QED
                BY <4>1, <4>2 DEF IInv, BytesIntact, Slot
        <3> QED
            BY <3>1, <1>2
    <2> QED
        BY <2>1, <1>4 DEF Removed, Fifo!Segment
<1> QED
    BY <1>3, <1>4

\* The abstract queue starts empty and so do the locals.
LEMMA InitBegun == Init => Begun /\ TakenCounted
BY DEF Init, Begun, TakenCounted, IdleAdd, IdleGet

\* Every step keeps what was begun in order and the delivered bytes counted.
LEMMA StepBegun == IInv /\ Begun /\ TakenCounted /\ [Next]_vars => Begun' /\ TakenCounted'
<1> SUFFICES ASSUME IInv, Begun, TakenCounted, [Next]_vars PROVE Begun' /\ TakenCounted'
    OBVIOUS
<1>0. add \in AddRecord /\ get \in GetRecord
    BY DEF IInv, TypeOK
<1>1. CASE AddCall \/ TxHeadCall
    <2>1. /\ UNCHANGED << get, taken, consumed >> /\ add'.count > 0
        BY <1>1 DEF AddCall, TxHeadCall, history
    <2> QED
        BY <2>1 DEF Begun, TakenCounted
<1>2. CASE AddCopy
    <2>1. UNCHANGED << get, taken, consumed >> /\ add'.count = add.count /\ add.pc = "copy"
        BY <1>0, <1>2 DEF AddCopy, history, AddRecord
    <2> QED
        BY <2>1 DEF Begun, TakenCounted
<1>3. CASE AddCopied
    <2>1. /\ UNCHANGED << get, taken, consumed >> /\ add.pc = "copy"
          /\ add'.count = add.count \/ add'.pc = "idle"
        BY <1>0, <1>3 DEF AddCopied, AddRecord, IdleAdd
    <2> QED
        BY <2>1 DEF Begun, TakenCounted
<1>4. CASE AddPublish \/ AddFront
    <2>1. /\ UNCHANGED << get, taken, consumed >> /\ add'.pc \in {"front", "idle"}
        <3>1. CASE AddPublish
            BY <1>0, <3>1 DEF AddPublish, AddRecord
        <3>2. CASE AddFront
            BY <3>2 DEF AddFront, IdleAdd, history
        <3> QED
            BY <1>4, <3>1, <3>2
    <2> QED
        BY <2>1 DEF Begun, TakenCounted
<1>5. CASE GetCall
    <2>1. /\ UNCHANGED << add, taken, consumed >> /\ get'.count > 0
          /\ get'.pc = "advance" => get'.kind = "skip"
        BY <1>5 DEF GetCall, history
    <2> QED
        BY <2>1 DEF Begun, TakenCounted
<1>6. CASE GetCopy
    <2>1. /\ UNCHANGED << add, taken, consumed >>
          /\ get.pc = "copy" /\ get.done < get.count
          /\ get.done \in Nat /\ get.count \in Nat
          /\ get'.count = get.count /\ get'.done = get.done + 1 /\ get'.kind = get.kind
          /\ get'.pc = IF get.done + 1 < get.count THEN "copy"
                       ELSE IF get.kind = "read" THEN "advance" ELSE "done"
        BY <1>0, <1>6 DEF GetCopy, history, GetRecord
    <2> QED
        BY <2>1 DEF Begun, TakenCounted
<1>7. CASE GetPeeked \/ MoveMid
    <2>1. UNCHANGED << add, taken, consumed >> /\ (get' = get \/ get'.pc = "idle")
        BY <1>7 DEF GetPeeked, MoveMid, history, IdleGet
    <2> QED
        BY <2>1 DEF Begun, TakenCounted
<1>8. CASE GetAdvance
    <2>1. add' = add /\ get'.pc = "idle"
        BY <1>8 DEF GetAdvance, IdleGet
    <2>2. TakenCounted'
        <3>1. Removed = Fifo!Segment(consumed, get.count) /\ get.count \in Nat
            BY <1>8, RemovedIsStream, SlotsStay
        <3>2. Removed \in Seq(Nat \cup {Garbage}) /\ Len(Removed) = get.count
            <4>1. Removed \in Seq(Nat) /\ Len(Removed) = get.count
                BY <3>1, Room, SegmentIsSeq
            <4> QED
                BY <4>1
        <3>3. taken' = taken \o Removed /\ consumed' = consumed + get.count
            BY <1>8 DEF GetAdvance
        <3>4. taken \in Seq(Nat \cup {Garbage})
            BY DEF IInv, TypeOK
        <3>5. Len(taken \o Removed) = Len(taken) + Len(Removed)
            BY <3>2, <3>4, ConcatProperties
        <3> QED
            BY <3>2, <3>3, <3>5 DEF TakenCounted
    <2> QED
        BY <2>1, <2>2 DEF Begun
<1>9. CASE Clear
    BY <1>9 DEF Clear, Begun, TakenCounted
<1>10. CASE UNCHANGED vars
    BY <1>10 DEF vars, history, Begun, TakenCounted
<1> QED
    BY <1>1, <1>2, <1>3, <1>4, <1>5, <1>6, <1>7, <1>8, <1>9, <1>10 DEF Next, Writer, Reader

\* A step that moves neither head nor tail, and takes nothing, is no step of the
\* abstract queue: what it writes are free slots.
LEMMA Stutters ==
    ASSUME IInv, IInv', UNCHANGED << uxHead, uxTail, consumed, taken >>
    PROVE  UNCHANGED << Waiting, taken >>
<1>1. GetSize' = GetSize
    BY DEF GetSize, Distance
<1>2. Waiting = Fifo!Segment(consumed, GetSize)
    BY WaitingIsStream
<1>3. Waiting' = Fifo!Segment(consumed', GetSize')
    <2>1. (IInv => Waiting = Fifo!Segment(consumed, GetSize))'
        BY WaitingIsStream, PTL
    <2> QED
        BY <2>1 DEF Fifo!Segment
<1> QED
    BY <1>1, <1>2, <1>3

\* Moving uxHead is the moment the bytes of an Add enter the abstract queue.
LEMMA PublishIsPut ==
    ASSUME IInv, IInv', Begun, TakenCounted, AddPublish
    PROVE  Fifo!Put
<1>1. /\ taken' = taken /\ consumed' = consumed /\ add.count \in Nat /\ add.count > 0
      /\ add.offset + add.count <= GetSpace /\ add.offset = 0
      /\ written' = written + add.count
    BY DEF AddPublish, IInv, TypeOK, AddRecord, AddFits, AddInPlace, Begun
<1>2. GetSize' = GetSize + add.count /\ GetSize + add.count <= LENGTH - 1
    <2>1. written' = consumed' + GetSize'
        BY DEF IInv, HeadTailAccount
    <2>2. GetSize' \in Nat
        <3>1. uxHead' \in Index /\ uxTail' \in Index
            BY DEF IInv, TypeOK
        <3> QED
            BY <3>1, SpaceIsRest, LengthAssumption DEF GetSize
    <2> QED
        BY <2>1, <2>2, <1>1, Room
<1>3. Waiting = Fifo!Segment(consumed, GetSize)
    BY WaitingIsStream
<1>4. Waiting' = Fifo!Segment(consumed, GetSize + add.count)
    <2>1. (IInv => Waiting = Fifo!Segment(consumed, GetSize))'
        BY WaitingIsStream, PTL
    <2> QED
        BY <2>1, <1>1, <1>2 DEF Fifo!Segment
<1>5. Len(Waiting) = GetSize /\ Len(taken) = consumed
    BY <1>3, Room, SegmentIsSeq DEF TakenCounted
<1>6. Waiting' = Waiting \o Fifo!Segment(Len(taken) + Len(Waiting), add.count)
    <2>1. Fifo!Segment(consumed, GetSize + add.count)
              = Fifo!Segment(consumed, GetSize) \o Fifo!Segment(consumed + GetSize, add.count)
        <3>1. consumed \in Nat /\ GetSize \in Nat
            BY Room
        <3> QED
            BY <3>1, <1>1, SegmentsJoin
    <2> QED
        BY <2>1, <1>3, <1>4, <1>5
<1>7. add.count \in 1 .. LENGTH - 1 /\ Len(Waiting) + add.count <= LENGTH - 1
    BY <1>1, <1>2, <1>5, Room
<1> QED
    BY <1>1, <1>6, <1>7 DEF Fifo!Put, Waiting

\* Moving uxTail is the moment the bytes of a Get leave it.
LEMMA AdvanceIsTake ==
    ASSUME IInv, IInv', Begun, TakenCounted, GetAdvance
    PROVE  Fifo!Take
<1>1. /\ get.count \in Nat /\ get.count > 0 /\ get.count <= GetSize
      /\ GetSize' = GetSize - get.count
      /\ consumed' = consumed + get.count
      /\ taken' = taken \o Removed
    BY SlotsStay DEF GetAdvance, Begun
<1>2. Waiting = Fifo!Segment(consumed, GetSize) /\ Len(Waiting) = GetSize
    BY WaitingIsStream, Room, SegmentIsSeq
<1>3. Waiting' = Fifo!Segment(consumed + get.count, GetSize - get.count)
    <2>1. (IInv => Waiting = Fifo!Segment(consumed, GetSize))'
        BY WaitingIsStream, PTL
    <2> QED
        BY <2>1, <1>1 DEF Fifo!Segment
<1>4. /\ SubSeq(Waiting, 1, get.count) = Fifo!Segment(consumed, get.count)
      /\ SubSeq(Waiting, get.count + 1, GetSize)
             = Fifo!Segment(consumed + get.count, GetSize - get.count)
    <2>1. consumed \in Nat /\ GetSize \in Nat /\ get.count \in 0 .. GetSize
        BY <1>1, Room
    <2> QED
        BY <2>1, <1>2, SegmentCut
<1>5. /\ Removed = SubSeq(Waiting, 1, get.count)
      /\ Waiting' = SubSeq(Waiting, get.count + 1, Len(Waiting))
    BY <1>2, <1>3, <1>4, RemovedIsStream
<1>6. get.count \in 1 .. Len(Waiting)
    BY <1>1, <1>2, Room
<1> QED
    BY <1>1, <1>4, <1>5, <1>6 DEF Fifo!Take, Waiting

\* Every step of the buffer is a step of the abstract queue or changes nothing of it.
LEMMA StepSimulates ==
    IInv /\ IInv' /\ Begun /\ TakenCounted /\ [Next]_vars => [Fifo!Next]_(Fifo!fifoVars)
<1> SUFFICES ASSUME IInv, IInv', Begun, TakenCounted, [Next]_vars
             PROVE  Fifo!Next \/ UNCHANGED << Waiting, taken >>
    BY DEF Fifo!fifoVars, Waiting
<1>1. CASE AddCall \/ TxHeadCall \/ AddCopy \/ AddCopied \/ AddFront
    <2>1. UNCHANGED << uxHead, uxTail, consumed, taken >>
        BY <1>1 DEF AddCall, TxHeadCall, AddCopy, AddCopied, AddFront, indices, history
    <2> QED
        BY <2>1, Stutters
<1>2. CASE AddPublish
    BY <1>2, PublishIsPut DEF Fifo!Next
<1>3. CASE GetCall \/ GetCopy \/ GetPeeked \/ MoveMid
    <2>1. UNCHANGED << uxHead, uxTail, consumed, taken >>
        BY <1>3 DEF GetCall, GetCopy, GetPeeked, MoveMid, indices, history
    <2> QED
        BY <2>1, Stutters
<1>4. CASE GetAdvance
    BY <1>4, AdvanceIsTake DEF Fifo!Next
<1>5. CASE Clear
    <2>1. taken' = << >> /\ GetSize' = 0
        BY <1>5, LengthAssumption DEF Clear, GetSize, Distance, Wrap
    <2>2. Waiting' = << >>
        BY <2>1 DEF Waiting
    <2> QED
        BY <2>1, <2>2 DEF Fifo!Next, Fifo!Clear, Waiting
<1>6. CASE UNCHANGED vars
    <2>1. UNCHANGED << uxHead, uxTail, consumed, taken >>
        BY <1>6 DEF vars, indices, history
    <2> QED
        BY <2>1, Stutters
<1> QED
    BY <1>1, <1>2, <1>3, <1>4, <1>5, <1>6 DEF Next, Writer, Reader

\* For every LENGTH and every interleaving, the buffer that two tasks share
\* without a lock is a FIFO of at most LENGTH - 1 bytes of the stream.
THEOREM BufferIsFifo == Spec => ImplementsFifo
<1>1. Init => Fifo!Init
    <2>1. Init => GetSize = 0
        BY LengthAssumption DEF Init, GetSize, Distance, Wrap
    <2> QED
        BY <2>1 DEF Init, Fifo!Init
<1> QED
    BY <1>1, Invariance, InitBegun, StepBegun, StepSimulates, PTL DEF Spec, ImplementsFifo, Fifo!Spec
=============================================================================
