---------------------------- MODULE StreamBuffer ----------------------------
(***************************************************************************)
(* One stream buffer of a TCP socket, shared without a lock by the task    *)
(* that writes it and the task that reads it.  uxStreamBufferAdd() moves   *)
(* uxHead and uxFront, uxStreamBufferGet() moves uxTail and                *)
(* vStreamBufferMoveMid() moves uxMid; every access to an index that the   *)
(* other task moves, and every byte copied, is a step of its own.          *)
(*                                                                         *)
(* In direction "rx" the IP task writes, out-of-order segments ahead of    *)
(* the head included, and the user's task reads (FreeRTOS_recv()).  In     *)
(* direction "tx" the user's task writes (FreeRTOS_send()) and the IP task *)
(* peeks to send, moves mid past what became a segment, and skips what the *)
(* peer acknowledged.                                                      *)
(*                                                                         *)
(* A byte is its position in the TCP stream.  `written' and `consumed' are *)
(* the positions of the head and the tail, `ahead' the positions stored    *)
(* before the head got there, `taken' what the reader removed: none of     *)
(* the four is a variable of the program.                                  *)
(***************************************************************************)
EXTENDS StreamBufferOps, Sequences

CONSTANTS
    WriterPreemptible,  \* may the reader run in the middle of an Add?
    MaxBytes,           \* length of the stream (bound of the model)
    MaxAhead,           \* furthest offset of an out-of-order Add (bound)
    Garbage             \* what a slot holds before it is written

ASSUME ContractAssumption ==
    /\ WriterPreemptible \in BOOLEAN
    /\ MaxBytes \in Nat
    /\ MaxAhead \in Nat
    /\ Garbage \notin Nat

VARIABLES
    direction,  \* "rx" or "tx", for ever
    ucArray, uxHead, uxTail, uxMid, uxFront,    \* StreamBuffer_t
    add,        \* the locals of the Add in progress
    get,        \* the locals of the Get in progress
    written, consumed, ahead, taken

indices == << uxHead, uxTail, uxMid, uxFront >>
history == << written, consumed, ahead, taken >>
vars == << direction, ucArray, indices, add, get, history >>

IdleAdd == [pc |-> "idle", kind |-> "data", offset |-> 0, at |-> 0, count |-> 0, done |-> 0]
IdleGet == [pc |-> "idle", kind |-> "read", offset |-> 0, at |-> 0, count |-> 0, done |-> 0, dest |-> << >>]

GetSpace == Space(uxHead, uxTail)
FrontSpace == Space(uxFront, uxTail)
\* Fault: data stored ahead of the head counts as received.
GetSizeToFront == Distance(uxTail, uxFront)

GetSize == Distance(uxTail, uxHead)

MidSpace == Distance(uxMid, uxHead)

Init ==
    /\ direction \in {"rx", "tx"}
    /\ ucArray = [i \in Index |-> Garbage]
    /\ uxHead = 0 /\ uxTail = 0 /\ uxMid = 0 /\ uxFront = 0
    /\ add = IdleAdd
    /\ get = IdleGet
    /\ written = 0 /\ consumed = 0 /\ ahead = {} /\ taken = << >>

-----------------------------------------------------------------------------
(* The writer *)

\* The calls its users make: data at the head; in "rx" also data ahead of the
\* head, and the head moved over data that is already there; in "tx" also the
\* same move after FreeRTOS_get_tx_head() let the user fill the free slots.
AddRequest(kind, offset, n) ==
    /\ written + offset + n <= MaxBytes
    /\ \/ kind = "data" /\ offset = 0
       \/ kind = "data" /\ direction = "rx" /\ offset \in 1 .. MaxAhead
       \/ kind = "advance" /\ offset = 0 /\ written .. written + n - 1 \subseteq ahead

\* What an Add will write, decided from uxTail as it is now.
AddCount(offset, n) == Least(Beyond(GetSpace, offset), n)

AddCall ==
    \E kind \in {"data", "advance"}, offset \in 0 .. MaxAhead, n \in 1 .. LENGTH :
        /\ add.pc = "idle"
        /\ AddRequest(kind, offset, n)
        /\ AddCount(offset, n) > 0
        /\ add' = [pc |-> IF kind = "data" THEN "copy" ELSE "publish",
                   kind |-> kind, offset |-> offset, at |-> Wrap(uxHead + offset),
                   count |-> AddCount(offset, n), done |-> 0]
        /\ UNCHANGED << ucArray, indices, get, history >>

\* FreeRTOS_get_tx_head(): the user fills contiguous slots after the head.
TxHeadCall ==
    \E n \in 1 .. LENGTH :
        /\ direction = "tx"
        /\ add.pc = "idle"
        /\ n <= Least(GetSpace, LENGTH - uxHead)
        /\ written + n <= MaxBytes
        /\ add' = [pc |-> "copy", kind |-> "inplace", offset |-> 0, at |-> uxHead,
                   count |-> n, done |-> 0]
        /\ UNCHANGED << ucArray, indices, get, history >>

\* Fault: the offset is forgotten.
AddCopyAtHead ==
    /\ add.pc = "copy"
    /\ add.done < add.count
    /\ ucArray' = [ucArray EXCEPT ![Wrap(uxHead + add.done)] = written + add.offset + add.done]
    /\ add' = [add EXCEPT !.done = @ + 1]
    /\ UNCHANGED << indices, get, history >>

\* memcpy(), a byte at a time; the second memcpy() starts where Wrap does.
AddCopy ==
    /\ add.pc = "copy"
    /\ add.done < add.count
    /\ ucArray' = [ucArray EXCEPT ![Wrap(add.at + add.done)] = written + add.offset + add.done]
    /\ add' = [add EXCEPT !.done = @ + 1]
    /\ UNCHANGED << indices, get, history >>

\* The bytes are in place: an Add at the head goes on to publish them, one
\* ahead of it leaves uxHead alone, and a fill in place is no Add at all.
AddCopied ==
    /\ add.pc = "copy"
    /\ add.done = add.count
    /\ IF add.kind = "data" /\ add.offset = 0
         THEN /\ add' = [add EXCEPT !.pc = "publish"]
              /\ UNCHANGED ahead
         ELSE /\ add' = IF add.kind = "inplace" THEN IdleAdd ELSE [add EXCEPT !.pc = "front"]
              /\ ahead' = ahead \cup
                          (written + add.offset .. written + add.offset + add.count - 1)
    /\ UNCHANGED << ucArray, indices, get, written, consumed, taken >>

AddPublish ==
    /\ add.pc = "publish"
    /\ uxHead' = Wrap(add.at + add.count)
    /\ add' = [add EXCEPT !.pc = "front", !.at = uxHead']
    /\ written' = written + add.count
    /\ ahead' = {p \in ahead : p >= written'}
    /\ UNCHANGED << ucArray, uxTail, uxMid, uxFront, get, consumed, taken >>

\* uxTail is read again, after the head was published.
AddFront ==
    /\ add.pc = "front"
    /\ uxFront' = IF LessThenEqual(uxTail, uxFront, add.at) THEN add.at ELSE uxFront
    /\ add' = IdleAdd
    /\ UNCHANGED << ucArray, uxHead, uxTail, uxMid, get, history >>

Writer == AddCall \/ TxHeadCall \/ AddCopy \/ AddCopied \/ AddPublish \/ AddFront

-----------------------------------------------------------------------------
(* The reader *)

\* "read" takes bytes; "peek" looks at bytes, at an offset if it likes; "ptr"
\* is uxStreamBufferGetPtr(), which gives what is contiguous to be looked at;
\* "skip" moves uxTail without copying.  The IP task skips sent bytes only.
GetRequest(kind, offset, n) ==
    \/ kind = "read" /\ direction = "rx" /\ offset = 0
    \/ kind = "peek" /\ (direction = "tx" \/ offset = 0)
    \/ kind = "ptr"  /\ direction = "rx" /\ offset = 0 /\ n <= LENGTH - uxTail
    \/ kind = "skip" /\ direction = "rx" /\ offset = 0 /\ n <= LENGTH - uxTail
    \/ kind = "skip" /\ direction = "tx" /\ offset = 0 /\ n <= Distance(uxTail, uxMid)

\* What a Get will return, decided from uxHead as it is now.
GetCount(offset, n) == Least(Beyond(GetSize, offset), n)

ReaderMayRun == WriterPreemptible \/ add.pc = "idle"

GetCall ==
    \E kind \in {"read", "peek", "ptr", "skip"}, offset \in 0 .. LENGTH - 1, n \in 1 .. LENGTH :
        /\ get.pc = "idle"
        /\ ReaderMayRun
        /\ GetRequest(kind, offset, n)
        /\ GetCount(offset, n) > 0
        /\ get' = [pc |-> IF kind = "skip" THEN "advance" ELSE "copy",
                   kind |-> kind, offset |-> offset, at |-> Wrap(uxTail + offset),
                   count |-> GetCount(offset, n), done |-> 0, dest |-> << >>]
        /\ UNCHANGED << ucArray, indices, add, history >>

GetCopy ==
    /\ get.pc = "copy"
    /\ get.done < get.count
    /\ ReaderMayRun
    /\ get' = [get EXCEPT !.dest = Append(@, ucArray[Wrap(get.at + get.done)]),
                          !.done = @ + 1,
                          !.pc = IF get.done + 1 < get.count THEN "copy"
                                 ELSE IF get.kind = "read" THEN "advance" ELSE "done"]
    /\ UNCHANGED << ucArray, indices, add, history >>

\* A peek is over: the caller has its bytes and nothing moves.
GetPeeked ==
    /\ get.pc = "done"
    /\ ReaderMayRun
    /\ get' = IdleGet
    /\ UNCHANGED << ucArray, indices, add, history >>

\* The bytes a Get removes: the copy it made, or for a skip what lies there.
Removed ==
    IF get.kind = "read" THEN get.dest
    ELSE [i \in 1 .. get.count |-> ucArray[Wrap(get.at + i - 1)]]

GetAdvance ==
    /\ get.pc = "advance"
    /\ ReaderMayRun
    /\ uxTail' = Wrap(get.at + get.count)
    /\ consumed' = consumed + get.count
    /\ taken' = taken \o Removed
    /\ get' = IdleGet
    /\ UNCHANGED << ucArray, uxHead, uxMid, uxFront, add, written, ahead >>

\* vStreamBufferMoveMid(), called by the IP task for what became a segment.
MoveMid ==
    \E n \in 1 .. LENGTH :
        /\ direction = "tx"
        /\ get.pc = "idle"
        /\ ReaderMayRun
        /\ MidSpace > 0
        /\ uxMid' = Wrap(uxMid + Least(n, MidSpace))
        /\ UNCHANGED << ucArray, uxHead, uxTail, uxFront, add, get, history >>

Reader == GetCall \/ GetCopy \/ GetPeeked \/ GetAdvance \/ MoveMid

\* vStreamBufferClear(): FreeRTOS_listen() empties the buffers of a socket that
\* is used again, while no connection has an Add or a Get under way.
Clear ==
    /\ add.pc = "idle"
    /\ get.pc = "idle"
    /\ uxHead' = 0 /\ uxTail' = 0 /\ uxMid' = 0 /\ uxFront' = 0
    /\ written' = 0 /\ consumed' = 0 /\ ahead' = {} /\ taken' = << >>
    /\ UNCHANGED << ucArray, add, get >>

Next == (Writer \/ Reader \/ Clear) /\ UNCHANGED direction

Spec == Init /\ [][Next]_vars

-----------------------------------------------------------------------------
(* Properties *)

AddRecord == [pc : {"idle", "copy", "publish", "front"}, kind : {"data", "advance", "inplace"},
              offset : Nat, at : Index, count : Nat, done : Nat]
GetRecord == [pc : {"idle", "copy", "done", "advance"}, kind : {"read", "peek", "ptr", "skip"},
              offset : Nat, at : Index, count : Nat, done : Nat,
              dest : Seq(Nat \cup {Garbage})]

\* The indices stay inside the array, whichever way the two tasks interleave.
TypeOK ==
    /\ direction \in {"rx", "tx"}
    /\ ucArray \in [Index -> Nat \cup {Garbage}]
    /\ uxHead \in Index /\ uxTail \in Index /\ uxMid \in Index /\ uxFront \in Index
    /\ add \in AddRecord
    /\ get \in GetRecord
    /\ written \in Nat /\ consumed \in Nat
    /\ ahead \subseteq Nat
    /\ taken \in Seq(Nat \cup {Garbage})

\* The slot of stream position p, counted from the tail.
Slot(p) == Wrap(uxTail + (p - consumed))

\* The indices account for every byte: head and tail are as far apart as the
\* stream positions they stand for, so neither task ever lapped the other.
HeadTailAccount == written = consumed + GetSize

\* Every byte that is published or stored ahead of the head still lies, intact,
\* in its slot: an Add or a Get that read a stale index of the other task
\* overwrites nothing that is still needed.
BytesIntact == \A p \in (consumed .. written - 1) \cup ahead : ucArray[Slot(p)] = p

\* A Get hands its caller the right bytes although the writer runs meanwhile.
GetReturnsStream ==
    \A i \in 1 .. get.done : get.dest[i] = consumed + get.offset + i - 1

\* The window advertised from uxFront never promises more than the room that is left.
WindowHonest == add.pc = "idle" => FrontSpace <= GetSpace

\* The buffer is a FIFO of the stream's bytes.
Fifo == INSTANCE ByteFifo WITH
    Capacity <- LENGTH - 1,
    queue <- [i \in 1 .. GetSize |-> ucArray[Wrap(uxTail + i - 1)]],
    delivered <- taken

\* Unlocked Add and Get, each many steps, are atomic appends and removals.
ImplementsFifo == Fifo!Spec
=============================================================================
