------------------------------ MODULE ByteFifo ------------------------------
(***************************************************************************)
(* What a stream buffer promises its two users: the bytes of one stream,   *)
(* handed out in order, each once, with at most Capacity of them waiting.  *)
(* A byte is represented by its position in the stream, so `delivered' and *)
(* `queue' say which bytes are where and not only how many.                *)
(***************************************************************************)
EXTENDS Naturals, Sequences

CONSTANTS
    Capacity    \* bytes the buffer can hold

VARIABLES
    queue,      \* bytes that were added and not yet taken
    delivered   \* bytes that were taken, oldest first

fifoVars == << queue, delivered >>

\* The n bytes of the stream that follow position `first'.
Segment(first, n) == [i \in 1 .. n |-> first + i - 1]

Init ==
    /\ queue = << >>
    /\ delivered = << >>

\* The writer adds the next n bytes of the stream, within the capacity.
Put ==
    \E n \in 1 .. Capacity :
        /\ Len(queue) + n <= Capacity
        /\ queue' = queue \o Segment(Len(delivered) + Len(queue), n)
        /\ UNCHANGED delivered

\* The reader takes the n oldest bytes.
Take ==
    \E n \in 1 .. Len(queue) :
        /\ delivered' = delivered \o SubSeq(queue, 1, n)
        /\ queue' = SubSeq(queue, n + 1, Len(queue))

\* The buffer is emptied for another connection, whose stream starts anew.
Clear ==
    /\ queue' = << >>
    /\ delivered' = << >>

Next == Put \/ Take \/ Clear

Spec == Init /\ [][Next]_fifoVars
=============================================================================
