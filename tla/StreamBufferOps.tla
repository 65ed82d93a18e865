-------------------------- MODULE StreamBufferOps ---------------------------
(***************************************************************************)
(* The index arithmetic of FreeRTOS_Stream_Buffer.c.  A stream buffer is a *)
(* circular array of LENGTH bytes whose indices lie in 0 .. LENGTH - 1;    *)
(* one slot always stays free, so it holds at most LENGTH - 1 bytes.       *)
(***************************************************************************)
EXTENDS Integers

CONSTANTS
    LENGTH,     \* pxBuffer->LENGTH
    SizeRange   \* size_t counts modulo SizeRange (2^32 on the Zynq and MicroBlaze)

ASSUME LengthAssumption ==
    /\ LENGTH \in Nat \ {0}
    /\ SizeRange \in Nat
    /\ SizeRange >= 2 * LENGTH

Index == 0 .. LENGTH - 1

Least(a, b) == IF a <= b THEN a ELSE b

\* Fault: compared with > instead of >=.
WrapLate(i) == IF i > LENGTH THEN i - LENGTH ELSE i

\* An index that was moved forward by at most LENGTH, back in range.
Wrap(i) == IF i >= LENGTH THEN i - LENGTH ELSE i

\* How many items lie from index `lower' up to index `upper'.
Distance(lower, upper) == Wrap(LENGTH + upper - lower)

\* Fault: the result is not brought back in range.
SpaceUnwrapped(lower, upper) == LENGTH + upper - lower - 1

\* How many items fit from `lower' before `upper' is hit: one less, modulo LENGTH.
Space(lower, upper) == Wrap(LENGTH + upper - lower - 1)

\* Subtraction of two size_t values.
SizeSub(a, b) == IF a >= b THEN a - b ELSE SizeRange + a - b

\* Fault: the indices themselves are compared.
IndicesCompared(tail, left, right) == left <= right

\* Is `left' no further ahead of the tail than `right'?
LessThenEqual(tail, left, right) == SizeSub(left, tail) <= SizeSub(right, tail)

\* What an offset leaves of the room or the data that an Add or a Get found.
Beyond(amount, offset) == IF amount > offset THEN amount - offset ELSE 0

(***************************************************************************)
(* uxStreamBufferAdd() as one step, for the modules in which nothing runs  *)
(* in the middle of it.  A buffer `b' is a record of its array, head, tail *)
(* and front; `data' maps 0 .. n - 1 to bytes, or is << >> when the call   *)
(* passes NULL to move the head over bytes that are there already.         *)
(***************************************************************************)
AddedCount(b, offset, n) == Least(Beyond(Space(b.head, b.tail), offset), n)

StreamAdd(b, offset, data, n) ==
    LET count == AddedCount(b, offset, n)
        at == Wrap(b.head + offset)
        nextHead == IF offset = 0 THEN Wrap(at + count) ELSE at
    IN  IF count = 0 THEN b
        ELSE [array |-> [i \in Index |-> IF data # << >> /\ Distance(at, i) < count
                                         THEN data[Distance(at, i)] ELSE b.array[i]],
              head |-> IF offset = 0 THEN nextHead ELSE b.head,
              tail |-> b.tail,
              front |-> IF LessThenEqual(b.tail, b.front, nextHead) THEN nextHead ELSE b.front]
=============================================================================
