-------------------------- MODULE SequenceNumbers ---------------------------
(***************************************************************************)
(* TCP sequence numbers as FreeRTOS_TCP_WIN.c computes and compares them:  *)
(* unsigned, modulo SeqRange (2^32 in the program), ordered by the sign    *)
(* bit of their difference.                                                *)
(***************************************************************************)
EXTENDS Integers

CONSTANT SeqRange

ASSUME SeqRangeAssumption == SeqRange \in Nat \ {0} /\ SeqRange % 2 = 0

SeqNumber == 0 .. SeqRange - 1
HalfRange == SeqRange \div 2

SeqAdd(a, n) == (a + n) % SeqRange
SeqSub(a, b) == (a - b) % SeqRange

\* A difference cast to a signed integer.
Signed(d) == IF d < HalfRange THEN d ELSE d - SeqRange

xSequenceLessThan(a, b) == SeqSub(b, SeqAdd(a, 1)) < HalfRange
xSequenceLessThanOrEqual(a, b) == SeqSub(b, a) < HalfRange
xSequenceGreaterThan(a, b) == SeqSub(a, SeqAdd(b, 1)) < HalfRange
xSequenceGreaterThanOrEqual(a, b) == SeqSub(a, b) < HalfRange
=============================================================================
