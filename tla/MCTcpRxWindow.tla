--------------------------- MODULE MCTcpRxWindow ----------------------------
(***************************************************************************)
(* Two peers for TcpRxWindow.  One cuts its stream into segments once and  *)
(* for all and repeats them as they are, as FreeRTOS_TCP_WIN.c itself      *)
(* does.  The other joins and cuts again when it retransmits.              *)
(***************************************************************************)
EXTENDS TcpRxWindow

\* Segments of MSS bytes, the last one perhaps shorter, and the bare FIN.
FixedSlices ==
    {s \in (0 .. MaxBytes) \X (0 .. MaxBytes) :
        /\ s[1] % MSS = 0
        /\ s[2] = Least(s[1] + MSS, MaxBytes)}
    \cup {<< MaxBytes, MaxBytes >>}

\* Any slice of at most MSS bytes.
AnySlices ==
    {s \in (0 .. MaxBytes) \X (0 .. MaxBytes) : s[1] < s[2] /\ s[2] - s[1] <= MSS}
    \cup {<< MaxBytes, MaxBytes >>}

BothCuts == {FixedSlices, AnySlices}
=============================================================================
