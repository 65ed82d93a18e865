--------------------------- MODULE MCTcpConnection ---------------------------
(* Numbers of units for TLC. *)
EXTENDS TcpConnection

TwoAndNone == [e \in Ends |-> IF e = "client" THEN 2 ELSE 0]
==============================================================================
